---------------------------- MODULE PlatformProofs ----------------------------
(***************************************************************************)
(* The services of MCPlatform side by side: each of them behaves as its    *)
(* own specification says, so that what is proved of one holds there too.  *)
(***************************************************************************)
EXTENDS MCPlatform, ServicesProofs, GateProofs, StoresProofs

LEMMA InitsOfTheServices ==
    PlatformInit =>
        LockInit /\ ScopeInit /\ GateInit /\ EventInit /\ MigrationInit /\ MapInit
  BY DEF PlatformInit

LEMMA StepsOfTheServices ==
    [PlatformNext]_platformVars =>
        /\ [LockNext]_lockVars /\ [ScopeNext]_scopeVars /\ [GateNext]_gateVars
        /\ [EventNext]_eventVars /\ [MigrationNext]_migrationVars /\ [MapNext]_mapVars
  <1> SUFFICES ASSUME [PlatformNext]_platformVars
               PROVE  /\ [LockNext]_lockVars /\ [ScopeNext]_scopeVars /\ [GateNext]_gateVars
                      /\ [EventNext]_eventVars /\ [MigrationNext]_migrationVars /\ [MapNext]_mapVars
    OBVIOUS
  <1>1. CASE PlatformNext
    BY <1>1 DEF PlatformNext
  <1>2. CASE UNCHANGED platformVars
    BY <1>2 DEF platformVars
  <1> QED
    BY <1>1, <1>2

\* A behaviour of the platform is one of each of its services: none of them
\* sees the others.
THEOREM ServicesKeepToThemselves ==
    PlatformSpec =>
        LockSpec /\ ScopeSpec /\ GateSpec /\ EventSpec /\ MigrationSpec /\ MapSpec
  BY InitsOfTheServices, StepsOfTheServices, PTL
     DEF PlatformSpec, LockSpec, ScopeSpec, GateSpec, EventSpec, MigrationSpec, MapSpec

\* The stores and the calls of every service keep to their types.
THEOREM PlatformTypes == PlatformSpec => []PlatformTypeOK
  <1>1. LockTypeOK /\ ScopeTypeOK /\ GateTypeOK /\ EventTypeOK /\ MigrationTypeOK /\ MapTypeOK
          => PlatformTypeOK
    BY DEF PlatformTypeOK
  <1> QED
    BY ServicesKeepToThemselves, LockTypes, ScopeTypes, GateTypes, EventTypes, MigrationTypes,
       MapTypes, <1>1, PTL

\* What the run of the platform checks of each service, for every number of
\* users, requests, scans, events, runners, seatmaps and calls.
THEOREM PlatformPromises ==
    PlatformSpec =>
        /\ []ExtensionsWithinLimit /\ ReplacedOnlyByOldHolder
        /\ []StrayVenueWasSetMeanwhile
        /\ []NoLaterRedemption /\ []SignatureSurvivesRotation
        /\ []FailedEventsAreRetried
        /\ []RecordedMeansApplied
        /\ []PublishedUnlessInterrupted /\ []StaleMapsComeFromRaces
  BY ServicesKeepToThemselves, ExtensionsLimited, NoLockIsStolen, NoLeftoverVenue,
     LaterScansRefused, RotationsInvalidateNothing, NoFailedEventIsLost, HistoriesAreTrue,
     AlwaysPublished, StaleMapsExplained, PTL
=============================================================================
