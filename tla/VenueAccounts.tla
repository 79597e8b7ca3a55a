---------------------------- MODULE VenueAccounts ----------------------------
(***************************************************************************)
(* The venue accounts of the LML admin: the use case that creates one, the *)
(* life of the VenueAccount aggregate, and the three value objects it      *)
(* carries (configuration, billing, contacts).  The repository behind the  *)
(* port is external: it saves an account whole and keeps slugs unique.     *)
(***************************************************************************)
EXTENDS Integers, FiniteSets, Sequences, FiniteSetsExt, SequencesExt

CONSTANTS
    AccountIds,     \* ids, one per creation that saves
    Slugs,
    Creations,      \* calls of CreateVenueAccount
    StaffLimits,    \* values asked for limits.maxStaff
    Fees,           \* values asked for pricing.monthlyFee
    Discounts,      \* records [kind, value, current]
    ContactIds,
    Usage           \* bound: transactions a month is billed for

\* Limits, fees and discounts are whole numbers, the defaults among them, and
\* an account has finitely many discounts.
ASSUME AccountAssumption ==
    /\ StaffLimits \subseteq Int /\ 2 \in StaffLimits
    /\ Fees \subseteq Int /\ 1 \in Fees
    /\ Discounts \subseteq [kind : {"percentage", "fixed"}, value : Int, current : BOOLEAN]
    /\ IsFiniteSet(Discounts)
    /\ Usage \in Nat

VARIABLES
    account,        \* the stored accounts
    creation        \* where each creation stands

accountVars == <<account, creation>>

NoAccount == [status |-> "none"]

-----------------------------------------------------------------------------
(* VenueConfiguration: the staff limit, the notification address (settings   *)
(* may be absent), and whether colours and the other numbers are in range.   *)

Configuration == [maxStaff : StaffLimits, mail : {"absent", "empty", "given"}, sound : BOOLEAN]

DefaultConfiguration == [maxStaff |-> 2, mail |-> "empty", sound |-> TRUE]

ValidConfiguration(cfg) == cfg.sound /\ cfg.maxStaff >= 1 /\ cfg.mail # "empty"

\* create, updateBranding and updateLimits validate what they build;
\* updateSettings and updateFeatures do not.
Checked(cfgs) == {cfg \in cfgs : ValidConfiguration(cfg)}
WithBranding(cfg) == {[cfg EXCEPT !.sound = ok] : ok \in BOOLEAN}
WithLimits(cfg) == {[cfg EXCEPT !.maxStaff = n] : n \in StaffLimits}
WithSettings(cfg) == {new \in Configuration : new.maxStaff = cfg.maxStaff /\ new.mail # "absent"}

NextConfigurations(cfg) ==
    Checked(Configuration) \cup WithSettings(cfg) \cup {DefaultConfiguration}

LimitExceeded(cfg, n) == n >= cfg.maxStaff
RemainingCapacity(cfg, n) == IF cfg.maxStaff > n THEN cfg.maxStaff - n ELSE 0

-----------------------------------------------------------------------------
(* BillingConfiguration, in whole currency units: one unit per transaction. *)

Billing == [fee : Fees, mail : BOOLEAN, discounts : SUBSET Discounts]

DefaultBilling == [fee |-> 1, mail |-> FALSE, discounts |-> {}]

\* A slip: any discount goes.
ValidBillingAnyDiscount(b) == b.mail /\ b.fee >= 0

ValidBilling(b) ==
    /\ b.mail
    /\ b.fee >= 0
    /\ \A d \in b.discounts :
         d.value >= 0 /\ (d.kind = "percentage" => d.value <= 100)

\* Where the billing of an update comes from: updatePricing and updatePayment
\* validate what they build, applyDiscount hands back what is there, and
\* createDefault validates nothing.
NextBillings(b) == {new \in Billing : ValidBilling(new)} \cup {b, DefaultBilling}

Amount(d, subtotal) ==
    IF d.kind = "percentage" THEN (subtotal * d.value) \div 100 ELSE d.value

\* A slip: discounts add up past the bill.
DiscountUncapped(b, subtotal) ==
    MapThenSumSet(LAMBDA d : Amount(d, subtotal), {d \in b.discounts : d.current})

DiscountAmount(b, subtotal) ==
    LET sum == MapThenSumSet(LAMBDA d : Amount(d, subtotal), {d \in b.discounts : d.current})
    IN  IF sum > subtotal THEN subtotal ELSE sum

MonthlyCost(b, transactions) ==
    LET subtotal == b.fee + transactions IN subtotal - DiscountAmount(b, subtotal)

-----------------------------------------------------------------------------
(* ContactInformation: the ids of the additional contacts, in order. *)

ValidContacts(ids) == IsInjective(ids)

\* A slip: a contact that is there already is added again.
AddContactAgain(ids, i) == Append(ids, i)

AddContact(ids, i) == IF Contains(ids, i) THEN ids ELSE Append(ids, i)

\* No id occurs twice (ValidContacts), so the filter drops one contact at most.
RemoveContact(ids, i) == RemoveFirst(ids, i)

\* The primary, billing, technical and emergency contacts are not told apart
\* from their data: an update of one, valid or refused, keeps the ids.
NextContacts(ids) ==
    {ids} \cup UNION {{AddContact(ids, i), RemoveContact(ids, i)} : i \in ContactIds}

-----------------------------------------------------------------------------
(* VenueAccount *)

NewAccount(slug) ==
    [slug |-> slug, status |-> "pending", activatedAt |-> FALSE, suspendedAt |-> FALSE,
     config |-> DefaultConfiguration, billing |-> DefaultBilling, contacts |-> <<>>]

Stored == {v \in AccountIds : account[v] # NoAccount}

AccountTypeOK ==
    /\ \A v \in Stored :
         /\ account[v].slug \in Slugs
         /\ account[v].status \in {"pending", "active", "suspended", "archived"}
         /\ account[v].config \in Configuration
         /\ account[v].billing \in Billing
         /\ ValidContacts(account[v].contacts)
    /\ \A c \in Creations : creation[c].at \in {"idle", "lookup", "save", "failed"}

AccountInit ==
    /\ account = [v \in AccountIds |-> NoAccount]
    /\ creation = [c \in Creations |-> [at |-> "idle"]]

Change(v, a) == account' = [account EXCEPT ![v] = a] /\ UNCHANGED creation

\* A slip: an archived account can be activated again.
MayActivateArchived(st) == st # "active"

MayActivate(st) == st \notin {"active", "archived"}
MaySuspend(st) == st \notin {"suspended", "archived"}

Activate(v) ==
    /\ MayActivate(account[v].status)
    /\ Change(v, [account[v] EXCEPT !.status = "active", !.activatedAt = TRUE, !.suspendedAt = FALSE])

Suspend(v) ==
    /\ MaySuspend(account[v].status)
    /\ Change(v, [account[v] EXCEPT !.status = "suspended", !.suspendedAt = TRUE])

Archive(v) ==
    /\ account[v].status # "archived"
    /\ Change(v, [account[v] EXCEPT !.status = "archived"])

UpdateConfiguration(v) ==
    /\ account[v].status # "archived"
    /\ \E cfg \in NextConfigurations(account[v].config) :
         Change(v, [account[v] EXCEPT !.config = cfg])

UpdateBilling(v) ==
    /\ account[v].status # "archived"
    /\ \E b \in NextBillings(account[v].billing) :
         Change(v, [account[v] EXCEPT !.billing = b])

\* Not refused for an archived account.
UpdateContacts(v) ==
    \E ids \in NextContacts(account[v].contacts) :
        Change(v, [account[v] EXCEPT !.contacts = ids])

-----------------------------------------------------------------------------
(* CreateVenueAccount *)

GoOn(c, r) == creation' = [creation EXCEPT ![c] = r]

\* The configuration asked for: branding or limits on top of the default never
\* pass, since the default has no notification address.
Configured(asked) ==
    IF asked = "nothing" THEN {DefaultConfiguration}
    ELSE Checked(IF asked = "branding" THEN WithBranding(DefaultConfiguration)
                 ELSE WithLimits(DefaultConfiguration))

AskCreation(c, slug, valid, asked) ==
    /\ creation[c].at = "idle"
    /\ GoOn(c, IF valid THEN [at |-> "lookup", slug |-> slug, asked |-> asked]
               ELSE [at |-> "failed"])
    /\ UNCHANGED account

\* A slip: the slug of an archived account counts as free.
TakenByTheLiving(slug) == \E v \in Stored : account[v].slug = slug /\ account[v].status # "archived"

SlugTaken(slug) == \E v \in Stored : account[v].slug = slug

\* findBySlug, whose failure counts as absence, and the value objects; billing
\* asked for is dropped, for the default has no invoice address either.  What
\* the lookup saw, if it was answered, is kept for the property.
LookupSlug(c, answered) ==
    /\ creation[c].at = "lookup"
    /\ GoOn(c, IF \/ answered /\ SlugTaken(creation[c].slug)
                  \/ Configured(creation[c].asked) = {}
               THEN [at |-> "failed"]
               ELSE [at |-> "save", slug |-> creation[c].slug,
                     seen |-> IF answered THEN Stored ELSE {}, blind |-> ~answered])
    /\ UNCHANGED account

\* The table's UNIQUE.
SlugIsFree(slug) == \A v \in Stored : account[v].slug # slug

\* save: then the use case asks the aggregate for getUncommittedEvents, which
\* it does not have, and reports a failure.
SaveAccount(c, v) ==
    /\ creation[c].at = "save"
    /\ v \notin Stored
    /\ IF SlugIsFree(creation[c].slug)
       THEN account' = [account EXCEPT ![v] = NewAccount(creation[c].slug)]
       ELSE UNCHANGED account
    /\ GoOn(c, [at |-> "failed"])

SaveFails(c) ==
    /\ creation[c].at = "save"
    /\ GoOn(c, [at |-> "failed"])
    /\ UNCHANGED account

AccountNext ==
    \/ \E v \in Stored :
         \/ Activate(v)
         \/ Suspend(v)
         \/ Archive(v)
         \/ UpdateConfiguration(v)
         \/ UpdateBilling(v)
         \/ UpdateContacts(v)
    \/ \E c \in Creations :
         \/ \E slug \in Slugs, valid \in BOOLEAN, asked \in {"nothing", "branding", "limits"} :
              AskCreation(c, slug, valid, asked)
         \/ \E answered \in BOOLEAN : LookupSlug(c, answered)
         \/ \E v \in AccountIds : SaveAccount(c, v)
         \/ SaveFails(c)

AccountSpec == AccountInit /\ [][AccountNext]_accountVars

-----------------------------------------------------------------------------
\* VenueAccountStatusTransition.VALID_TRANSITIONS, which the aggregate does
\* not consult.
ValidTransition(from, to) ==
    \/ from = "pending" /\ to \in {"active", "archived"}
    \/ from = "active" /\ to \in {"suspended", "archived"}
    \/ from = "suspended" /\ to \in {"active", "archived"}

\* An account changes its status only as VALID_TRANSITIONS says, but for the
\* pending account that is suspended; in particular nothing ends an archived
\* account's rest, whichever calls are made.
StatusFollowsTheTable ==
    [][\A v \in Stored :
         LET from == account[v].status  to == account'[v].status IN
         \/ from = to
         \/ ValidTransition(from, to)
         \/ from = "pending" /\ to = "suspended"]_accountVars

\* A creation comes to save a slug that is taken, so that only the table's
\* UNIQUE can refuse it, only if its lookup failed or the slug was taken after
\* the lookup: no change of an account, its archiving included, frees its slug
\* for the lookup (CreateVenueAccount.execute).
ClashesAreRaces ==
    \A c \in Creations, v \in Stored :
        creation[c].at = "save" /\ account[v].slug = creation[c].slug =>
            creation[c].blind \/ v \notin creation[c].seen

\* Whatever configurations and discounts an account went through, a month is
\* never charged less than nothing nor more than its undiscounted price, and
\* a limit counts as exceeded exactly when no capacity remains.
UsageIsPricedInBounds ==
    \A v \in Stored : \A n \in 0..Usage :
        /\ MonthlyCost(account[v].billing, n) \in 0..(account[v].billing.fee + n)
        /\ LimitExceeded(account[v].config, n) <=> RemainingCapacity(account[v].config, n) = 0
=============================================================================
