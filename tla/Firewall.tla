------------------------------- MODULE Firewall -------------------------------
(***************************************************************************)
(* The nftables backend, crates/fwknox-firewall/src/nftables.rs, with the  *)
(* kernel it drives.  Every call sends one batch through nft, which the    *)
(* kernel applies as a whole or not at all.                                *)
(*                                                                         *)
(* An element of the set fwknox_allow_v4 is a pair of a source and a port. *)
(* A RuleHandle lists the elements of its rule, so it is a set of them:    *)
(* joining and splitting the text is lossless.  Time is counted in ticks   *)
(* of 1/Unit second, because the timeout of a rule is a Duration and that  *)
(* of an element is in whole seconds, of which zero means that the element *)
(* does not expire.                                                        *)
(***************************************************************************)
EXTENDS Naturals, FiniteSets, Functions

CONSTANTS
    Rules,      \* the AccessRules callers may ask for
    Unit,       \* ticks in a second
    MaxSecs,    \* u32::MAX
    MaxTime,    \* bound on the clock
    MaxLookups  \* bound on the copies of the lookup rule

ASSUME FirewallAssumption ==
    /\ Unit \in Nat \ {0} /\ MaxSecs \in Nat \ {0}
    /\ MaxTime \in Nat /\ MaxLookups \in Nat
    /\ \A r \in Rules : r.timeout \in Nat

VARIABLES
    now,         \* the kernel's clock
    initialized, \* NftState.initialized
    lookups,     \* copies of the lookup rule in the input chain; none without
                 \* the table, which comes in the same batch
    elems,       \* the set in the kernel: from elements to their expiry, or Never
    handles,     \* the RuleHandles callers hold
    owed,        \* history: from elements to the end of the longest grant
    brief        \* history: the elements that a grant for less than a second
                 \* has touched since they came into the set

vars == <<now, initialized, lookups, elems, handles, owed, brief>>

Empty == [e \in {} |-> 0]
Never == 0

Init ==
    /\ now = 0
    /\ initialized = FALSE
    /\ lookups = 0
    /\ elems = Empty
    /\ handles = {}
    /\ owed = Empty
    /\ brief = {}

\* NftablesBackend::init.  Adding a table, a set or a chain that exists changes
\* nothing; adding a rule appends it once more.
InitBackend ==
    /\ lookups < MaxLookups
    /\ lookups' = lookups + 1
    /\ initialized' = TRUE
    /\ UNCHANGED <<now, elems, handles, owed, brief>>

Elements(r) == {<<r.source, p>> : p \in r.ports}

\* Mutant of TimeoutSecs: a fraction of a second is rounded up.
TimeoutSecsRoundedUp(ticks) == (ticks + Unit - 1) \div Unit

\* Duration::as_secs, as an u32.
TimeoutSecs(ticks) ==
    LET secs == ticks \div Unit IN IF secs > MaxSecs THEN MaxSecs ELSE secs

Expiry(secs) == IF secs = 0 THEN Never ELSE now + Unit * secs

\* The kernel adds the elements E with the given expiry.  For an element that is
\* in the set already, older kernels keep its expiry and newer ones replace it.
AddElements(E, until) ==
    {[e \in DOMAIN elems \cup E |->
          IF e \in E \ kept THEN until ELSE elems[e]] : kept \in SUBSET (E \cap DOMAIN elems)}

Longest(f, E, until) ==
    [e \in DOMAIN f \cup E |->
        IF e \in E /\ (e \in DOMAIN f => f[e] < until) THEN until ELSE f[e]]

\* open_access, for an IPv4 source, after init.  In all other cases, and when
\* nft fails, it returns an error and changes nothing.
OpenAccess(r) ==
    /\ initialized
    /\ r.family = "v4"
    /\ lookups > 0
    /\ elems' \in AddElements(Elements(r), Expiry(TimeoutSecs(r.timeout)))
    /\ handles' = handles \cup {Elements(r)}
    /\ owed' = Longest(owed, Elements(r), now + r.timeout)
    /\ brief' = IF r.timeout < Unit THEN brief \cup Elements(r) ELSE brief
    /\ UNCHANGED <<now, initialized, lookups>>

\* remove_rule: nft deletes every element of the handle.  If one is missing, or
\* nft fails otherwise, the whole batch does; remove_rule then finds out which
\* error to return, and changes nothing.
RemoveRule(h) ==
    /\ initialized
    /\ h \subseteq DOMAIN elems
    /\ elems' = Restrict(elems, DOMAIN elems \ h)
    /\ brief' = brief \ h
    /\ UNCHANGED <<now, initialized, lookups, handles, owed>>

\* Mutant of Flush: the backend still thinks it is initialized.
FlushKeepsFlag ==
    /\ \/ lookups' = 0 /\ elems' = Empty
       \/ UNCHANGED <<lookups, elems>>
    /\ brief' = brief \cap DOMAIN elems'
    /\ UNCHANGED <<now, initialized, handles, owed>>

\* flush deletes the table with all that is in it.  An error is ignored.
Flush ==
    /\ \/ lookups' = 0 /\ elems' = Empty
       \/ UNCHANGED <<lookups, elems>>
    /\ initialized' = FALSE
    /\ brief' = brief \cap DOMAIN elems'
    /\ UNCHANGED <<now, handles, owed>>

\* The process ends without a flush, and a new one makes a new backend.
Restart ==
    /\ initialized' = FALSE
    /\ handles' = {}
    /\ UNCHANGED <<now, lookups, elems, owed, brief>>

\* Time passes, and the kernel removes the elements that have expired.
Tick ==
    /\ now < MaxTime
    /\ now' = now + 1
    /\ elems' = Restrict(elems, {e \in DOMAIN elems : elems[e] = Never \/ elems[e] > now'})
    /\ brief' = brief \cap DOMAIN elems'
    /\ UNCHANGED <<initialized, lookups, handles, owed>>

Next ==
    \/ InitBackend \/ Flush \/ Restart \/ Tick
    \/ \E r \in Rules : OpenAccess(r)
    \/ \E h \in handles : RemoveRule(h)

Spec == Init /\ [][Next]_vars

-----------------------------------------------------------------------------
(* Properties *)

\* rule.rs:16: a port is open to a source no longer than the longest timeout it
\* was granted for, though grants overlap, the kernel may replace an expiry, a
\* flush may fail unnoticed, and the process may be gone: the kernel closes it.
\* The one exception is an element that was granted for less than a second, which
\* the cut to whole seconds leaves without an expiry.
ClosesInTime ==
    \A e \in DOMAIN elems :
        \/ elems[e] = Never /\ e \in brief
        \/ e \in DOMAIN owed /\ now < elems[e] /\ elems[e] <= owed[e]

\* A backend that accepts open_access (assert_initialized) has its table and
\* chain in the kernel, after any sequence of init, flush and restart.
ReadyWhenInitialized == initialized => lookups > 0
=============================================================================
