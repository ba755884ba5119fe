---------------------------- MODULE FirewallProofs ----------------------------
(***************************************************************************)
(* For every set of rules and every timeout: what the backend opens, the   *)
(* kernel closes in time, whatever the callers do, unless it was opened    *)
(* for less than a second.                                                 *)
(***************************************************************************)
EXTENDS Firewall, TLAPS

\* The inductive invariant.
IndInv ==
    /\ now \in Nat
    /\ lookups \in Nat
    /\ elems \in [DOMAIN elems -> Nat]
    /\ owed \in [DOMAIN owed -> Nat]
    /\ ClosesInTime
    /\ ReadyWhenInitialized

\* Duration::as_secs, cut to an u32, rounds down, and to zero only what is less
\* than a second.
LEMMA TimeoutSecsBounds ==
    ASSUME NEW t \in Nat
    PROVE  /\ TimeoutSecs(t) \in Nat /\ Unit * TimeoutSecs(t) \in Nat
           /\ Unit * TimeoutSecs(t) <= t
           /\ TimeoutSecs(t) = 0 => t < Unit
           /\ TimeoutSecs(t) # 0 => Unit * TimeoutSecs(t) > 0
<1>1. Unit \in Nat /\ Unit > 0 /\ MaxSecs \in Nat /\ MaxSecs > 0
  BY FirewallAssumption
<1>2. t \div Unit \in Nat /\ Unit * (t \div Unit) <= t /\ t < Unit * (t \div Unit) + Unit
  BY <1>1
<1>3. \A s, m \in Nat : s <= m => Unit * s \in Nat /\ Unit * m \in Nat /\ Unit * s <= Unit * m
  BY <1>1
<1>4. \A s \in Nat : s # 0 => Unit * s > 0
  BY <1>1
<1>5. /\ TimeoutSecs(t) \in Nat /\ TimeoutSecs(t) <= t \div Unit
      /\ TimeoutSecs(t) = 0 => t \div Unit = 0
  BY <1>1, <1>2 DEF TimeoutSecs
<1>6. t \div Unit = 0 => t < Unit
  BY <1>1, <1>2
<1>7. Unit * TimeoutSecs(t) \in Nat /\ Unit * TimeoutSecs(t) <= Unit * (t \div Unit)
      /\ Unit * (t \div Unit) \in Nat
  BY <1>2, <1>3, <1>5
<1>8. Unit * TimeoutSecs(t) <= t
  BY <1>2, <1>7
<1> QED
  BY <1>4, <1>5, <1>6, <1>7, <1>8

\* open_access keeps the invariant: the expiry is not beyond the grant's end, or
\* there is none and the grant was brief.
LEMMA OpenInv ==
    ASSUME IndInv, NEW r \in Rules, OpenAccess(r)
    PROVE  IndInv'
<1> DEFINE E == Elements(r)
           until == Expiry(TimeoutSecs(r.timeout))
           end == now + r.timeout
<1>1. now \in Nat /\ r.timeout \in Nat
  BY FirewallAssumption DEF IndInv
<1>2. /\ until \in Nat /\ end \in Nat
      /\ (until = Never /\ r.timeout < Unit) \/ (now < until /\ until <= end)
  <2> DEFINE secs == TimeoutSecs(r.timeout)
             span == Unit * secs
  <2>1. /\ span \in Nat /\ span <= r.timeout
        /\ secs = 0 => r.timeout < Unit
        /\ secs # 0 => span > 0
    BY <1>1, TimeoutSecsBounds
  <2>2. until = IF secs = 0 THEN Never ELSE now + span
    BY DEF Expiry
  <2> HIDE DEF until, secs, span
  <2> QED
    BY <1>1, <2>1, <2>2 DEF Never
<1>3. /\ elems' \in AddElements(E, until)
      /\ owed' = Longest(owed, E, end)
      /\ brief \subseteq brief' /\ (r.timeout < Unit => E \subseteq brief')
      /\ UNCHANGED <<now, initialized, lookups>>
  BY DEF OpenAccess
<1> HIDE DEF E, until, end
<1>4. /\ DOMAIN elems' = DOMAIN elems \cup E
      /\ elems' = [e \in DOMAIN elems' |-> elems'[e]]
      /\ \A e \in DOMAIN elems' :
            \/ e \in E /\ elems'[e] = until
            \/ e \in DOMAIN elems /\ elems'[e] = elems[e]
  <2>1. PICK kept \in SUBSET (E \cap DOMAIN elems) :
            elems' = [e \in DOMAIN elems \cup E |-> IF e \in E \ kept THEN until ELSE elems[e]]
    BY <1>3 DEF AddElements
  <2> QED
    BY <2>1
<1>5. /\ DOMAIN owed' = DOMAIN owed \cup E
      /\ owed' \in [DOMAIN owed' -> Nat]
      /\ \A e \in E : end <= owed'[e]
      /\ \A e \in DOMAIN owed : owed[e] <= owed'[e]
  <2> DEFINE G == DOMAIN owed \cup E
             L(e) == IF e \in E /\ (e \in DOMAIN owed => owed[e] < end) THEN end ELSE owed[e]
  <2>1. owed' = [e \in G |-> L(e)]
    BY <1>3 DEF Longest
  <2>2. \A e \in DOMAIN owed : owed[e] \in Nat
    BY DEF IndInv
  <2>3. \A e \in G : L(e) \in Nat
    BY <1>2, <2>2
  <2>4. \A e \in E : end <= L(e)
    BY <1>2, <2>2
  <2>5. \A e \in DOMAIN owed : owed[e] <= L(e)
    BY <1>2, <2>2
  <2> HIDE DEF L
  <2> QED
    BY <2>1, <2>3, <2>4, <2>5
<1>6. elems' \in [DOMAIN elems' -> Nat]
  BY <1>2, <1>4 DEF IndInv
<1>7. ClosesInTime'
  <2> SUFFICES ASSUME NEW e \in DOMAIN elems'
               PROVE  \/ elems'[e] = Never /\ e \in brief'
                      \/ e \in DOMAIN owed' /\ now < elems'[e] /\ elems'[e] <= owed'[e]
    BY <1>3 DEF ClosesInTime
  <2>1. CASE e \in E /\ elems'[e] = until
    <3>1. CASE until = Never /\ r.timeout < Unit
      BY <1>3, <2>1, <3>1
    <3>2. CASE now < until /\ until <= end
      <4>1. e \in DOMAIN owed' /\ owed'[e] \in Nat /\ end <= owed'[e]
        BY <1>5, <2>1
      <4> QED
        BY <1>2, <2>1, <3>2, <4>1
    <3> QED
      BY <1>2, <3>1, <3>2
  <2>2. CASE e \in DOMAIN elems /\ elems'[e] = elems[e]
    <3>1. CASE elems[e] = Never /\ e \in brief
      BY <1>3, <2>2, <3>1
    <3>2. CASE e \in DOMAIN owed /\ now < elems[e] /\ elems[e] <= owed[e]
      <4>1. elems[e] \in Nat /\ owed[e] \in Nat /\ owed'[e] \in Nat /\ owed[e] <= owed'[e]
        BY <2>2, <3>2, <1>5 DEF IndInv
      <4> QED
        BY <2>2, <3>2, <4>1, <1>5
    <3> QED
      BY <2>2, <3>1, <3>2 DEF IndInv, ClosesInTime
  <2> QED
    BY <1>4, <2>1, <2>2
<1> QED
  BY <1>3, <1>5, <1>6, <1>7 DEF IndInv, ReadyWhenInitialized

\* Restricting the set to fewer elements keeps what is known of them.
LEMMA FewerInv ==
    ASSUME IndInv, NEW S \in SUBSET DOMAIN elems, elems' = Restrict(elems, S),
           now' \in Nat, \A e \in S : elems[e] = Never \/ now' < elems[e],
           brief \cap S \subseteq brief', UNCHANGED <<initialized, lookups, owed>>
    PROVE  IndInv'
<1>1. DOMAIN elems' = S /\ \A e \in S : elems'[e] = elems[e]
  BY DEF Restrict
<1>2. elems' \in [DOMAIN elems' -> Nat]
  BY DEF Restrict, IndInv
<1>3. ClosesInTime'
  <2> SUFFICES ASSUME NEW e \in S
               PROVE  \/ elems[e] = Never /\ e \in brief'
                      \/ e \in DOMAIN owed /\ now' < elems[e] /\ elems[e] <= owed[e]
    BY <1>1 DEF ClosesInTime
  <2>1. CASE elems[e] = Never /\ e \in brief
    BY <2>1
  <2>2. CASE e \in DOMAIN owed /\ now < elems[e] /\ elems[e] <= owed[e]
    BY <2>2 DEF IndInv, Never
  <2> QED
    BY <2>1, <2>2 DEF IndInv, ClosesInTime
<1> QED
  BY <1>1, <1>2, <1>3 DEF IndInv, ReadyWhenInitialized

\* Every step keeps the invariant.
LEMMA NextInv == IndInv /\ [Next]_vars => IndInv'
<1> SUFFICES ASSUME IndInv, [Next]_vars PROVE IndInv'
  OBVIOUS
<1>1. CASE InitBackend
  <2>1. lookups' \in Nat /\ lookups' > 0
    BY <1>1 DEF InitBackend, IndInv
  <2> QED
    BY <1>1, <2>1 DEF InitBackend, IndInv, ClosesInTime, ReadyWhenInitialized
<1>2. CASE Flush
  <2>1. CASE elems' = Empty /\ lookups' = 0
    <3>1. DOMAIN elems' = {} /\ elems' \in [{} -> Nat]
      BY <2>1 DEF Empty
    <3> QED
      BY <1>2, <2>1, <3>1 DEF Flush, IndInv, ClosesInTime, ReadyWhenInitialized
  <2>2. CASE UNCHANGED <<lookups, elems>>
    BY <1>2, <2>2 DEF Flush, IndInv, ClosesInTime, ReadyWhenInitialized
  <2> QED
    BY <1>2, <2>1, <2>2 DEF Flush
<1>3. CASE Restart
  BY <1>3 DEF Restart, IndInv, ClosesInTime, ReadyWhenInitialized
<1>4. CASE Tick
  <2> DEFINE S == {e \in DOMAIN elems : elems[e] = Never \/ elems[e] > now'}
  <2>1. now' \in Nat /\ elems' = Restrict(elems, S) /\ UNCHANGED <<initialized, lookups, owed>>
        /\ brief' = brief \cap DOMAIN elems'
    BY <1>4 DEF Tick, IndInv
  <2>2. \A e \in S : elems[e] = Never \/ now' < elems[e]
    BY <2>1 DEF IndInv
  <2>3. DOMAIN elems' = S
    BY <2>1 DEF Restrict
  <2> QED
    BY <2>1, <2>2, <2>3, FewerInv
<1>5. CASE \E r \in Rules : OpenAccess(r)
  BY <1>5, OpenInv
<1>6. CASE \E h \in handles : RemoveRule(h)
  <2>1. PICK h \in handles : RemoveRule(h)
    BY <1>6
  <2>2. /\ elems' = Restrict(elems, DOMAIN elems \ h)
        /\ brief' = brief \ h
        /\ UNCHANGED <<now, initialized, lookups, owed>>
    BY <2>1 DEF RemoveRule
  <2>3. now' \in Nat /\ \A e \in DOMAIN elems \ h : elems[e] = Never \/ now' < elems[e]
    BY <2>2 DEF IndInv, ClosesInTime
  <2> QED
    BY <2>2, <2>3, FewerInv
<1>7. CASE UNCHANGED vars
  BY <1>7 DEF vars, IndInv, ClosesInTime, ReadyWhenInitialized
<1> QED
  BY <1>1, <1>2, <1>3, <1>4, <1>5, <1>6, <1>7 DEF Next

\* The invariant holds throughout.
LEMMA FirewallInvariant == Spec => []IndInv
<1>1. Init => IndInv
  BY DEF Init, Empty, IndInv, ClosesInTime, ReadyWhenInitialized
<1> QED
  BY <1>1, NextInv, PTL DEF Spec

\* open_access, remove_rule, flush and restarts in any order: the kernel closes a
\* port no later than the longest grant for it ends, unless a grant of less than a
\* second has touched it.
THEOREM FirewallClosesInTime == Spec => []ClosesInTime
<1>1. IndInv => ClosesInTime
  BY DEF IndInv
<1> QED
  BY <1>1, FirewallInvariant, PTL

\* assert_initialized lets a call through only when table and chain are there.
THEOREM FirewallReadyWhenInitialized == Spec => []ReadyWhenInitialized
<1>1. IndInv => ReadyWhenInitialized
  BY DEF IndInv
<1> QED
  BY <1>1, FirewallInvariant, PTL
=============================================================================
