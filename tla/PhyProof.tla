------------------------------ MODULE PhyProof ------------------------------
(***************************************************************************)
(* Theorems about PhyChanSwitch.  The radio adds a signal to its            *)
(* interference, or takes it off, at each start and end: that the result is *)
(* the sum over the signals on its channel rests on the sum of the model    *)
(* not depending on the order of its terms.  Under ASDCS the radio listens  *)
(* to its own channel or transmits, so its books are complete; what holds   *)
(* under next-channel switching as well is proved for both.                 *)
(*                                                                         *)
(* Joining an access point tunes the radio as well, StaJoin.  Without       *)
(* active scanning, for any access points, moves and losses: a station that *)
(* is not joined always goes on, its radio is on the right channel, and the *)
(* access point it has joined lists it.                                    *)
(***************************************************************************)
EXTENDS PhyChanSwitch, Sequences, FiniteSetTheorems, SequenceTheorems, NaturalsInduction, TLAPS

(* Sums over finite sets. *)

\* The equation that defines the sum of F over the subsets of S, one element after
\* the other.
Picked(s) == CHOOSE x \in s : TRUE
IsSum(F, g, S) ==
  g = [s \in SUBSET S |-> IF s = {} THEN 0 ELSE F[Picked(s)] + g[s \ {Picked(s)}]]

\* A finite set has a least subset of a kind, if it has one at all.
LEMMA LeastSubset ==
  ASSUME NEW S, IsFiniteSet(S), NEW T, T \subseteq SUBSET S, T # {}
  PROVE  \E s \in T : \A t \in T : t \subseteq s => t = s
<1>1. T \subseteq FiniteSubsetsOf(S) BY FS_Subset DEF FiniteSubsetsOf
<1>2. IsWellFoundedOn(StrictSubsetOrdering(S), FiniteSubsetsOf(S))
  BY FS_StrictSubsetOrderingWellFounded
<1>3. PICK s \in T : \A t \in T : ~ (<<t, s>> \in StrictSubsetOrdering(S))
  BY <1>1, <1>2, WFMin
<1>4. ASSUME NEW t \in T, t \subseteq s, t # s PROVE FALSE
  <2>1. <<t, s>> \in (SUBSET S) \X (SUBSET S) OBVIOUS
  <2> QED BY <1>3, <1>4, <2>1 DEF StrictSubsetOrdering
<1> QED BY <1>3, <1>4

\* What is taken out of a set that is not empty.
LEMMA PickedFacts ==
  ASSUME NEW s, s # {}
  PROVE  /\ Picked(s) \in s /\ s \ {Picked(s)} \subseteq s /\ s \ {Picked(s)} # s
BY DEF Picked

\* Two sums agree where both are defined.
LEMMA SumUnique ==
  ASSUME NEW F, NEW A, NEW B, IsFiniteSet(A), NEW g, NEW h, IsSum(F, g, A), IsSum(F, h, B)
  PROVE  \A s \in (SUBSET A) \cap (SUBSET B) : g[s] = h[s]
<1> DEFINE T == {s \in (SUBSET A) \cap (SUBSET B) : g[s] # h[s]}
<1> SUFFICES ASSUME T # {} PROVE FALSE OBVIOUS
<1>1. T \subseteq SUBSET A OBVIOUS
<1> HIDE DEF T
<1>2. PICK s \in T : \A t \in T : t \subseteq s => t = s BY <1>1, LeastSubset
<1>3. s \in SUBSET A /\ s \in SUBSET B /\ g[s] # h[s] BY <1>2 DEF T
<1>4. CASE s = {} BY <1>3, <1>4 DEF IsSum
<1>5. CASE s # {}
  <2> DEFINE t == s \ {Picked(s)}
  <2>1. t \subseteq s /\ t # s BY <1>5, PickedFacts
  <2>2. g[s] = F[Picked(s)] + g[t] /\ h[s] = F[Picked(s)] + h[t] BY <1>3, <1>5 DEF IsSum
  <2> HIDE DEF t
  <2>3. t \in (SUBSET A) \cap (SUBSET B) /\ t \notin T BY <1>2, <1>3, <2>1
  <2>4. g[t] = h[t] BY <2>3 DEF T
  <2> QED BY <1>3, <2>2, <2>4
<1> QED BY <1>4, <1>5

\* There is a sum over the subsets of any finite set.
LEMMA SumExists ==
  ASSUME NEW F, NEW S, IsFiniteSet(S)
  PROVE  \E g : IsSum(F, g, S)
<1> DEFINE T == {s \in SUBSET S : ~ \E g : IsSum(F, g, s)}
<1> SUFFICES ASSUME T # {} PROVE FALSE
  <2>1. S \in SUBSET S OBVIOUS
  <2> QED BY <2>1
<1>1. T \subseteq SUBSET S OBVIOUS
<1> HIDE DEF T
<1>2. PICK s \in T : \A t \in T : t \subseteq s => t = s BY <1>1, LeastSubset
<1>3. s \in SUBSET S /\ ~ \E g : IsSum(F, g, s) BY <1>2 DEF T
<1>4. \A t \in SUBSET s : t # s => (\E g : IsSum(F, g, t)) /\ IsFiniteSet(t)
  <2> SUFFICES ASSUME NEW t \in SUBSET s, t # s
               PROVE  (\E g : IsSum(F, g, t)) /\ IsFiniteSet(t)
    OBVIOUS
  <2>1. t \in SUBSET S /\ t \notin T BY <1>2, <1>3
  <2> QED BY <2>1, FS_Subset DEF T
<1> DEFINE G(t) == CHOOSE g : IsSum(F, g, t)
<1>5. \A t \in SUBSET s : t # s => IsSum(F, G(t), t) BY <1>4
<1> HIDE DEF G
<1> DEFINE h == [t \in SUBSET s |-> IF t = {} THEN 0
                                  ELSE F[Picked(t)] + G(t \ {Picked(t)})[t \ {Picked(t)}]]
<1>6. \A t \in SUBSET s : t # {} => h[t] = F[Picked(t)] + h[t \ {Picked(t)}]
  <2> SUFFICES ASSUME NEW t \in SUBSET s, t # {}
               PROVE  h[t] = F[Picked(t)] + h[t \ {Picked(t)}]
    OBVIOUS
  <2> DEFINE r == t \ {Picked(t)}
  <2>1. r \in SUBSET s /\ r # s /\ r \in SUBSET r BY PickedFacts
  <2>2. h[t] = F[Picked(t)] + G(r)[r] OBVIOUS
  <2>3. IsSum(F, G(r), r) /\ IsFiniteSet(r) BY <1>4, <1>5, <2>1
  <2>4. G(r)[r] = h[r]
    <3>1. CASE r = {}
      <4>1. G(r)[r] = 0 BY <2>1, <2>3, <3>1 DEF IsSum
      <4>2. h[r] = 0 BY <2>1, <3>1
      <4> QED BY <4>1, <4>2
    <3>2. CASE r # {}
      <4> DEFINE q == r \ {Picked(r)}
      <4>1. q \in SUBSET r /\ q # r BY <3>2, PickedFacts
      <4>2. h[r] = F[Picked(r)] + G(q)[q] BY <2>1, <3>2
      <4> HIDE DEF h, r
      <4>3. G(r)[r] = F[Picked(r)] + G(r)[q] BY <2>1, <2>3, <3>2 DEF IsSum
      <4> HIDE DEF q
      <4>4. q \in SUBSET s /\ q # s /\ q \in (SUBSET r) \cap (SUBSET q) BY <2>1, <4>1
      <4>5. IsSum(F, G(q), q) BY <1>5, <4>4
      <4>6. G(r)[q] = G(q)[q] BY <2>3, <4>4, <4>5, SumUnique
      <4> QED BY <4>2, <4>3, <4>6
    <3> QED BY <3>1, <3>2
  <2> HIDE DEF h
  <2> QED BY <2>2, <2>4
<1>7. h[{}] = 0 /\ DOMAIN h = SUBSET s /\ h = [t \in SUBSET s |-> h[t]] OBVIOUS
<1> HIDE DEF h
<1>8. h = [t \in SUBSET s |-> IF t = {} THEN 0 ELSE F[Picked(t)] + h[t \ {Picked(t)}]]
  BY <1>6, <1>7
<1>9. IsSum(F, h, s) BY <1>8 DEF IsSum
<1> QED BY <1>3, <1>9

\* What is added are natural numbers.
NatValued(F, D) == F \in [D -> Nat]

\* The sum in the order of the definition is the sum in any order.
LEMMA SumInAnyOrder ==
  ASSUME NEW D, IsFiniteSet(D), NEW F, NatValued(F, D), NEW g, IsSum(F, g, D)
  PROVE  /\ g[{}] = 0
         /\ \A s \in SUBSET D : g[s] \in Nat
         /\ \A s \in SUBSET D : \A x \in s : g[s] = F[x] + g[s \ {x}]
<1>0. /\ g[{}] = 0
      /\ \A s \in SUBSET D : s # {} =>
           g[s] = F[Picked(s)] + g[s \ {Picked(s)}]
  BY DEF IsSum
<1>1. \A s \in SUBSET D : g[s] \in Nat
  <2> DEFINE T == {s \in SUBSET D : g[s] \notin Nat}
  <2> SUFFICES ASSUME T # {} PROVE FALSE OBVIOUS
  <2>1. T \subseteq SUBSET D OBVIOUS
  <2> HIDE DEF T
  <2>2. PICK s \in T : \A t \in T : t \subseteq s => t = s BY <2>1, LeastSubset
  <2>3. s \in SUBSET D /\ g[s] \notin Nat BY <2>2 DEF T
  <2>4. s # {}
    <3> SUFFICES ASSUME s = {} PROVE FALSE OBVIOUS
    <3>1. g[s] = 0 BY <1>0
    <3> QED BY <2>3, <3>1
  <2>5. /\ Picked(s) \in s /\ s \ {Picked(s)} \in SUBSET D
        /\ s \ {Picked(s)} \subseteq s /\ s \ {Picked(s)} # s
    BY <2>3, <2>4, PickedFacts
  <2>6. g[s \ {Picked(s)}] \in Nat BY <2>2, <2>5 DEF T
  <2>7. F[Picked(s)] \in Nat BY <2>3, <2>5 DEF NatValued
  <2>8. g[s] = F[Picked(s)] + g[s \ {Picked(s)}] BY <1>0, <2>3, <2>4
  <2> QED BY <2>3, <2>6, <2>7, <2>8
<1>2. \A s \in SUBSET D : \A x \in s : g[s] = F[x] + g[s \ {x}]
  <2> DEFINE T == {s \in SUBSET D : \E x \in s : g[s] # F[x] + g[s \ {x}]}
  <2> SUFFICES ASSUME T # {} PROVE FALSE OBVIOUS
  <2>1. T \subseteq SUBSET D OBVIOUS
  <2> HIDE DEF T
  <2>2. PICK s \in T : \A t \in T : t \subseteq s => t = s BY <2>1, LeastSubset
  <2>3. s \in SUBSET D BY <2>1
  <2>4. PICK x \in s : g[s] # F[x] + g[s \ {x}] BY <2>2 DEF T
  <2> DEFINE c == Picked(s)
  <2>5. c \in s /\ g[s] = F[c] + g[s \ {c}] BY <1>0, <2>3, <2>4, PickedFacts
  <2> HIDE DEF c
  <2>6. x # c BY <2>4, <2>5
  <2>7. /\ s \ {c} \in SUBSET D /\ s \ {c} \notin T /\ x \in s \ {c}
        /\ s \ {x} \in SUBSET D /\ s \ {x} \notin T /\ c \in s \ {x}
    BY <2>2, <2>3, <2>5, <2>6
  <2>8. /\ g[s \ {c}] = F[x] + g[(s \ {c}) \ {x}]
        /\ g[s \ {x}] = F[c] + g[(s \ {x}) \ {c}]
    BY <2>7 DEF T
  <2>9. (s \ {c}) \ {x} = (s \ {x}) \ {c} /\ (s \ {c}) \ {x} \in SUBSET D BY <2>3
  <2>10. F[c] \in Nat /\ F[x] \in Nat /\ g[(s \ {c}) \ {x}] \in Nat
    BY <1>1, <2>3, <2>5, <2>9 DEF NatValued
  <2> DEFINE r == g[(s \ {c}) \ {x}]
  <2>11. g[s] = F[c] + (F[x] + r) BY <2>5, <2>8
  <2>12. g[s \ {x}] = F[c] + r BY <2>8, <2>9
  <2>13. r \in Nat BY <2>10
  <2> HIDE DEF r
  <2> QED BY <2>4, <2>10, <2>11, <2>12, <2>13
<1> QED BY <1>0, <1>1, <1>2

\* What MapThenSumSet makes of a function.
SumOf(F, s) == MapThenSumSet(LAMBDA i : F[i], s)

\* It is the sum of the equation above.
LEMMA SumOfIsSum ==
  ASSUME NEW F, NEW s
  PROVE  SumOf(F, s) = (CHOOSE g : IsSum(F, g, s))[s]
BY Zenon DEF SumOf, MapThenSumSet, MapThenFoldSet, Picked, IsSum

\* The sum of natural numbers over a finite set.
LEMMA SumFacts ==
  ASSUME NEW D, IsFiniteSet(D), NEW F, NatValued(F, D)
  PROVE  /\ SumOf(F, {}) = 0
         /\ \A s \in SUBSET D : SumOf(F, s) \in Nat
         /\ \A s \in SUBSET D : \A x \in s : SumOf(F, s) = F[x] + SumOf(F, s \ {x})
<1>1. PICK g : IsSum(F, g, D) BY SumExists
<1>2. \A s \in SUBSET D : SumOf(F, s) = g[s]
  <2> TAKE s \in SUBSET D
  <2> DEFINE h == CHOOSE k : IsSum(F, k, s)
  <2>1. SumOf(F, s) = h[s] BY SumOfIsSum
  <2>2. IsFiniteSet(s) BY FS_Subset
  <2>3. IsSum(F, h, s) BY <2>2, SumExists
  <2> HIDE DEF h
  <2>4. h[s] = g[s] BY <1>1, <2>2, <2>3, SumUnique
  <2> QED BY <2>1, <2>4
<1>3. /\ g[{}] = 0 /\ {} \in SUBSET D
      /\ \A s \in SUBSET D : g[s] \in Nat
      /\ \A s \in SUBSET D : \A x \in s : g[s] = F[x] + g[s \ {x}] /\ s \ {x} \in SUBSET D
  BY <1>1, SumInAnyOrder
<1> QED BY <1>2, <1>3

-----------------------------------------------------------------------------
(* Interference. *)

\* The power on a channel, of all signals but one.
Power(ch, c, but) == SumOf(PowerOf, {i \in Signals \ {but} : ch[i] = c})

\* That is what the radio measures.
LEMMA InterferenceIsPower ==
  ASSUME NEW s, NEW c, NEW but
  PROVE  SignalInterference(s, c, but) = Power(s.channel, c, but)
BY Zenon DEF SignalInterference, Power, SumOf

Air == [Signals -> Channels \cup {None}]

\* Powers add up: a signal comes to a channel or leaves it, is left out or not.
LEMMA PowerFacts ==
  ASSUME PhyAssumption, NEW ch \in Air, NEW c \in Channels
  PROVE  /\ \A but : Power(ch, c, but) \in Nat
         /\ \A i \in Signals : ch[i] = c => Power(ch, c, None) = PowerOf[i] + Power(ch, c, i)
         /\ \A i \in Signals : \A d, but : ch[i] # c /\ d # c =>
              Power([ch EXCEPT ![i] = d], c, but) = Power(ch, c, but)
         /\ \A i \in Signals : \A but : ch[i] # c /\ i # but =>
              Power([ch EXCEPT ![i] = c], c, but) = Power(ch, c, but) + PowerOf[i]
         /\ \A i \in Signals : \A d, but : ch[i] = c /\ d # c /\ i # but =>
              Power(ch, c, but) = Power([ch EXCEPT ![i] = d], c, but) + PowerOf[i]
<1>0. IsFiniteSet(Signals) /\ NatValued(PowerOf, Signals) /\ None \notin Signals
  BY DEF PhyAssumption, NatValued
<1>1. \A i \in Signals : PowerOf[i] \in Nat BY DEF PhyAssumption
<1>2. /\ \A S \in SUBSET Signals : SumOf(PowerOf, S) \in Nat
      /\ \A S \in SUBSET Signals : \A x \in S :
           SumOf(PowerOf, S) = PowerOf[x] + SumOf(PowerOf, S \ {x})
  BY <1>0, SumFacts
<1>3. \A but : Power(ch, c, but) \in Nat BY <1>2 DEF Power
<1>4. \A i \in Signals : ch[i] = c => Power(ch, c, None) = PowerOf[i] + Power(ch, c, i)
  <2> SUFFICES ASSUME NEW i \in Signals, ch[i] = c
               PROVE  Power(ch, c, None) = PowerOf[i] + Power(ch, c, i)
    OBVIOUS
  <2> DEFINE S == {j \in Signals \ {None} : ch[j] = c}
  <2>1. i \in S /\ S \in SUBSET Signals /\ S \ {i} = {j \in Signals \ {i} : ch[j] = c}
    BY <1>0
  <2> QED BY <1>2, <2>1 DEF Power
<1>5. \A i \in Signals : \A d, but : ch[i] # c /\ d # c =>
        Power([ch EXCEPT ![i] = d], c, but) = Power(ch, c, but)
  <2> SUFFICES ASSUME NEW i \in Signals, NEW d, NEW but, ch[i] # c, d # c
               PROVE  Power([ch EXCEPT ![i] = d], c, but) = Power(ch, c, but)
    OBVIOUS
  <2>1. {j \in Signals \ {but} : [ch EXCEPT ![i] = d][j] = c}
          = {j \in Signals \ {but} : ch[j] = c}
    BY DEF Air
  <2> QED BY <2>1 DEF Power
<1>6. ASSUME NEW a \in Air, NEW b \in Air, NEW i \in Signals, NEW but, i # but,
             b[i] = c, a[i] # c, \A j \in Signals \ {i} : b[j] = a[j]
      PROVE  Power(b, c, but) = Power(a, c, but) + PowerOf[i]
  <2> DEFINE S == {j \in Signals \ {but} : b[j] = c}
  <2>1. i \in S /\ S \in SUBSET Signals BY <1>6
  <2>2. S \ {i} = {j \in Signals \ {but} : a[j] = c} BY <1>6
  <2>3. SumOf(PowerOf, S) = PowerOf[i] + SumOf(PowerOf, S \ {i}) BY <1>2, <2>1
  <2>4. SumOf(PowerOf, S \ {i}) \in Nat BY <1>2, <2>1
  <2>5. Power(b, c, but) = SumOf(PowerOf, S) BY DEF Power
  <2>6. Power(a, c, but) = SumOf(PowerOf, S \ {i}) BY <2>2 DEF Power
  <2> HIDE DEF S
  <2> QED BY <1>1, <2>3, <2>4, <2>5, <2>6
<1>7. \A i \in Signals : \A but : ch[i] # c /\ i # but =>
        Power([ch EXCEPT ![i] = c], c, but) = Power(ch, c, but) + PowerOf[i]
  <2> SUFFICES ASSUME NEW i \in Signals, NEW but, ch[i] # c, i # but
               PROVE  Power([ch EXCEPT ![i] = c], c, but) = Power(ch, c, but) + PowerOf[i]
    OBVIOUS
  <2> DEFINE b == [ch EXCEPT ![i] = c]
  <2>1. b \in Air /\ b[i] = c /\ (\A j \in Signals \ {i} : b[j] = ch[j]) BY DEF Air
  <2> HIDE DEF b
  <2>2. Power(b, c, but) = Power(ch, c, but) + PowerOf[i] BY <1>6, <2>1
  <2> QED BY <2>2 DEF b
<1>8. \A i \in Signals : \A d, but : ch[i] = c /\ d # c /\ i # but =>
        Power(ch, c, but) = Power([ch EXCEPT ![i] = d], c, but) + PowerOf[i]
  <2> SUFFICES ASSUME NEW i \in Signals, NEW d, NEW but, ch[i] = c, d # c, i # but
               PROVE  Power(ch, c, but) = Power([ch EXCEPT ![i] = d], c, but) + PowerOf[i]
    OBVIOUS
  <2> DEFINE S == {j \in Signals \ {but} : ch[j] = c}
  <2>1. i \in S /\ S \in SUBSET Signals OBVIOUS
  <2>2. S \ {i} = {j \in Signals \ {but} : [ch EXCEPT ![i] = d][j] = c} BY DEF Air
  <2>3. SumOf(PowerOf, S) = PowerOf[i] + SumOf(PowerOf, S \ {i}) BY <1>2, <2>1
  <2>4. SumOf(PowerOf, S \ {i}) \in Nat BY <1>2, <2>1
  <2>5. Power(ch, c, but) = SumOf(PowerOf, S) BY DEF Power
  <2>6. Power([ch EXCEPT ![i] = d], c, but) = SumOf(PowerOf, S \ {i}) BY <2>2 DEF Power
  <2> HIDE DEF S
  <2> QED BY <1>1, <2>3, <2>4, <2>5, <2>6
<1> QED BY <1>3, <1>4, <1>5, <1>7, <1>8

\* What the start or the end of a signal does to the air.
Moved(ch, new, i, d) == new = [ch EXCEPT ![i] = d]

\* What happens on another channel does not change the power on this one.
LEMMA OtherChannel ==
  ASSUME PhyAssumption, NEW ch \in Air, NEW c \in Channels, NEW i \in Signals, NEW d,
         ch[i] # c, d # c, NEW new, Moved(ch, new, i, d)
  PROVE  \A but : Power(new, c, but) = Power(ch, c, but)
<1>1. \A j \in Signals : \A e, but : ch[j] # c /\ e # c =>
        Power([ch EXCEPT ![j] = e], c, but) = Power(ch, c, but)
  BY PowerFacts
<1>2. \A but : Power([ch EXCEPT ![i] = d], c, but) = Power(ch, c, but) BY <1>1
<1> QED BY <1>2 DEF Moved

\* A signal that leaves a channel takes its power with it.
LEMMA LeftChannel ==
  ASSUME PhyAssumption, NEW ch \in Air, NEW c \in Channels, NEW i \in Signals, NEW d,
         ch[i] = c, d # c, NEW new, Moved(ch, new, i, d)
  PROVE  \A but : but # i => Power(ch, c, but) = Power(new, c, but) + PowerOf[i]
<1>1. \A j \in Signals : \A e, but : ch[j] = c /\ e # c /\ j # but =>
        Power(ch, c, but) = Power([ch EXCEPT ![j] = e], c, but) + PowerOf[j]
  BY PowerFacts
<1>2. \A but : but # i => Power(ch, c, but) = Power([ch EXCEPT ![i] = d], c, but) + PowerOf[i]
  BY <1>1
<1> QED BY <1>2 DEF Moved

-----------------------------------------------------------------------------
(* The operations of the radio. *)

Failure == {"status", "abort", "end", "transmission end", "error"}
StateData ==
  [phy : Phy, channel : Air, heard : SUBSET Signals, waits : BOOLEAN, alert : BOOLEAN,
   failed : SUBSET Failure]

\* What an operation leaves alone.
SameSignal(r, s) == r.phy.rx = s.phy.rx /\ r.phy.error = s.phy.error
SameTuning(r, s) == r.phy.listening = s.phy.listening /\ r.phy.tx = s.phy.tx
SameWorld(r, s) == r.channel = s.channel /\ r.heard = s.heard /\ r.alert = s.alert

\* The fields of a state.
LEMMA StateFields ==
  ASSUME NEW s \in StateData
  PROVE  /\ s.phy \in Phy /\ s.channel \in Air /\ s.heard \subseteq Signals
         /\ s.waits \in BOOLEAN /\ s.alert \in BOOLEAN /\ s.failed \subseteq Failure
         /\ s.phy.mode \in Modes /\ s.phy.prev \in Modes /\ s.phy.rx \in Signals \cup {None}
         /\ s.phy.error \in BOOLEAN /\ s.phy.interference \in Nat
         /\ s.phy.listening \subseteq Channels /\ s.phy.tx \in Channels
         /\ s.phy.timer \in BOOLEAN
BY DEF StateData, Phy

\* A new mode, the old one remembered.
LEMMA ChangeStateFields ==
  ASSUME NEW s \in StateData, NEW new \in Modes
  PROVE  LET r == ChangeState(s, new) IN
         /\ r \in StateData /\ r.phy.mode = new /\ r.phy.prev = s.phy.mode
         /\ SameSignal(r, s) /\ SameTuning(r, s) /\ SameWorld(r, s)
         /\ r.phy.interference = s.phy.interference /\ r.phy.timer = s.phy.timer
         /\ r.waits = s.waits /\ r.failed = s.failed
BY StateFields DEF ChangeState, StateData, Phy, SameSignal, SameTuning, SameWorld

\* The report: the MAC no longer waits if the radio sent, and the change must be legal.
LEMMA ReportFields ==
  ASSUME NEW s \in StateData
  PROVE  LET r == ReportStatusToMac(s) IN
         /\ r \in StateData /\ r.phy = s.phy /\ SameWorld(r, s)
         /\ r.waits = (s.waits /\ s.phy.prev # "TRANSMITTING")
         /\ <<s.phy.prev, s.phy.mode>> \in LegalChange => r.failed = s.failed
<1> DEFINE new == s.failed \cup
             (IF <<s.phy.prev, s.phy.mode>> \in LegalChange THEN {} ELSE {"status"})
<1> DEFINE w == s.waits /\ s.phy.prev # "TRANSMITTING"
<1>1. new \in SUBSET Failure /\ w \in BOOLEAN BY StateFields DEF Failure
<1>2. <<s.phy.prev, s.phy.mode>> \in LegalChange => new = s.failed OBVIOUS
<1>3. ReportStatusToMac(s) = [s EXCEPT !.failed = new, !.waits = w] BY DEF ReportStatusToMac
<1> HIDE DEF new, w
<1>4. LET r == ReportStatusToMac(s) IN
      r \in StateData /\ r.phy = s.phy /\ SameWorld(r, s) /\ r.waits = w /\ r.failed = new
  BY <1>1, <1>3 DEF StateData, SameWorld
<1> QED BY <1>2, <1>4 DEF w

\* The mode of a medium that is not received from.
LEMMA QuietMode ==
  ASSUME NEW s
  PROVE  /\ Quiet(s) \in {"IDLE", "SENSING"} /\ Quiet(s) \in Modes
         /\ Quiet(s) # "TRANSMITTING" /\ Quiet(s) # "RECEIVING" /\ Quiet(s) # "TRX_OFF"
         /\ \A r : r.phy.interference = s.phy.interference => Quiet(r) = Quiet(s)
BY DEF Quiet, CarrierSensing, Modes

\* Changes of mode that end in such a mode.
LEMMA QuietIsLegal ==
  ASSUME NEW new \in {"IDLE", "SENSING"}
  PROVE  \A old \in Modes : old # new => <<old, new>> \in LegalChange
BY DEF Modes, LegalChange

\* A new mode, reported if it is another.
LEMMA ChangeAndReportFields ==
  ASSUME NEW s \in StateData, NEW new \in {"IDLE", "SENSING"},
         s.phy.mode # "TRANSMITTING"
  PROVE  LET r == ChangeAndReport(s, new) IN
         /\ r \in StateData /\ r.phy.mode = new
         /\ SameSignal(r, s) /\ SameTuning(r, s) /\ SameWorld(r, s)
         /\ r.phy.interference = s.phy.interference /\ r.phy.timer = s.phy.timer
         /\ r.waits = s.waits /\ r.failed = s.failed
<1>1. new \in Modes BY DEF Modes
<1>2. CASE new = s.phy.mode
  BY <1>2 DEF ChangeAndReport, SameSignal, SameTuning, SameWorld
<1>3. CASE new # s.phy.mode
  <2> DEFINE c == ChangeState(s, new)
  <2>1. /\ c \in StateData /\ c.phy.mode = new /\ c.phy.prev = s.phy.mode
        /\ SameSignal(c, s) /\ SameTuning(c, s) /\ SameWorld(c, s)
        /\ c.phy.interference = s.phy.interference /\ c.phy.timer = s.phy.timer
        /\ c.waits = s.waits /\ c.failed = s.failed
    BY <1>1, ChangeStateFields
  <2>2. ChangeAndReport(s, new) = ReportStatusToMac(c) BY <1>3 DEF ChangeAndReport
  <2> HIDE DEF c
  <2> DEFINE r == ReportStatusToMac(c)
  <2>3. <<c.phy.prev, c.phy.mode>> \in LegalChange
    BY <1>3, <2>1, QuietIsLegal, StateFields
  <2>4. /\ r \in StateData /\ r.phy = c.phy /\ SameWorld(r, c)
        /\ r.waits = (c.waits /\ c.phy.prev # "TRANSMITTING") /\ r.failed = c.failed
    BY <2>1, <2>3, ReportFields
  <2>5. c.waits \in BOOLEAN /\ c.phy.prev # "TRANSMITTING" BY <2>1, StateFields
  <2>6. r.waits = c.waits BY <2>4, <2>5
  <2> HIDE DEF r
  <2>7. ChangeAndReport(s, new) = r BY <2>2 DEF r
  <2> QED BY <2>1, <2>4, <2>6, <2>7 DEF SameSignal, SameTuning, SameWorld
<1> QED BY <1>2, <1>3

\* The radio stops listening to a channel; unless it transmits it is off then.
LEMMA StopFields ==
  ASSUME NEW s \in StateData, NEW c
  PROVE  LET r == StopListening(s, c) IN
         /\ r \in StateData
         /\ r.phy.mode = IF s.phy.mode = "TRANSMITTING" THEN s.phy.mode ELSE "TRX_OFF"
         /\ SameSignal(r, s) /\ r.phy.tx = s.phy.tx
         /\ r.phy.listening = s.phy.listening \ {c}
         /\ r.phy.interference = s.phy.interference /\ r.phy.timer = s.phy.timer
         /\ r.channel = s.channel /\ r.waits = s.waits /\ r.alert = s.alert
         /\ r.failed = s.failed
<1> DEFINE t == [s EXCEPT !.phy.listening = @ \ {c},
                          !.heard = {i \in @ : s.channel[i] # c}]
<1>1. /\ t \in StateData /\ t.phy.mode = s.phy.mode /\ SameSignal(t, s) /\ t.phy.tx = s.phy.tx
      /\ t.phy.listening = s.phy.listening \ {c}
      /\ t.phy.interference = s.phy.interference /\ t.phy.timer = s.phy.timer
      /\ t.channel = s.channel /\ t.waits = s.waits /\ t.alert = s.alert /\ t.failed = s.failed
  BY StateFields DEF StateData, Phy, SameSignal
<1>2. StopListening(s, c) = IF s.phy.mode = "TRANSMITTING" THEN t ELSE ChangeState(t, "TRX_OFF")
  BY DEF StopListening
<1> HIDE DEF t
<1>3. "TRX_OFF" \in Modes BY DEF Modes
<1> DEFINE v == ChangeState(t, "TRX_OFF")
<1>4. /\ v \in StateData /\ v.phy.mode = "TRX_OFF"
      /\ SameSignal(v, t) /\ SameTuning(v, t) /\ SameWorld(v, t)
      /\ v.phy.interference = t.phy.interference /\ v.phy.timer = t.phy.timer
      /\ v.waits = t.waits /\ v.failed = t.failed
  BY <1>1, <1>3, ChangeStateFields
<1>5. StopListening(s, c) = IF s.phy.mode = "TRANSMITTING" THEN t ELSE v BY <1>2
<1> HIDE DEF v
<1> QED BY <1>1, <1>4, <1>5 DEF SameSignal, SameTuning, SameWorld

\* It starts listening: a transmission is cut off, what is on the channel is measured.
LEMMA StartFields ==
  ASSUME PhyAssumption, NEW s \in StateData, NEW c \in Channels
  PROVE  LET r == StartListening(s, c) IN
         /\ r \in StateData
         /\ r.phy.mode = Quiet(r) /\ SameSignal(r, s) /\ r.phy.tx = s.phy.tx
         /\ r.phy.listening = s.phy.listening \cup {c}
         /\ r.phy.interference = Power(s.channel, c, None)
         /\ r.phy.timer = (s.phy.timer /\ s.phy.mode # "TRANSMITTING")
         /\ SameWorld(r, s) /\ r.waits = (s.waits /\ s.phy.mode # "TRANSMITTING")
         /\ r.failed = s.failed
<1> DEFINE t == IF s.phy.mode = "TRANSMITTING" THEN TerminateCurrentTransmission(s) ELSE s
<1> DEFINE u == [t EXCEPT !.phy.listening = @ \cup {c},
                          !.phy.interference = SignalInterference(s, c, None)]
<1> DEFINE v == ChangeState(u, Quiet(u))
<1>1. StartListening(s, c) = IF v.phy.prev # v.phy.mode THEN ReportStatusToMac(v) ELSE v
  BY DEF StartListening
<1>2. /\ t \in StateData /\ t.phy.mode = s.phy.mode /\ SameSignal(t, s) /\ SameTuning(t, s)
      /\ t.phy.timer = (s.phy.timer /\ s.phy.mode # "TRANSMITTING")
      /\ SameWorld(t, s) /\ t.waits = s.waits /\ t.failed = s.failed
  BY StateFields
  DEF TerminateCurrentTransmission, StateData, Phy, SameSignal, SameTuning, SameWorld
<1>3. Power(s.channel, c, None) \in Nat BY PowerFacts, StateFields
<1>4. u = [t EXCEPT !.phy.listening = @ \cup {c},
                    !.phy.interference = Power(s.channel, c, None)]
  BY InterferenceIsPower
<1> DEFINE l == t.phy.listening \cup {c}
<1> DEFINE p == Power(s.channel, c, None)
<1>5. l \in SUBSET Channels /\ p \in Nat /\ u = [t EXCEPT !.phy.listening = l, !.phy.interference = p]
  BY <1>2, <1>3, <1>4, StateFields
<1> HIDE DEF t, u, l, p
<1>6. /\ u \in StateData /\ u.phy.mode = t.phy.mode /\ SameSignal(u, t) /\ u.phy.tx = t.phy.tx
      /\ u.phy.listening = l /\ u.phy.timer = t.phy.timer /\ u.phy.interference = p
      /\ SameWorld(u, t) /\ u.waits = t.waits /\ u.failed = t.failed
  BY <1>2, <1>5 DEF StateData, Phy, SameSignal, SameWorld
<1>7. /\ u \in StateData /\ u.phy.mode = t.phy.mode /\ SameSignal(u, t) /\ u.phy.tx = t.phy.tx
      /\ u.phy.listening = t.phy.listening \cup {c} /\ u.phy.timer = t.phy.timer
      /\ u.phy.interference = Power(s.channel, c, None)
      /\ SameWorld(u, t) /\ u.waits = t.waits /\ u.failed = t.failed
  BY <1>6 DEF l, p
<1>8. /\ v \in StateData /\ v.phy.mode = Quiet(u) /\ v.phy.prev = u.phy.mode
      /\ SameSignal(v, u) /\ SameTuning(v, u) /\ SameWorld(v, u)
      /\ v.phy.interference = u.phy.interference /\ v.phy.timer = u.phy.timer
      /\ v.waits = u.waits /\ v.failed = u.failed
  BY <1>7, ChangeStateFields, QuietMode
<1> HIDE DEF v
<1>9. v.phy.mode = Quiet(v) /\ v.phy.mode \in {"IDLE", "SENSING"} BY <1>8, QuietMode
<1> DEFINE r == StartListening(s, c)
<1>10. /\ r \in StateData /\ r.phy = v.phy /\ SameWorld(r, v) /\ r.failed = v.failed
      /\ r.waits = (v.waits /\ v.phy.prev # "TRANSMITTING")
  <2>1. CASE v.phy.prev # v.phy.mode
    <3>1. <<v.phy.prev, v.phy.mode>> \in LegalChange
      BY <1>8, <1>9, <2>1, QuietIsLegal, StateFields
    <3>2. r = ReportStatusToMac(v) BY <1>1, <2>1
    <3> HIDE DEF r
    <3> QED BY <1>8, <3>1, <3>2, ReportFields
  <2>2. CASE v.phy.prev = v.phy.mode
    <3>1. r = v /\ v.phy.prev # "TRANSMITTING" /\ v.waits \in BOOLEAN
      BY <1>1, <1>8, <1>9, <2>2, StateFields
    <3> HIDE DEF r
    <3> QED BY <1>8, <3>1 DEF SameWorld
  <2> QED BY <2>1, <2>2
<1> HIDE DEF r
<1>11. r.phy.mode = Quiet(r) BY <1>9, <1>10, QuietMode
<1>12. r.waits = (s.waits /\ s.phy.mode # "TRANSMITTING") BY <1>2, <1>7, <1>8, <1>10
<1>13. r.phy.timer = (s.phy.timer /\ s.phy.mode # "TRANSMITTING") BY <1>2, <1>7, <1>8, <1>10
<1>14. SameSignal(r, s) /\ r.phy.tx = s.phy.tx /\ r.phy.listening = s.phy.listening \cup {c}
  BY <1>2, <1>7, <1>8, <1>10 DEF SameSignal, SameTuning
<1>15. SameWorld(r, s) /\ r.failed = s.failed /\ r.phy.interference = Power(s.channel, c, None)
  BY <1>2, <1>7, <1>8, <1>10 DEF SameWorld
<1> QED BY <1>10, <1>11, <1>12, <1>13, <1>14, <1>15 DEF r

\* Interference stays a natural number when a signal is added to it.
LEMMA PowerAdded ==
  ASSUME PhyAssumption, NEW s \in StateData, NEW i \in Signals
  PROVE  s.phy.interference + PowerOf[i] \in Nat
<1>1. s.phy.interference \in Nat BY StateFields
<1>2. PowerOf[i] \in Nat BY DEF PhyAssumption
<1> QED BY <1>1, <1>2

\* The frame that is received is given up, and becomes interference.
LEMMA TerminateReceiveFields ==
  ASSUME PhyAssumption, NEW s \in StateData, s.phy.rx \in Signals
  PROVE  LET r == TerminateCurrentReceive(s) IN
         /\ r \in StateData /\ r.phy.mode = Quiet(r) /\ r.phy.mode \in {"IDLE", "SENSING"}
         /\ r.phy.interference = s.phy.interference + PowerOf[s.phy.rx]
         /\ SameTuning(r, s) /\ SameWorld(r, s) /\ r.phy.timer = s.phy.timer
         /\ r.waits = s.waits /\ r.failed = s.failed
<1> DEFINE p == s.phy.interference + PowerOf[s.phy.rx]
<1> DEFINE t == UnlockSignal([s EXCEPT !.phy.interference = p])
<1> DEFINE r == ChangeState(t, Quiet(t))
<1>1. r = TerminateCurrentReceive(s) BY DEF TerminateCurrentReceive
<1>2. p \in Nat BY PowerAdded
<1> HIDE DEF p
<1>3. /\ t \in StateData /\ SameTuning(t, s) /\ SameWorld(t, s) /\ t.phy.timer = s.phy.timer
      /\ t.phy.interference = p /\ t.waits = s.waits /\ t.failed = s.failed
  BY <1>2, StateFields DEF UnlockSignal, StateData, Phy, SameTuning, SameWorld
<1> HIDE DEF t
<1>4. /\ r \in StateData /\ r.phy.mode = Quiet(t) /\ SameTuning(r, t) /\ SameWorld(r, t)
      /\ r.phy.interference = t.phy.interference /\ r.phy.timer = t.phy.timer
      /\ r.waits = t.waits /\ r.failed = t.failed
  BY <1>3, ChangeStateFields, QuietMode
<1> HIDE DEF r
<1>5. r.phy.mode = Quiet(r) /\ r.phy.mode \in {"IDLE", "SENSING"} BY <1>4, QuietMode
<1>6. r.phy.interference = s.phy.interference + PowerOf[s.phy.rx] BY <1>3, <1>4 DEF p
<1> QED BY <1>1, <1>3, <1>4, <1>5, <1>6 DEF SameTuning, SameWorld

\* A frame is sent: the radio does not listen to its own channel meanwhile.
LEMMA TransmitFields ==
  ASSUME PhyAssumption, NEW s \in StateData, s.phy.mode = "RECEIVING" => s.phy.rx \in Signals
  PROVE  LET r == StartTransmittingSignal(s) IN
         /\ r \in StateData /\ r.phy.mode = "TRANSMITTING" /\ r.phy.timer /\ r.waits
         /\ r.phy.tx = s.phy.tx /\ r.phy.listening = s.phy.listening \ {s.phy.tx}
         /\ r.channel = s.channel /\ r.alert = s.alert /\ r.failed = s.failed
<1> DEFINE p == s.phy.interference + PowerOf[s.phy.rx]
<1> DEFINE t == IF s.phy.mode # "RECEIVING" THEN s
                ELSE UnlockSignal([s EXCEPT !.phy.interference = p])
<1> DEFINE v == ChangeState(t, "TRANSMITTING")
<1> DEFINE u == [v EXCEPT !.phy.timer = TRUE, !.waits = TRUE]
<1> DEFINE x == StopListening(u, s.phy.tx)
<1> DEFINE r == StartTransmittingSignal(s)
<1>1. r = IF s.phy.tx \in s.phy.listening THEN x ELSE u BY DEF StartTransmittingSignal
<1>2. /\ t \in StateData /\ SameTuning(t, s) /\ SameWorld(t, s) /\ t.failed = s.failed
  <2>1. CASE s.phy.mode # "RECEIVING" BY <2>1 DEF SameTuning, SameWorld
  <2>2. CASE s.phy.mode = "RECEIVING"
    <3>1. p \in Nat BY <2>2, PowerAdded
    <3> HIDE DEF p
    <3>2. t = UnlockSignal([s EXCEPT !.phy.interference = p]) BY <2>2
    <3> HIDE DEF t
    <3> QED BY <3>1, <3>2, StateFields DEF UnlockSignal, StateData, Phy, SameTuning, SameWorld
  <2> QED BY <2>1, <2>2
<1> HIDE DEF t
<1>3. /\ v \in StateData /\ v.phy.mode = "TRANSMITTING" /\ SameTuning(v, t) /\ SameWorld(v, t)
      /\ v.failed = t.failed
  <2>1. "TRANSMITTING" \in Modes BY DEF Modes
  <2> QED BY <1>2, <2>1, ChangeStateFields
<1> HIDE DEF v
<1>4. /\ u \in StateData /\ u.phy.mode = "TRANSMITTING" /\ u.phy.timer = TRUE /\ u.waits = TRUE
      /\ SameTuning(u, v) /\ SameWorld(u, v) /\ u.failed = v.failed
  BY <1>3, StateFields DEF StateData, Phy, SameTuning, SameWorld
<1> HIDE DEF u
<1>5. /\ x \in StateData /\ x.phy.mode = u.phy.mode /\ x.phy.tx = u.phy.tx
      /\ x.phy.listening = u.phy.listening \ {s.phy.tx} /\ x.phy.timer = u.phy.timer
      /\ x.channel = u.channel /\ x.waits = u.waits /\ x.alert = u.alert
      /\ x.failed = u.failed
  BY <1>4, StopFields
<1> HIDE DEF x, r
<1>6. /\ u.phy.tx = s.phy.tx /\ u.phy.listening = s.phy.listening
      /\ u.channel = s.channel /\ u.alert = s.alert /\ u.failed = s.failed
  BY <1>2, <1>3, <1>4 DEF SameTuning, SameWorld
<1>7. CASE s.phy.tx \in s.phy.listening
  <2>1. r = x BY <1>1, <1>7
  <2> QED BY <1>4, <1>5, <1>6, <2>1 DEF r
<1>8. CASE s.phy.tx \notin s.phy.listening
  <2>1. r = u BY <1>1, <1>8
  <2>2. s.phy.listening = s.phy.listening \ {s.phy.tx} BY <1>8
  <2> QED BY <1>4, <1>6, <2>1, <2>2 DEF r
<1> QED BY <1>7, <1>8

-----------------------------------------------------------------------------
(* What the operations keep. *)

\* The radio receives a signal, the mode is that of the medium, and the MAC waits for
\* the end of a transmission that will come.
Good(s) ==
  /\ s \in StateData
  /\ s.phy.mode = "RECEIVING" => s.phy.rx \in Signals
  /\ s.phy.mode \in {"IDLE", "SENSING"} => s.phy.mode = Quiet(s)
  /\ s.waits => s.phy.mode = "TRANSMITTING" /\ s.phy.timer

\* Under ASDCS: the radio listens to c and to nothing else unless it transmits, what it
\* receives is on c and was heard from the start, and the interference is complete.
Tuned(s, c) ==
  /\ s.phy.mode # "TRX_OFF" /\ s.failed = {} /\ s.alert = FALSE
  /\ s.phy.timer => s.phy.mode = "TRANSMITTING"
  /\ s.phy.listening = IF s.phy.mode = "TRANSMITTING" THEN {} ELSE {c}
  /\ s.phy.mode = "RECEIVING" => s.phy.rx \in s.heard /\ s.channel[s.phy.rx] = c
  /\ s.phy.mode # "TRANSMITTING" =>
       s.phy.interference
         = Power(s.channel, c, IF s.phy.mode = "RECEIVING" THEN s.phy.rx ELSE None)

\* A radio that starts to listen is in order; if it listened to nothing, its books are
\* those of its new channel.
LEMMA StartKeeps ==
  ASSUME PhyAssumption, NEW s \in StateData, NEW c \in Channels,
         s.waits => s.phy.mode = "TRANSMITTING"
  PROVE  LET r == StartListening(s, c) IN
         /\ Good(r) /\ r.phy.tx = s.phy.tx /\ r.alert = s.alert /\ r.channel = s.channel
         /\ r.phy.mode # "TRANSMITTING" /\ r.phy.listening = s.phy.listening \cup {c}
         /\ /\ s.failed = {} /\ s.alert = FALSE /\ s.phy.listening = {}
            /\ s.phy.timer => s.phy.mode = "TRANSMITTING"
            => Tuned(r, c)
<1> DEFINE r == StartListening(s, c)
<1>1. /\ r \in StateData
      /\ r.phy.mode = Quiet(r) /\ SameSignal(r, s) /\ r.phy.tx = s.phy.tx
      /\ r.phy.listening = s.phy.listening \cup {c}
      /\ r.phy.interference = Power(s.channel, c, None)
      /\ r.phy.timer = (s.phy.timer /\ s.phy.mode # "TRANSMITTING")
      /\ SameWorld(r, s) /\ r.waits = (s.waits /\ s.phy.mode # "TRANSMITTING")
      /\ r.failed = s.failed
  BY StartFields
<1> HIDE DEF r
<1>2. r.phy.mode # "TRANSMITTING" /\ r.phy.mode # "RECEIVING" /\ r.phy.mode # "TRX_OFF"
  BY <1>1, QuietMode
<1>3. ~r.waits BY <1>1
<1>4. Good(r) BY <1>1, <1>2, <1>3 DEF Good
<1>5. ASSUME s.failed = {}, s.alert = FALSE, s.phy.listening = {},
             s.phy.timer => s.phy.mode = "TRANSMITTING"
      PROVE  Tuned(r, c)
  <2>1. ~r.phy.timer BY <1>1, <1>5
  <2>2. r.phy.listening = {c} /\ r.failed = {} /\ r.alert = FALSE
    BY <1>1, <1>5 DEF SameWorld
  <2>3. r.phy.interference = Power(r.channel, c, None) BY <1>1 DEF SameWorld
  <2> QED BY <1>2, <2>1, <2>2, <2>3 DEF Tuned
<1>6. /\ r.phy.tx = s.phy.tx /\ r.alert = s.alert /\ r.channel = s.channel
      /\ r.phy.listening = s.phy.listening \cup {c}
  BY <1>1 DEF SameWorld
<1> QED BY <1>2, <1>4, <1>5, <1>6 DEF r

\* The channel to transmit on does not matter to the mode, or to a listener.
LEMMA SetChannel ==
  ASSUME NEW s, Good(s), NEW c \in Channels
  PROVE  LET r == [s EXCEPT !.phy.tx = c] IN
         /\ Good(r) /\ r.phy.tx = c /\ r.channel = s.channel
         /\ \A d : Tuned(s, d) => Tuned(r, d)
<1> DEFINE r == [s EXCEPT !.phy.tx = c]
<1>0. s \in StateData BY DEF Good
<1>1. /\ r \in StateData /\ r.phy.tx = c /\ r.phy.mode = s.phy.mode /\ SameSignal(r, s)
      /\ r.phy.listening = s.phy.listening /\ r.phy.timer = s.phy.timer
      /\ r.phy.interference = s.phy.interference /\ SameWorld(r, s)
      /\ r.waits = s.waits /\ r.failed = s.failed
  BY <1>0 DEF StateData, Phy, SameSignal, SameWorld
<1> HIDE DEF r
<1>2. Quiet(r) = Quiet(s) BY <1>1, QuietMode
<1>3. Good(r) BY <1>1, <1>2 DEF Good, SameSignal
<1>4. \A d : Tuned(s, d) => Tuned(r, d) BY <1>1 DEF Tuned, SameSignal, SameWorld
<1> QED BY <1>1, <1>3, <1>4 DEF r, SameWorld

\* A change of channel keeps the radio in order, and tunes it.
LEMMA ChangeKeeps ==
  ASSUME PhyAssumption, NEW s, Good(s), NEW c \in Channels
  PROVE  LET r == ChangeToChannel(s, c) IN
         /\ Good(r) /\ r.phy.tx = c /\ r.channel = s.channel
         /\ Tuned(s, s.phy.tx) /\ c # s.phy.tx => Tuned(r, c)
<1> DEFINE t == IF s.phy.tx \in s.phy.listening THEN StopListening(s, s.phy.tx) ELSE s
<1> DEFINE x == StartListening(t, c)
<1> DEFINE u == IF c \in t.phy.listening THEN t ELSE x
<1>0. s \in StateData /\ ChangeToChannel(s, c) = [u EXCEPT !.phy.tx = c]
  BY DEF Good, ChangeToChannel
<1>1. /\ t \in StateData /\ t.phy.listening = s.phy.listening \ {s.phy.tx}
      /\ t.phy.mode \in {s.phy.mode, "TRX_OFF"}
      /\ s.phy.mode = "TRANSMITTING" => t.phy.mode = "TRANSMITTING"
      /\ t.phy.rx = s.phy.rx /\ t.phy.interference = s.phy.interference
      /\ t.phy.timer = s.phy.timer /\ t.channel = s.channel /\ t.waits = s.waits
      /\ t.alert = s.alert /\ t.failed = s.failed
  <2>1. CASE s.phy.tx \in s.phy.listening
    <3>1. t = StopListening(s, s.phy.tx) BY <2>1
    <3> HIDE DEF t
    <3> QED BY <1>0, <3>1, StopFields DEF SameSignal
  <2>2. CASE s.phy.tx \notin s.phy.listening
    <3>1. t = s /\ s.phy.listening = s.phy.listening \ {s.phy.tx} BY <2>2
    <3> HIDE DEF t
    <3> QED BY <1>0, <3>1
  <2> QED BY <2>1, <2>2
<1> HIDE DEF t
<1>2. t.waits => t.phy.mode = "TRANSMITTING" /\ t.phy.timer BY <1>1 DEF Good
<1>3. Good(t)
  <2>1. Quiet(t) = Quiet(s) BY <1>1, QuietMode
  <2> QED BY <1>1, <1>2, <2>1 DEF Good
<1>4. /\ Good(x) /\ x.channel = t.channel
      /\ /\ t.failed = {} /\ t.alert = FALSE /\ t.phy.listening = {}
         /\ t.phy.timer => t.phy.mode = "TRANSMITTING"
         => Tuned(x, c)
  BY <1>1, <1>2, StartKeeps
<1> HIDE DEF x
<1>5. Good(u) /\ u.channel = s.channel BY <1>1, <1>3, <1>4
<1>6. ASSUME Tuned(s, s.phy.tx), c # s.phy.tx PROVE Tuned(u, c)
  <2>1. t.phy.listening = {} /\ t.failed = {} /\ t.alert = FALSE BY <1>1, <1>6 DEF Tuned
  <2>2. t.phy.timer => t.phy.mode = "TRANSMITTING" BY <1>1, <1>6 DEF Tuned
  <2>3. u = x BY <2>1
  <2> QED BY <1>4, <2>1, <2>2, <2>3
<1> HIDE DEF u
<1> QED BY <1>0, <1>5, <1>6, SetChannel

\* A frame with an error keeps everything else.
LEMMA CheckKeeps ==
  ASSUME NEW s, Good(s), NEW r \in CheckRxPacketError(s)
  PROVE  /\ Good(r) /\ r.phy.mode = s.phy.mode /\ r.phy.rx = s.phy.rx
         /\ SameTuning(r, s) /\ SameWorld(r, s) /\ r.phy.timer = s.phy.timer
         /\ r.phy.interference = s.phy.interference
         /\ r.waits = s.waits /\ r.failed = s.failed
         /\ \A c : Tuned(s, c) => Tuned(r, c)
<1>1. r \in {s, [s EXCEPT !.phy.error = TRUE]} BY DEF CheckRxPacketError
<1>2. s \in StateData BY DEF Good
<1>3. /\ r \in StateData /\ r.phy.mode = s.phy.mode /\ r.phy.rx = s.phy.rx
      /\ SameTuning(r, s) /\ SameWorld(r, s) /\ r.phy.timer = s.phy.timer
      /\ r.phy.interference = s.phy.interference /\ r.waits = s.waits /\ r.failed = s.failed
  <2>1. CASE r = s BY <1>2, <2>1 DEF SameTuning, SameWorld
  <2>2. CASE r = [s EXCEPT !.phy.error = TRUE]
    BY <1>2, <2>2 DEF StateData, Phy, SameTuning, SameWorld
  <2> QED BY <1>1, <2>1, <2>2
<1>4. Quiet(r) = Quiet(s) BY <1>3, QuietMode
<1>5. Good(r) BY <1>3, <1>4 DEF Good
<1>6. \A c : Tuned(s, c) => Tuned(r, c) BY <1>3 DEF Tuned, SameTuning, SameWorld
<1> QED BY <1>3, <1>5, <1>6

\* A signal is on the air.
AfterStart(s, t, i, c) == t = [s EXCEPT !.channel[i] = c, !.heard = @ \cup {i}]

\* A signal starts where the radio listens.  A second channel it listens to while it
\* transmits cuts the transmission off.
LEMMA ArrivedKeeps ==
  ASSUME PhyAssumption, NEW s, Good(s), NEW i \in Signals, NEW c \in Channels,
         c \in s.phy.listening,
         NEW t, AfterStart(s, t, i, c),
         NEW r \in Arrived(t, i)
  PROVE  /\ Good(r)
         /\ r.phy.tx = s.phy.tx /\ r.channel = [s.channel EXCEPT ![i] = c]
         /\ s.channel[i] = None /\ Tuned(s, s.phy.tx) => Tuned(r, s.phy.tx)
<1> DEFINE m == IF t.phy.mode = "TRANSMITTING"
                THEN ReportStatusToMac(ChangeState(TerminateCurrentTransmission(t), "IDLE"))
                ELSE t
<1> DEFINE loud == [m EXCEPT !.phy.interference = @ + PowerOf[i]]
<1> DEFINE lock == [m EXCEPT !.phy.interference = SignalInterference(m, m.channel[i], i)]
<1>1. r \in CASE m.phy.mode = "TRX_OFF" -> {[m EXCEPT !.failed = @ \cup {"abort"}]}
              [] m.phy.mode = "RECEIVING" ->
                    {[x EXCEPT !.phy.interference = @ + PowerOf[i]] : x \in
                        IF m.phy.error THEN {m} ELSE CheckRxPacketError(m)}
              [] m.phy.mode \in {"IDLE", "SENSING"} /\ PowerOf[i] >= Sensitivity ->
                    {ReportStatusToMac(ChangeState(LockSignal(lock, i), "RECEIVING"))}
              [] OTHER -> {ChangeAndReport(loud, Quiet(loud))}
  BY DEF Arrived
<1>2. s \in StateData /\ PowerOf[i] \in Nat /\ c # None BY DEF Good, PhyAssumption
<1>3. /\ t \in StateData /\ t.phy = s.phy /\ t.waits = s.waits /\ t.failed = s.failed
      /\ t.alert = s.alert /\ t.channel = [s.channel EXCEPT ![i] = c]
      /\ t.heard = s.heard \cup {i} /\ t.channel[i] = c
  BY <1>2, StateFields DEF AfterStart, StateData, Air
<1>4. /\ m \in StateData /\ m.phy.mode # "TRANSMITTING" /\ ~m.waits
      /\ m.phy.mode = "RECEIVING" => m.phy.rx \in Signals
      /\ m.phy.tx = s.phy.tx /\ m.channel = t.channel
      /\ s.phy.mode # "TRANSMITTING" => m = t
  <2>1. CASE s.phy.mode # "TRANSMITTING" BY <1>3, <2>1 DEF Good
  <2>2. CASE s.phy.mode = "TRANSMITTING"
    <3> DEFINE e == TerminateCurrentTransmission(t)
    <3> DEFINE v == ChangeState(e, "IDLE")
    <3>1. m = ReportStatusToMac(v) BY <1>3, <2>2
    <3>2. /\ e \in StateData /\ e.phy.mode = "TRANSMITTING" /\ e.phy.tx = s.phy.tx
          /\ e.channel = t.channel
      BY <1>3, <2>2 DEF TerminateCurrentTransmission, StateData, Phy
    <3> HIDE DEF e
    <3>3. /\ v \in StateData /\ v.phy.mode = "IDLE" /\ v.phy.prev = "TRANSMITTING"
          /\ SameTuning(v, e) /\ SameWorld(v, e)
      <4>1. "IDLE" \in Modes BY DEF Modes
      <4> QED BY <3>2, <4>1, ChangeStateFields
    <3> HIDE DEF v
    <3>4. /\ m \in StateData /\ m.phy = v.phy /\ SameWorld(m, v)
          /\ m.waits = (v.waits /\ v.phy.prev # "TRANSMITTING")
      BY <3>1, <3>3, ReportFields
    <3> HIDE DEF m
    <3> QED BY <2>2, <3>2, <3>3, <3>4 DEF SameTuning, SameWorld
  <2> QED BY <2>1, <2>2
<1>5. m.phy.interference \in Nat /\ m.phy.interference + PowerOf[i] \in Nat
  BY <1>4, StateFields, PowerAdded
<1>6. s.channel \in Air /\ \A but : Power(t.channel, c, but) \in Nat
  BY <1>2, <1>3, StateFields, PowerFacts
\* What the Tuned radio knows.
<1>7. ASSUME s.channel[i] = None, Tuned(s, s.phy.tx)
      PROVE  /\ m = t /\ s.phy.tx = c /\ m.phy = s.phy
             /\ m.phy.mode # "TRX_OFF" /\ m.failed = {} /\ m.alert = FALSE /\ ~m.phy.timer
             /\ m.phy.listening = {c}
             /\ m.phy.mode = "RECEIVING" =>
                  /\ m.phy.rx # i /\ m.phy.rx \in m.heard /\ m.channel[m.phy.rx] = c
                  /\ m.phy.interference + PowerOf[i] = Power(m.channel, c, m.phy.rx)
             /\ m.phy.mode # "RECEIVING" =>
                  m.phy.interference + PowerOf[i] = Power(m.channel, c, None)
  <2>1. s.phy.mode # "TRANSMITTING" /\ s.phy.listening = {s.phy.tx} BY <1>7 DEF Tuned
  <2>2. m = t /\ s.phy.tx = c /\ m.phy = s.phy BY <1>3, <1>4, <2>1
  <2>3. /\ m.phy.mode # "TRX_OFF" /\ m.failed = {} /\ m.alert = FALSE /\ ~m.phy.timer
        /\ m.phy.listening = {c}
    BY <1>3, <1>7, <2>1, <2>2 DEF Tuned
  <2>4. \A but : i # but =>
          Power(t.channel, c, but) = Power(s.channel, c, but) + PowerOf[i]
    BY <1>2, <1>3, <1>6, <1>7, PowerFacts
  <2>5. ASSUME s.phy.mode = "RECEIVING"
        PROVE  /\ m.phy.rx # i /\ m.phy.rx \in m.heard /\ m.channel[m.phy.rx] = c
               /\ m.phy.interference + PowerOf[i] = Power(m.channel, c, m.phy.rx)
    <3>1. s.phy.rx \in s.heard /\ s.channel[s.phy.rx] = c
          /\ s.phy.interference = Power(s.channel, c, s.phy.rx)
      BY <1>7, <2>2, <2>5 DEF Tuned
    <3>2. s.phy.rx # i BY <1>2, <1>7, <3>1
    <3>3. s.phy.rx \in Signals BY <2>5 DEF Good
    <3>4. t.channel[s.phy.rx] = c BY <1>3, <1>6, <3>1, <3>2, <3>3 DEF Air
    <3>5. Power(t.channel, c, s.phy.rx) = s.phy.interference + PowerOf[i]
      BY <2>4, <3>1, <3>2
    <3>6. s.phy.rx \in t.heard BY <1>3, <3>1
    <3> HIDE DEF Air
    <3> QED BY <2>2, <3>2, <3>4, <3>5, <3>6
  <2>6. ASSUME s.phy.mode # "RECEIVING"
        PROVE  m.phy.interference + PowerOf[i] = Power(m.channel, c, None)
    <3>1. s.phy.interference = Power(s.channel, c, None) BY <1>7, <2>1, <2>2, <2>6 DEF Tuned
    <3>2. i # None BY DEF PhyAssumption
    <3> QED BY <2>2, <2>4, <3>1, <3>2
  <2> QED BY <2>2, <2>3, <2>5, <2>6
<1> HIDE DEF m
<1>8. CASE m.phy.mode = "TRX_OFF"
  <2>1. r = [m EXCEPT !.failed = @ \cup {"abort"}] BY <1>1, <1>8
  <2>2. /\ r \in StateData /\ r.phy = m.phy /\ r.waits = m.waits /\ r.channel = m.channel
    BY <1>4, <2>1 DEF StateData, Failure
  <2>3. Good(r) BY <1>4, <1>8, <2>2 DEF Good
  <2> QED BY <1>3, <1>4, <1>7, <1>8, <2>2, <2>3
<1>9. CASE m.phy.mode = "RECEIVING"
  <2>1. PICK x \in {m} \cup CheckRxPacketError(m) :
               r = [x EXCEPT !.phy.interference = @ + PowerOf[i]]
    BY <1>1, <1>9
  <2>2. Good(m) BY <1>4, <1>9 DEF Good
  <2>3. /\ Good(x) /\ x.phy.mode = m.phy.mode /\ x.phy.rx = m.phy.rx
        /\ SameTuning(x, m) /\ SameWorld(x, m) /\ x.phy.timer = m.phy.timer
        /\ x.phy.interference = m.phy.interference /\ x.waits = m.waits /\ x.failed = m.failed
    BY <2>1, <2>2, CheckKeeps DEF SameTuning, SameWorld
  <2> DEFINE p == m.phy.interference + PowerOf[i]
  <2>4. r = [x EXCEPT !.phy.interference = p] /\ p \in Nat /\ x \in StateData
    BY <1>5, <2>1, <2>3 DEF Good
  <2> HIDE DEF p
  <2>5. /\ r \in StateData /\ r.phy.mode = x.phy.mode /\ r.phy.rx = x.phy.rx
        /\ SameTuning(r, x) /\ SameWorld(r, x) /\ r.phy.timer = x.phy.timer
        /\ r.phy.interference = p /\ r.waits = x.waits /\ r.failed = x.failed
    BY <2>4 DEF StateData, Phy, SameTuning, SameWorld
  <2>6. /\ r.phy.mode = "RECEIVING" /\ r.phy.rx = m.phy.rx /\ r.phy.timer = m.phy.timer
        /\ r.phy.listening = m.phy.listening /\ r.phy.tx = m.phy.tx
        /\ r.channel = m.channel /\ r.heard = m.heard /\ r.alert = m.alert
        /\ r.waits = m.waits /\ r.failed = m.failed
    BY <1>9, <2>3, <2>5 DEF SameTuning, SameWorld
  <2>7. Good(r) BY <1>4, <1>9, <2>5, <2>6 DEF Good
  <2>8. ASSUME s.channel[i] = None, Tuned(s, s.phy.tx) PROVE Tuned(r, c)
    <3>1. p = Power(m.channel, c, m.phy.rx) BY <1>7, <1>9, <2>8 DEF p
    <3>2. /\ r.phy.mode # "TRX_OFF" /\ r.phy.mode # "TRANSMITTING"
          /\ r.failed = {} /\ r.alert = FALSE /\ ~r.phy.timer /\ r.phy.listening = {c}
      BY <1>7, <2>6, <2>8
    <3>3. r.phy.rx \in r.heard /\ r.channel[r.phy.rx] = c
      BY <1>7, <1>9, <2>6, <2>8
    <3>4. r.phy.interference = Power(r.channel, c, r.phy.rx) BY <2>5, <2>6, <3>1
    <3> QED BY <2>6, <3>2, <3>3, <3>4 DEF Tuned
  <2> QED BY <1>3, <1>4, <1>7, <2>6, <2>7, <2>8
<1>10. CASE m.phy.mode \in {"IDLE", "SENSING"} /\ PowerOf[i] >= Sensitivity
  <2> DEFINE p == Power(t.channel, c, i)
  <2> DEFINE l == LockSignal(lock, i)
  <2> DEFINE v == ChangeState(l, "RECEIVING")
  <2>1. r = ReportStatusToMac(v) BY <1>1, <1>10
  <2>2. lock = [m EXCEPT !.phy.interference = p] /\ p \in Nat
    BY <1>3, <1>4, <1>6, InterferenceIsPower
  <2> HIDE DEF lock, p
  <2>3. /\ l \in StateData /\ l.phy.mode = m.phy.mode /\ l.phy.rx = i
        /\ SameTuning(l, m) /\ SameWorld(l, m) /\ l.phy.timer = m.phy.timer
        /\ l.phy.interference = p /\ l.waits = m.waits /\ l.failed = m.failed
    BY <1>4, <2>2 DEF LockSignal, StateData, Phy, SameTuning, SameWorld
  <2> HIDE DEF l
  <2>4. /\ v \in StateData /\ v.phy.mode = "RECEIVING" /\ v.phy.prev = l.phy.mode
        /\ SameSignal(v, l) /\ SameTuning(v, l) /\ SameWorld(v, l)
        /\ v.phy.interference = l.phy.interference /\ v.phy.timer = l.phy.timer
        /\ v.waits = l.waits /\ v.failed = l.failed
    <3>1. "RECEIVING" \in Modes BY DEF Modes
    <3> QED BY <2>3, <3>1, ChangeStateFields
  <2> HIDE DEF v
  <2>5. <<v.phy.prev, v.phy.mode>> \in LegalChange BY <1>10, <2>3, <2>4 DEF LegalChange
  <2>6. /\ r \in StateData /\ r.phy = v.phy /\ SameWorld(r, v) /\ r.failed = v.failed
        /\ r.waits = (v.waits /\ v.phy.prev # "TRANSMITTING")
    BY <2>1, <2>4, <2>5, ReportFields
  <2>7. ~r.waits BY <1>4, <2>3, <2>4, <2>6
  <2>8. /\ r.phy.mode = "RECEIVING" /\ r.phy.rx = i /\ r.phy.timer = m.phy.timer
        /\ r.phy.listening = m.phy.listening /\ r.phy.tx = m.phy.tx
        /\ r.phy.interference = p
        /\ r.channel = m.channel /\ r.heard = m.heard /\ r.alert = m.alert
        /\ r.failed = m.failed
    BY <2>3, <2>4, <2>6 DEF SameSignal, SameTuning, SameWorld
  <2>9. Good(r) BY <2>6, <2>7, <2>8 DEF Good
  <2>10. ASSUME s.channel[i] = None, Tuned(s, s.phy.tx) PROVE Tuned(r, c)
    <3>1. i \in m.heard /\ m.channel[i] = c /\ p = Power(m.channel, c, i)
      BY <1>3, <1>7, <2>10 DEF p
    <3> QED BY <1>7, <2>8, <2>10, <3>1 DEF Tuned
  <2> QED BY <1>3, <1>4, <1>7, <2>8, <2>9, <2>10
<1>11. CASE m.phy.mode \in {"IDLE", "SENSING"} /\ ~(PowerOf[i] >= Sensitivity)
  <2> DEFINE p == m.phy.interference + PowerOf[i]
  <2>1. r = ChangeAndReport(loud, Quiet(loud)) BY <1>1, <1>11
  <2>2. p \in Nat /\ loud = [m EXCEPT !.phy.interference = p] BY <1>5
  <2> HIDE DEF p, loud
  <2>3. /\ loud \in StateData /\ loud.phy.mode = m.phy.mode
        /\ SameTuning(loud, m) /\ SameWorld(loud, m) /\ loud.phy.timer = m.phy.timer
        /\ loud.phy.interference = p /\ loud.waits = m.waits /\ loud.failed = m.failed
    BY <1>4, <2>2 DEF StateData, Phy, SameTuning, SameWorld
  <2>4. /\ r \in StateData /\ r.phy.mode = Quiet(loud)
        /\ SameTuning(r, loud) /\ SameWorld(r, loud)
        /\ r.phy.interference = loud.phy.interference /\ r.phy.timer = loud.phy.timer
        /\ r.waits = loud.waits /\ r.failed = loud.failed
    BY <1>4, <2>1, <2>3, QuietMode, ChangeAndReportFields
  <2>5. /\ r.phy.mode = Quiet(r) /\ r.phy.mode # "RECEIVING" /\ r.phy.mode # "TRX_OFF"
        /\ r.phy.mode # "TRANSMITTING"
    BY <2>4, QuietMode
  <2>6. /\ r.phy.timer = m.phy.timer /\ r.phy.interference = p
        /\ r.phy.listening = m.phy.listening /\ r.phy.tx = m.phy.tx
        /\ r.channel = m.channel /\ r.alert = m.alert /\ r.failed = m.failed
        /\ r.waits = m.waits
    BY <2>3, <2>4 DEF SameTuning, SameWorld
  <2>7. Good(r) BY <1>4, <2>4, <2>5, <2>6 DEF Good
  <2>8. ASSUME s.channel[i] = None, Tuned(s, s.phy.tx) PROVE Tuned(r, c)
    <3>1. p = Power(m.channel, c, None) BY <1>7, <1>11, <2>8 DEF p
    <3> QED BY <1>7, <2>5, <2>6, <2>8, <3>1 DEF Tuned
  <2> QED BY <1>3, <1>4, <1>7, <2>6, <2>7, <2>8
<1>12. m.phy.mode \in {"TRX_OFF", "RECEIVING", "IDLE", "SENSING"}
  BY <1>4, StateFields DEF Modes
<1> QED BY <1>8, <1>9, <1>10, <1>11, <1>12

\* A signal is off the air.
AfterEnd(s, t, i) == t = [s EXCEPT !.channel[i] = None, !.heard = @ \ {i}]

\* A signal ends where the radio listens: the frame it received, or interference.
LEMMA EndedKeeps ==
  ASSUME PhyAssumption, NEW s, Good(s), NEW i \in Signals, NEW c \in Channels,
         c \in s.phy.listening, s.channel[i] = c,
         NEW t, AfterEnd(s, t, i),
         NEW r \in Ended(t, i, c)
  PROVE  /\ Good(r)
         /\ r.phy.tx = s.phy.tx /\ r.channel = [s.channel EXCEPT ![i] = None]
         /\ Tuned(s, s.phy.tx) => Tuned(r, s.phy.tx)
<1>1. s \in StateData /\ PowerOf[i] \in Nat /\ c # None /\ i # None
  BY DEF Good, PhyAssumption
<1>2. /\ t \in StateData /\ t.phy = s.phy /\ t.waits = s.waits /\ t.failed = s.failed
      /\ t.alert = s.alert /\ t.channel = [s.channel EXCEPT ![i] = None]
      /\ t.heard = s.heard \ {i}
  BY <1>1, StateFields DEF AfterEnd, StateData, Air
<1> DEFINE checked == IF t.phy.mode = "RECEIVING" /\ ~t.phy.error
                      THEN CheckRxPacketError(t) ELSE {t}
<1> DEFINE base(x) == [x EXCEPT !.phy.interference = SignalInterference(x, c, None)]
<1> DEFINE v(x) == ChangeState(UnlockSignal(base(x)), Quiet(UnlockSignal(base(x))))
<1> DEFINE received(x) == IF x.phy.error THEN ReportStatusToMac(v(x)) ELSE v(x)
<1> DEFINE less(x) == [x EXCEPT !.phy.interference = IF @ > PowerOf[i] THEN @ - PowerOf[i] ELSE 0]
<1> DEFINE other(x) == IF x.phy.mode = "RECEIVING" THEN less(x)
                       ELSE ChangeAndReport(less(x), Quiet(less(x)))
<1>3. r \in IF t.phy.mode = "TRANSMITTING" THEN {[t EXCEPT !.failed = @ \cup {"end"}]}
            ELSE {IF x.phy.mode = "RECEIVING" /\ x.phy.rx = i THEN received(x) ELSE other(x) :
                    x \in checked}
  BY DEF Ended
<1> HIDE DEF received, other
<1>4. Good(t)
  <2>1. Quiet(t) = Quiet(s) BY <1>2, QuietMode
  <2> QED BY <1>2, <2>1 DEF Good
<1>5. s.channel \in Air BY <1>1, StateFields
<1>6. ASSUME Tuned(s, s.phy.tx) PROVE s.phy.mode # "TRANSMITTING" /\ s.phy.tx = c
  BY <1>6 DEF Tuned
<1>7. CASE t.phy.mode = "TRANSMITTING"
  <2>1. r = [t EXCEPT !.failed = @ \cup {"end"}] BY <1>3, <1>7
  <2>2. r \in StateData /\ r.phy = t.phy /\ r.waits = t.waits /\ r.channel = t.channel
    BY <1>2, <2>1 DEF StateData, Failure
  <2>3. Good(r) BY <1>4, <1>7, <2>2 DEF Good
  <2> QED BY <1>2, <1>6, <1>7, <2>2, <2>3
<1>8. CASE t.phy.mode # "TRANSMITTING"
  <2>1. PICK x \in checked :
          r = IF x.phy.mode = "RECEIVING" /\ x.phy.rx = i THEN received(x) ELSE other(x)
    BY <1>3, <1>8
  <2>2. x \in {t} \cup CheckRxPacketError(t) BY <2>1
  <2> HIDE DEF checked
  <2>3. /\ Good(x) /\ x.phy.mode = t.phy.mode /\ x.phy.rx = t.phy.rx
        /\ SameTuning(x, t) /\ SameWorld(x, t) /\ x.phy.timer = t.phy.timer
        /\ x.phy.interference = t.phy.interference
        /\ x.waits = t.waits /\ x.failed = t.failed
    <3>1. CASE x = t BY <1>4, <3>1 DEF SameTuning, SameWorld
    <3>2. CASE x \in CheckRxPacketError(t) BY <1>4, <3>2, CheckKeeps
    <3> QED BY <2>2, <3>1, <3>2
  <2>4. x \in StateData /\ ~x.waits BY <1>4, <1>8, <2>3, StateFields DEF Good
  <2>5. x.phy.tx = s.phy.tx /\ x.channel = [s.channel EXCEPT ![i] = None]
    BY <1>2, <2>3 DEF SameTuning, SameWorld
  <2>6. /\ Power(x.channel, c, None) \in Nat
        /\ \A but : but # i => Power(s.channel, c, but) = Power(x.channel, c, but) + PowerOf[i]
        /\ \A but : Power(x.channel, c, but) \in Nat
    <3>1. x.channel \in Air BY <2>4, StateFields
    <3>2. \A but : Power(x.channel, c, but) \in Nat BY <3>1, PowerFacts
    <3>3. \A but : but # i => Power(s.channel, c, but) = Power(x.channel, c, but) + PowerOf[i]
      <4> DEFINE old == s.channel
      <4> DEFINE new == x.channel
      <4>1. old \in Air /\ old[i] = c /\ c # None /\ Moved(old, new, i, None)
        BY <1>1, <1>5, <2>5 DEF Moved
      <4> HIDE DEF old, new
      <4>2. \A but : but # i => Power(old, c, but) = Power(new, c, but) + PowerOf[i]
        BY <4>1, LeftChannel
      <4> QED BY <4>2 DEF old, new
    <3> QED BY <3>2, <3>3
  <2>7. ASSUME Tuned(s, s.phy.tx)
        PROVE  /\ x.phy.mode # "TRX_OFF" /\ x.phy.mode # "TRANSMITTING"
               /\ x.failed = {} /\ x.alert = FALSE /\ ~x.phy.timer /\ x.phy.listening = {c}
    BY <1>2, <1>6, <2>3, <2>7 DEF Tuned, SameTuning, SameWorld
  <2>8. CASE x.phy.mode = "RECEIVING" /\ x.phy.rx = i
    <3> DEFINE p == Power(x.channel, c, None)
    <3> DEFINE b == [x EXCEPT !.phy.interference = p]
    <3> DEFINE u == UnlockSignal(b)
    <3> DEFINE w == ChangeState(u, Quiet(u))
    <3>1. b = base(x) /\ p \in Nat BY <2>6, InterferenceIsPower
    <3>2. b = [x EXCEPT !.phy.interference = p]
          /\ r = IF x.phy.error THEN ReportStatusToMac(w) ELSE w
      <4> HIDE DEF b
      <4>1. r = IF x.phy.error THEN ReportStatusToMac(w) ELSE w
        BY <2>1, <2>8, <3>1 DEF received
      <4> QED BY <4>1 DEF b
    <3> HIDE DEF p, b
    <3>3. /\ u \in StateData /\ u.phy.mode = "RECEIVING" /\ SameTuning(u, x) /\ SameWorld(u, x)
          /\ u.phy.timer = x.phy.timer /\ u.phy.interference = p
          /\ u.waits = x.waits /\ u.failed = x.failed
      <4>1. /\ b \in StateData /\ b.phy.mode = "RECEIVING"
            /\ SameTuning(b, x) /\ SameWorld(b, x)
            /\ b.phy.timer = x.phy.timer /\ b.phy.interference = p
            /\ b.waits = x.waits /\ b.failed = x.failed
        BY <2>4, <2>8, <3>1, <3>2 DEF StateData, Phy, SameTuning, SameWorld
      <4>2. /\ u \in StateData /\ u.phy.mode = b.phy.mode
            /\ SameTuning(u, b) /\ SameWorld(u, b)
            /\ u.phy.timer = b.phy.timer /\ u.phy.interference = b.phy.interference
            /\ u.waits = b.waits /\ u.failed = b.failed
        BY <4>1 DEF UnlockSignal, StateData, Phy, SameTuning, SameWorld
      <4> HIDE DEF u
      <4> QED BY <4>1, <4>2 DEF SameTuning, SameWorld
    <3> HIDE DEF u
    <3>4. /\ w \in StateData /\ w.phy.mode = Quiet(u) /\ w.phy.prev = "RECEIVING"
          /\ SameTuning(w, u) /\ SameWorld(w, u) /\ w.phy.timer = u.phy.timer
          /\ w.phy.interference = u.phy.interference
          /\ w.waits = u.waits /\ w.failed = u.failed
      BY <3>3, ChangeStateFields, QuietMode
    <3> HIDE DEF w
    <3>5. /\ w.phy.mode = Quiet(w) /\ w.phy.mode \in {"IDLE", "SENSING"}
          /\ w.phy.mode # "RECEIVING" /\ w.phy.mode # "TRANSMITTING" /\ w.phy.mode # "TRX_OFF"
      BY <3>4, QuietMode
    <3>6. <<w.phy.prev, w.phy.mode>> \in LegalChange
      <4>1. "RECEIVING" \in Modes BY DEF Modes
      <4> QED BY <3>4, <3>5, <4>1, QuietIsLegal
    <3>7. /\ r \in StateData /\ r.phy = w.phy /\ SameWorld(r, w) /\ r.failed = w.failed
          /\ ~r.waits
      <4>1. ~w.waits BY <2>4, <3>3, <3>4
      <4>2. CASE x.phy.error
        <5>1. r = ReportStatusToMac(w) BY <3>2, <4>2
        <5> QED BY <3>4, <3>6, <4>1, <5>1, ReportFields
      <4>3. CASE ~x.phy.error
        <5>1. r = w BY <3>2, <4>3
        <5> QED BY <3>4, <4>1, <5>1 DEF SameWorld
      <4> QED BY <4>2, <4>3
    <3>8. r.phy.mode = Quiet(r) BY <3>5, <3>7, QuietMode
    <3>9. Good(r) BY <3>5, <3>7, <3>8 DEF Good
    <3>10. /\ r.phy.tx = x.phy.tx /\ r.phy.listening = x.phy.listening
           /\ r.phy.timer = x.phy.timer /\ r.phy.interference = p
           /\ r.channel = x.channel /\ r.alert = x.alert /\ r.failed = x.failed
      BY <3>3, <3>4, <3>7 DEF SameTuning, SameWorld
    <3>11. ASSUME Tuned(s, s.phy.tx) PROVE Tuned(r, c)
      <4>1. p = Power(r.channel, c, None) BY <3>10 DEF p
      <4> QED BY <2>7, <3>5, <3>7, <3>10, <3>11, <4>1 DEF Tuned
    <3> QED BY <1>6, <2>5, <3>9, <3>10, <3>11
  <2>9. CASE ~(x.phy.mode = "RECEIVING" /\ x.phy.rx = i)
    <3> DEFINE p == IF x.phy.interference > PowerOf[i]
                    THEN x.phy.interference - PowerOf[i] ELSE 0
    <3> DEFINE u == less(x)
    <3>1. r = IF x.phy.mode = "RECEIVING" THEN u ELSE ChangeAndReport(u, Quiet(u))
      BY <2>1, <2>9 DEF other
    <3>2. x.phy.interference \in Nat BY <2>4, StateFields
    <3>3. p \in Nat BY <1>1, <3>2
    <3>4. u = [x EXCEPT !.phy.interference = p] OBVIOUS
    <3>5. ASSUME Tuned(s, s.phy.tx)
          PROVE  /\ x.phy.mode = "RECEIVING" =>
                      /\ x.phy.rx \in x.heard /\ x.channel[x.phy.rx] = c
                      /\ p = Power(x.channel, c, x.phy.rx)
                 /\ x.phy.mode # "RECEIVING" => p = Power(x.channel, c, None)
      <4> DEFINE but == IF x.phy.mode = "RECEIVING" THEN x.phy.rx ELSE None
      <4>1. but # i BY <1>1, <2>9
      <4>2. s.phy.mode = x.phy.mode /\ s.phy.rx = x.phy.rx
            /\ s.phy.interference = x.phy.interference
        BY <1>2, <2>3
      <4>3. x.phy.interference = Power(s.channel, c, but) BY <1>6, <3>5, <4>2 DEF Tuned
      <4>4. Power(s.channel, c, but) = Power(x.channel, c, but) + PowerOf[i]
            /\ Power(x.channel, c, but) \in Nat
        BY <2>6, <4>1
      <4>5. p = Power(x.channel, c, but)
        <5> HIDE DEF but
        <5> QED BY <1>1, <4>3, <4>4
      <4>6. ASSUME x.phy.mode = "RECEIVING"
            PROVE  x.phy.rx \in x.heard /\ x.channel[x.phy.rx] = c
        <5>1. x.phy.rx # i /\ s.phy.rx \in s.heard /\ s.channel[s.phy.rx] = c
          BY <1>6, <2>9, <3>5, <4>2, <4>6 DEF Tuned
        <5>2. s.phy.rx \in Signals BY <4>2, <4>6 DEF Good
        <5>3. x.heard = s.heard \ {i} BY <1>2, <2>3 DEF SameWorld
        <5> QED BY <1>5, <2>5, <4>2, <5>1, <5>2, <5>3 DEF Air
      <4> HIDE DEF p
      <4> QED BY <4>5, <4>6
    <3> HIDE DEF p, less
    <3>6. /\ u \in StateData /\ u.phy.mode = x.phy.mode /\ u.phy.rx = x.phy.rx
          /\ SameTuning(u, x) /\ SameWorld(u, x)
          /\ u.phy.timer = x.phy.timer /\ u.phy.interference = p
          /\ u.waits = x.waits /\ u.failed = x.failed
      BY <2>4, <3>3, <3>4 DEF StateData, Phy, SameTuning, SameWorld
    <3> HIDE DEF u
    <3>7. /\ r \in StateData
          /\ x.phy.mode = "RECEIVING" => r.phy.mode = "RECEIVING" /\ r.phy.rx = x.phy.rx
          /\ x.phy.mode # "RECEIVING" =>
               /\ r.phy.mode = Quiet(r) /\ r.phy.mode # "RECEIVING"
               /\ r.phy.mode # "TRANSMITTING" /\ r.phy.mode # "TRX_OFF"
          /\ SameTuning(r, u) /\ SameWorld(r, u) /\ r.phy.timer = u.phy.timer
          /\ r.phy.interference = u.phy.interference
          /\ r.waits = u.waits /\ r.failed = u.failed
      <4>1. CASE x.phy.mode = "RECEIVING"
        <5>1. r = u BY <3>1, <4>1
        <5> QED BY <3>6, <4>1, <5>1 DEF SameTuning, SameWorld
      <4>2. CASE x.phy.mode # "RECEIVING"
        <5>1. r = ChangeAndReport(u, Quiet(u)) BY <3>1, <4>2
        <5>2. /\ r \in StateData /\ r.phy.mode = Quiet(u)
              /\ SameTuning(r, u) /\ SameWorld(r, u) /\ r.phy.timer = u.phy.timer
              /\ r.phy.interference = u.phy.interference
              /\ r.waits = u.waits /\ r.failed = u.failed
          BY <1>8, <2>3, <3>6, <5>1, QuietMode, ChangeAndReportFields
        <5> QED BY <4>2, <5>2, QuietMode
      <4> QED BY <4>1, <4>2
    <3>8. /\ r.phy.tx = x.phy.tx /\ r.phy.listening = x.phy.listening
          /\ r.phy.timer = x.phy.timer /\ r.phy.interference = p
          /\ r.channel = x.channel /\ r.heard = x.heard /\ r.alert = x.alert
          /\ r.failed = x.failed /\ ~r.waits
      BY <2>4, <3>6, <3>7 DEF SameTuning, SameWorld
    <3>9. Good(r) BY <2>3, <3>7, <3>8 DEF Good
    <3>10. ASSUME Tuned(s, s.phy.tx) PROVE Tuned(r, c)
      <4>1. CASE x.phy.mode = "RECEIVING"
        BY <2>7, <3>5, <3>7, <3>8, <3>10, <4>1 DEF Tuned
      <4>2. CASE x.phy.mode # "RECEIVING"
        BY <2>7, <3>5, <3>7, <3>8, <3>10, <4>2 DEF Tuned
      <4> QED BY <4>1, <4>2
    <3> QED BY <1>6, <2>5, <3>8, <3>9, <3>10
  <2> QED BY <2>8, <2>9
<1> QED BY <1>7, <1>8

-----------------------------------------------------------------------------
(* The actions. *)

\* Every signal on a channel has started.
Begun == \A i \in Signals : channel[i] # None => i \in started

\* Under ASDCS the radio is tuned to the channel it transmits on.
Books == Tuned(State, phy.tx) /\ Begun

\* What an action does to the state of the radio.
LEMMA BecomesState ==
  ASSUME NEW r, r \in StateData, Becomes(r)
  PROVE  /\ State' = r /\ phy' = r.phy /\ channel' = r.channel
         /\ Good(r) => Good(State)'
         /\ Tuned(r, r.phy.tx) => Tuned(State, phy.tx)'
<1>1. State' = r /\ phy' = r.phy /\ channel' = r.channel BY DEF Becomes, State, StateData
<1> QED BY <1>1

\* The fields of the state are the variables.
LEMMA StateOfVariables ==
  /\ State.phy = phy /\ State.channel = channel /\ State.heard = heard
  /\ State.waits = waits /\ State.alert = alert /\ State.failed = failed
BY DEF State

\* Good speaks of a state, and the states it is true of have their types.
LEMMA GoodType == ASSUME NEW s, Good(s) PROVE s \in StateData
BY DEF Good

\* A signal starts.
LEMMA SignalArrivalKeeps ==
  ASSUME PhyAssumption, Good(State), NEW i \in Signals, SignalArrival(i)
  PROVE  Good(State)' /\ (Books => Books')
<1>1. PICK c \in Channels :
        LET s == [State EXCEPT !.channel[i] = c] IN
        IF c \in phy.listening
        THEN \E t \in Arrived([s EXCEPT !.heard = @ \cup {i}], i) : Becomes(t)
        ELSE Becomes(s)
  BY DEF SignalArrival
<1> DEFINE s == [State EXCEPT !.channel[i] = c]
<1> DEFINE h == [State EXCEPT !.channel[i] = c, !.heard = @ \cup {i}]
<1>2. State \in StateData /\ c # None BY GoodType DEF PhyAssumption
<1>3. /\ s \in StateData /\ s.phy = State.phy /\ s.waits = State.waits
      /\ s.failed = State.failed /\ s.alert = State.alert /\ s.heard = State.heard
      /\ s.channel = [State.channel EXCEPT ![i] = c]
  BY <1>2, StateFields DEF StateData, Air
<1>4. i \notin started /\ started' = started \cup {i} BY DEF SignalArrival
<1>5. State.channel \in Air BY <1>2, StateFields
<1>6. ASSUME Books PROVE channel[i] = None BY <1>4, <1>6 DEF Books, Begun
<1>7. ASSUME NEW r, channel' = r.channel, Books, r.channel = [State.channel EXCEPT ![i] = c]
      PROVE  Begun'
  BY <1>4, <1>5, <1>7, StateOfVariables DEF Books, Begun, Air
<1>8. CASE c \in phy.listening
  <2>1. [s EXCEPT !.heard = @ \cup {i}] = h
        /\ AfterStart(State, h, i, c)
    BY DEF AfterStart
  <2> HIDE DEF s, h
  <2>2. PICK r \in Arrived(h, i) : Becomes(r) BY <1>1, <1>8, <2>1 DEF s
  <2>3. c \in State.phy.listening BY <1>8, StateOfVariables
  <2>4. /\ Good(r) /\ r.phy.tx = State.phy.tx
        /\ r.channel = [State.channel EXCEPT ![i] = c]
        /\ State.channel[i] = None /\ Tuned(State, State.phy.tx) => Tuned(r, State.phy.tx)
    BY <2>1, <2>2, <2>3, ArrivedKeeps
  <2>5. r \in StateData BY <2>4, GoodType
  <2>6. Good(State)' /\ channel' = r.channel BY <2>2, <2>4, <2>5, BecomesState
  <2>7. ASSUME Books PROVE Books'
    <3>1. Tuned(r, r.phy.tx) BY <1>6, <2>4, <2>7, StateOfVariables DEF Books
    <3>2. Tuned(State, phy.tx)' BY <2>2, <2>5, <3>1, BecomesState
    <3> QED BY <1>7, <2>4, <2>6, <2>7, <3>2 DEF Books
  <2> QED BY <2>6, <2>7
<1>9. CASE c \notin phy.listening
  <2>1. Becomes(s) BY <1>1, <1>9
  <2> HIDE DEF s
  <2>2. Good(s)
    <3>1. Quiet(s) = Quiet(State) BY <1>3, QuietMode
    <3> QED BY <1>3, <3>1 DEF Good
  <2>3. Good(State)' /\ channel' = s.channel BY <1>3, <2>1, <2>2, BecomesState
  <2>4. ASSUME Books PROVE Books'
    <3> DEFINE tx == phy.tx
    <3>1. tx \in Channels /\ s.phy.tx = tx BY <1>2, <1>3, StateFields, StateOfVariables
    <3>2. Tuned(State, tx) BY <2>4 DEF Books
    <3>3. State.channel[i] = None BY <1>6, <2>4, StateOfVariables
    <3> HIDE DEF tx
    <3>4. Tuned(s, tx)
      <4>1. CASE State.phy.mode = "TRANSMITTING" BY <1>3, <3>2, <4>1 DEF Tuned
      <4>2. CASE State.phy.mode # "TRANSMITTING"
        <5>1. c # tx BY <1>9, <3>2, <4>2, StateOfVariables DEF Tuned
        <5>2. tx # None BY <3>1 DEF PhyAssumption
        <5>3. \A but : Power(s.channel, tx, but) = Power(State.channel, tx, but)
          BY <1>3, <1>5, <3>1, <3>3, <5>1, <5>2, OtherChannel DEF Moved
        <5>4. State.phy.mode = "RECEIVING" => s.channel[State.phy.rx] = tx
          <6> SUFFICES ASSUME State.phy.mode = "RECEIVING"
                       PROVE  s.channel[State.phy.rx] = tx
            OBVIOUS
          <6>1. State.channel[State.phy.rx] = tx BY <3>2 DEF Tuned
          <6>2. State.phy.rx \in Signals BY DEF Good
          <6> QED BY <1>3, <1>5, <3>3, <5>2, <6>1, <6>2 DEF Air
        <5>5. s.heard = State.heard BY <1>3
        <5> QED BY <1>3, <3>2, <4>2, <5>3, <5>4, <5>5 DEF Tuned
      <4> QED BY <4>1, <4>2
    <3>5. Tuned(State, phy.tx)' BY <1>3, <2>1, <3>1, <3>4, BecomesState
    <3> QED BY <1>3, <1>7, <2>3, <2>4, <3>5 DEF Books
  <2> QED BY <2>3, <2>4
<1> QED BY <1>8, <1>9

\* A signal ends.
LEMMA SignalEndKeeps ==
  ASSUME PhyAssumption, Good(State), NEW i \in Signals, SignalEnd(i)
  PROVE  Good(State)' /\ (Books => Books')
<1> DEFINE c == channel[i]
<1> DEFINE s == [State EXCEPT !.channel[i] = None, !.heard = @ \ {i}]
<1>1. /\ c # None /\ started' = started
      /\ IF c \in phy.listening THEN \E t \in Ended(s, i, c) : Becomes(t) ELSE Becomes(s)
  BY DEF SignalEnd
<1>2. State \in StateData /\ State.channel \in Air BY GoodType, StateFields
<1>3. c \in Channels /\ State.channel[i] = c BY <1>1, <1>2, StateOfVariables DEF Air
<1>4. /\ s \in StateData /\ s.phy = State.phy /\ s.waits = State.waits
      /\ s.failed = State.failed /\ s.alert = State.alert
      /\ s.heard = State.heard \ {i}
      /\ s.channel = [State.channel EXCEPT ![i] = None]
  BY <1>2, StateFields DEF StateData, Air
<1>5. ASSUME NEW r, channel' = r.channel, Books, r.channel = [State.channel EXCEPT ![i] = None]
      PROVE  Begun'
  BY <1>1, <1>2, <1>5, StateOfVariables DEF Books, Begun, Air
<1>6. CASE c \in phy.listening
  <2>1. PICK r \in Ended(s, i, c) : Becomes(r) BY <1>1, <1>6
  <2>2. c \in State.phy.listening BY <1>6, StateOfVariables
  <2>3. /\ Good(r) /\ r.phy.tx = State.phy.tx
        /\ r.channel = [State.channel EXCEPT ![i] = None]
        /\ Tuned(State, State.phy.tx) => Tuned(r, State.phy.tx)
    <3>1. AfterEnd(State, s, i) BY DEF AfterEnd
    <3> HIDE DEF c, s
    <3> QED BY <1>3, <2>1, <2>2, <3>1, EndedKeeps
  <2> HIDE DEF s, c
  <2>4. r \in StateData BY <2>3, GoodType
  <2>5. Good(State)' /\ channel' = r.channel BY <2>1, <2>3, <2>4, BecomesState
  <2>6. ASSUME Books PROVE Books'
    <3>1. Tuned(r, r.phy.tx) BY <2>3, <2>6, StateOfVariables DEF Books
    <3>2. Tuned(State, phy.tx)' BY <2>1, <2>4, <3>1, BecomesState
    <3> QED BY <1>5, <2>3, <2>5, <2>6, <3>2 DEF Books
  <2> QED BY <2>5, <2>6
<1>7. CASE c \notin phy.listening
  <2>1. Becomes(s) BY <1>1, <1>7
  <2> HIDE DEF s
  <2>2. Good(s)
    <3>1. Quiet(s) = Quiet(State) BY <1>4, QuietMode
    <3> QED BY <1>4, <3>1 DEF Good
  <2>3. Good(State)' /\ channel' = s.channel BY <1>4, <2>1, <2>2, BecomesState
  <2>4. ASSUME Books PROVE Books'
    <3> DEFINE tx == phy.tx
    <3>1. tx \in Channels /\ s.phy.tx = tx BY <1>2, <1>4, StateFields, StateOfVariables
    <3>2. Tuned(State, tx) BY <2>4 DEF Books
    <3>3. c \notin State.phy.listening BY <1>7, StateOfVariables
    <3> HIDE DEF tx, c
    <3>4. Tuned(s, tx)
      <4>1. CASE State.phy.mode = "TRANSMITTING" BY <1>4, <3>2, <4>1 DEF Tuned
      <4>2. CASE State.phy.mode # "TRANSMITTING"
        <5>1. c # tx BY <3>2, <3>3, <4>2 DEF Tuned
        <5>2. tx # None BY <3>1 DEF PhyAssumption
        <5>3. \A but : Power(s.channel, tx, but) = Power(State.channel, tx, but)
          BY <1>2, <1>3, <1>4, <3>1, <5>1, <5>2, OtherChannel DEF Moved
        <5>4. State.phy.mode = "RECEIVING" =>
                s.channel[State.phy.rx] = tx /\ State.phy.rx \in s.heard
          <6> SUFFICES ASSUME State.phy.mode = "RECEIVING"
                       PROVE  s.channel[State.phy.rx] = tx /\ State.phy.rx \in s.heard
            OBVIOUS
          <6>1. State.channel[State.phy.rx] = tx /\ State.phy.rx \in State.heard
            BY <3>2 DEF Tuned
          <6>2. State.phy.rx \in Signals BY DEF Good
          <6>3. State.phy.rx # i BY <1>3, <5>1, <6>1
          <6> QED BY <1>2, <1>4, <6>1, <6>2, <6>3 DEF Air
        <5> QED BY <1>4, <3>2, <4>2, <5>3, <5>4 DEF Tuned
      <4> QED BY <4>1, <4>2
    <3>5. Tuned(State, phy.tx)' BY <1>4, <2>1, <3>1, <3>4, BecomesState
    <3> QED BY <1>4, <1>5, <2>3, <2>4, <3>5 DEF Books
  <2> QED BY <2>3, <2>4
<1> QED BY <1>6, <1>7

\* The MAC sends a frame.
LEMMA StartTransmittingKeeps ==
  ASSUME PhyAssumption, Good(State), StartTransmitting
  PROVE  Good(State)' /\ (Books => Books')
<1> DEFINE v == StartTransmittingSignal(State)
<1> DEFINE r == [v EXCEPT !.alert = FALSE]
<1>1. Becomes(r) /\ phy.mode # "TRANSMITTING" /\ phy.mode # "TRX_OFF" /\ started' = started
  BY DEF StartTransmitting
<1>2. State \in StateData BY GoodType
<1>3. /\ v \in StateData /\ v.phy.mode = "TRANSMITTING" /\ v.phy.timer /\ v.waits
      /\ v.phy.tx = State.phy.tx /\ v.phy.listening = State.phy.listening \ {State.phy.tx}
      /\ v.channel = State.channel /\ v.alert = State.alert /\ v.failed = State.failed
  BY <1>2, TransmitFields DEF Good
<1> HIDE DEF v
<1>4. /\ r \in StateData /\ r.phy = v.phy /\ r.waits = v.waits
      /\ r.channel = v.channel /\ r.alert = FALSE /\ r.failed = v.failed
  BY <1>3 DEF StateData
<1> HIDE DEF r
<1>5. Good(r) BY <1>3, <1>4 DEF Good
<1>6. Good(State)' /\ channel' = r.channel BY <1>1, <1>4, <1>5, BecomesState
<1>7. ASSUME Books PROVE Books'
  <2>1. Tuned(State, State.phy.tx) BY <1>7, StateOfVariables DEF Books
  <2>2. State.phy.listening = {State.phy.tx} /\ State.failed = {}
    BY <1>1, <2>1, StateOfVariables DEF Tuned
  <2>3. r.phy.listening = {} /\ r.failed = {} BY <1>3, <1>4, <2>2
  <2>4. Tuned(r, r.phy.tx) BY <1>3, <1>4, <2>3 DEF Tuned
  <2>5. Tuned(State, phy.tx)' BY <1>1, <1>4, <2>4, BecomesState
  <2>6. channel' = channel BY <1>3, <1>4, <1>6, StateOfVariables
  <2> QED BY <1>1, <1>7, <2>5, <2>6 DEF Books, Begun
<1> QED BY <1>6, <1>7

\* A transmission ends, and with it perhaps the channel.
LEMMA TransmissionEndKeeps ==
  ASSUME PhyAssumption, Good(State), TransmissionEnd
  PROVE  Good(State)' /\ (Books => Books')
<1> DEFINE s == [State EXCEPT !.phy.timer = FALSE]
<1> DEFINE t == StartListening(s, phy.tx)
<1> DEFINE mode == IF phy.mode = "TRANSMITTING" THEN {} ELSE {"transmission end"}
<1> DEFINE a == [t EXCEPT !.failed = @ \cup mode, !.alert = FALSE]
<1>1. /\ phy.timer /\ started' = started
      /\ IF alert THEN \E c \in Channels \ {phy.tx} : Becomes(ChangeToChannel(a, c))
         ELSE Becomes(a)
  BY DEF TransmissionEnd
<1>2. State \in StateData BY GoodType
<1>3. /\ s \in StateData /\ s.phy.mode = State.phy.mode /\ s.waits = State.waits
      /\ s.phy.tx = State.phy.tx /\ s.phy.listening = State.phy.listening
      /\ ~s.phy.timer /\ s.channel = State.channel
      /\ s.alert = State.alert /\ s.failed = State.failed
  BY <1>2, StateFields DEF StateData, Phy
<1>4. phy.tx \in Channels BY <1>2, StateFields, StateOfVariables
<1>5. s.waits => s.phy.mode = "TRANSMITTING" BY <1>3 DEF Good
<1> HIDE DEF s
<1>6. /\ Good(t) /\ t.phy.tx = s.phy.tx /\ t.alert = s.alert
      /\ t.phy.mode # "TRANSMITTING" /\ t.channel = s.channel
      /\ /\ s.failed = {} /\ s.alert = FALSE /\ s.phy.listening = {}
         /\ s.phy.timer => s.phy.mode = "TRANSMITTING"
         => Tuned(t, phy.tx)
  BY <1>3, <1>4, <1>5, StartKeeps
<1> HIDE DEF t
<1>7. /\ a \in StateData /\ a.phy = t.phy /\ a.waits = t.waits
      /\ a.channel = t.channel /\ a.heard = t.heard /\ a.alert = FALSE
      /\ a.failed = t.failed \cup mode
  <2> DEFINE f == t.failed \cup mode
  <2>1. t \in StateData /\ f \in SUBSET Failure BY <1>6, GoodType, StateFields DEF Failure
  <2>2. a = [t EXCEPT !.failed = f, !.alert = FALSE] OBVIOUS
  <2> HIDE DEF a, f
  <2>3. /\ a \in StateData /\ a.phy = t.phy /\ a.waits = t.waits
        /\ a.channel = t.channel /\ a.heard = t.heard /\ a.alert = FALSE /\ a.failed = f
    BY <2>1, <2>2 DEF StateData
  <2> QED BY <2>3 DEF f
<1> HIDE DEF a
<1>8. Good(a)
  <2>1. Quiet(a) = Quiet(t) BY <1>7, QuietMode
  <2> QED BY <1>6, <1>7, <2>1 DEF Good
<1>9. CASE alert
  <2>1. PICK c \in Channels \ {phy.tx} : Becomes(ChangeToChannel(a, c)) BY <1>1, <1>9
  <2> DEFINE r == ChangeToChannel(a, c)
  <2>2. Good(r) BY <1>8, ChangeKeeps
  <2>3. Becomes(r) BY <2>1
  <2> HIDE DEF r
  <2>4. Good(State)' BY <2>2, <2>3, GoodType, BecomesState
  <2>5. ~Books BY <1>9, StateOfVariables DEF Books, Tuned
  <2> QED BY <2>4, <2>5
<1>10. CASE ~alert
  <2>1. Becomes(a) BY <1>1, <1>10
  <2>2. Good(State)' /\ channel' = a.channel BY <1>7, <1>8, <2>1, BecomesState
  <2>3. ASSUME Books PROVE Books'
    <3>1. Tuned(State, State.phy.tx) BY <2>3, StateOfVariables DEF Books
    <3>2. phy.mode = "TRANSMITTING" BY <1>1, <3>1, StateOfVariables DEF Tuned
    <3>3. s.failed = {} /\ s.alert = FALSE /\ s.phy.listening = {}
      BY <1>3, <3>1, <3>2, StateOfVariables DEF Tuned
    <3>4. Tuned(t, phy.tx) BY <1>3, <1>6, <3>3
    <3>5. mode = {} /\ a.failed = t.failed BY <1>7, <3>2
    <3>6. Tuned(a, phy.tx) BY <1>7, <3>4, <3>5 DEF Tuned
    <3>7. a.phy.tx = phy.tx BY <1>3, <1>6, <1>7, StateOfVariables
    <3>8. Tuned(a, a.phy.tx) BY <3>6, <3>7
    <3>9. Tuned(State, phy.tx)' BY <1>7, <2>1, <3>8, BecomesState
    <3>10. channel' = channel BY <1>3, <1>6, <1>7, <2>2, StateOfVariables
    <3> QED BY <1>1, <2>3, <3>9, <3>10 DEF Books, Begun
  <2> QED BY <2>2, <2>3
<1> QED BY <1>9, <1>10

\* A frame for another node is given up.
LEMMA GiveUpFrameKeeps ==
  ASSUME PhyAssumption, Good(State), GiveUpFrame
  PROVE  Good(State)' /\ (Books => Books')
<1>1. phy.mode = "RECEIVING" /\ started' = started BY DEF GiveUpFrame
<1>2. PICK s \in {State} \cup CheckRxPacketError(State) : Becomes(TerminateCurrentReceive(s))
  BY DEF GiveUpFrame
<1>3. /\ Good(s) /\ s.phy.mode = "RECEIVING" /\ s.channel = State.channel
      /\ s.phy.tx = State.phy.tx
      /\ \A c : Tuned(State, c) => Tuned(s, c)
  <2>1. State.phy.mode = "RECEIVING" BY <1>1, StateOfVariables
  <2>2. CASE s = State BY <2>1, <2>2
  <2>3. CASE s \in CheckRxPacketError(State)
    BY <2>1, <2>3, CheckKeeps DEF SameWorld, SameTuning
  <2> QED BY <1>2, <2>2, <2>3
<1>4. s \in StateData /\ s.phy.rx \in Signals /\ ~s.waits BY <1>3 DEF Good
<1> DEFINE r == TerminateCurrentReceive(s)
<1>5. /\ r \in StateData /\ r.phy.mode = Quiet(r) /\ r.phy.mode \in {"IDLE", "SENSING"}
      /\ r.phy.interference = s.phy.interference + PowerOf[s.phy.rx]
      /\ SameTuning(r, s) /\ SameWorld(r, s) /\ r.phy.timer = s.phy.timer
      /\ r.waits = s.waits /\ r.failed = s.failed
  BY <1>4, TerminateReceiveFields
<1>6. Becomes(r) BY <1>2
<1> HIDE DEF r
<1>7. /\ r.phy.mode # "RECEIVING" /\ r.phy.mode # "TRANSMITTING" /\ r.phy.mode # "TRX_OFF"
      /\ ~r.waits
  BY <1>4, <1>5
<1>8. Good(r) BY <1>5, <1>7 DEF Good
<1>9. Good(State)' /\ channel' = r.channel BY <1>5, <1>6, <1>8, BecomesState
<1>10. ASSUME Books PROVE Books'
  <2> DEFINE tx == s.phy.tx
  <2>1. Tuned(s, tx) BY <1>3, <1>10, StateOfVariables DEF Books
  <2>2. tx \in Channels /\ s.channel \in Air BY <1>4, StateFields
  <2> HIDE DEF tx
  <2>3. s.channel[s.phy.rx] = tx /\ s.phy.interference = Power(s.channel, tx, s.phy.rx)
    BY <1>3, <2>1 DEF Tuned
  <2>4. Power(s.channel, tx, None) = PowerOf[s.phy.rx] + Power(s.channel, tx, s.phy.rx)
        /\ Power(s.channel, tx, s.phy.rx) \in Nat /\ PowerOf[s.phy.rx] \in Nat
    BY <1>4, <2>2, <2>3, PowerFacts DEF PhyAssumption
  <2>5. r.phy.interference = Power(s.channel, tx, None) BY <1>5, <2>3, <2>4
  <2>6. r.channel = s.channel /\ r.alert = s.alert /\ r.phy.listening = s.phy.listening
        /\ r.phy.tx = tx
    BY <1>5 DEF SameWorld, SameTuning, tx
  <2>7. Tuned(r, tx) BY <1>3, <1>5, <1>7, <2>1, <2>5, <2>6 DEF Tuned
  <2>8. Tuned(State, phy.tx)' BY <1>5, <1>6, <2>6, <2>7, BecomesState
  <2>9. channel' = channel BY <1>3, <1>9, <2>6, StateOfVariables
  <2> QED BY <1>1, <1>10, <2>8, <2>9 DEF Books, Begun
<1> QED BY <1>9, <1>10

\* The MAC changes the channel.
LEMMA ManagementChangeKeeps ==
  ASSUME PhyAssumption, Good(State), ManagementChangeToChannel
  PROVE  Good(State)' /\ (Books => Books')
<1>1. started' = started BY DEF ManagementChangeToChannel
<1>2. PICK c \in Channels \ {phy.tx} : Becomes(ChangeToChannel(State, c))
  BY DEF ManagementChangeToChannel
<1> DEFINE r == ChangeToChannel(State, c)
<1>3. /\ Good(r) /\ r.phy.tx = c /\ r.channel = State.channel
      /\ Tuned(State, State.phy.tx) /\ c # State.phy.tx => Tuned(r, c)
  BY ChangeKeeps
<1>4. Becomes(r) BY <1>2
<1> HIDE DEF r
<1>5. Good(State)' /\ channel' = r.channel BY <1>3, <1>4, GoodType, BecomesState
<1>6. ASSUME Books PROVE Books'
  <2>1. Tuned(r, r.phy.tx) BY <1>2, <1>3, <1>6, StateOfVariables DEF Books
  <2>2. Tuned(State, phy.tx)' BY <1>3, <1>4, <2>1, GoodType, BecomesState
  <2>3. channel' = channel BY <1>3, <1>5, StateOfVariables
  <2> QED BY <1>1, <1>6, <2>2, <2>3 DEF Books, Begun
<1> QED BY <1>5, <1>6

\* The timer of next-channel switching cuts off what is under way.
LEMMA ChannelSwitchTimerKeeps ==
  ASSUME PhyAssumption, Good(State), ChannelSwitchTimer
  PROVE  Good(State)'
<1> DEFINE s == CASE phy.mode = "TRANSMITTING" -> TerminateCurrentTransmission(State)
                  [] phy.mode = "RECEIVING" -> TerminateCurrentReceive(State)
                  [] OTHER -> State
<1> DEFINE error == IF phy.error THEN {"error"} ELSE {}
<1> DEFINE t == [s EXCEPT !.failed = @ \cup error]
<1> DEFINE u == ChangeState(t, "IDLE")
<1> DEFINE v == StartTransmittingSignal(u)
<1> DEFINE r == [v EXCEPT !.alert = TRUE]
<1>1. Becomes(r) BY DEF ChannelSwitchTimer
<1>2. State \in StateData BY GoodType
<1>3. s \in StateData
  <2>1. CASE phy.mode = "TRANSMITTING"
    <3>1. s = TerminateCurrentTransmission(State) BY <2>1
    <3> HIDE DEF s
    <3> QED BY <1>2, <3>1 DEF TerminateCurrentTransmission, StateData, Phy
  <2>2. CASE phy.mode = "RECEIVING"
    <3>1. s = TerminateCurrentReceive(State) BY <2>2
    <3>2. State.phy.rx \in Signals BY <2>2, StateOfVariables DEF Good
    <3> HIDE DEF s
    <3> QED BY <1>2, <3>1, <3>2, TerminateReceiveFields
  <2>3. CASE phy.mode # "TRANSMITTING" /\ phy.mode # "RECEIVING"
    <3>1. s = State BY <2>3
    <3> QED BY <1>2, <3>1
  <2> QED BY <2>1, <2>2, <2>3
<1> HIDE DEF s
<1>4. t \in StateData
  <2>1. error \subseteq Failure BY DEF Failure
  <2> HIDE DEF error
  <2> QED BY <1>3, <2>1, StateFields DEF StateData
<1> HIDE DEF t
<1>5. u \in StateData /\ u.phy.mode = "IDLE"
  <2>1. "IDLE" \in Modes BY DEF Modes
  <2> QED BY <1>4, <2>1, ChangeStateFields
<1> HIDE DEF u
<1>6. v \in StateData /\ v.phy.mode = "TRANSMITTING" /\ v.phy.timer /\ v.waits
  BY <1>5, TransmitFields
<1> HIDE DEF v
<1>7. r \in StateData /\ r.phy = v.phy /\ r.waits = v.waits BY <1>6 DEF StateData
<1> HIDE DEF r
<1>8. Good(r) BY <1>6, <1>7 DEF Good
<1> QED BY <1>1, <1>7, <1>8, BecomesState

\* Next-channel switching goes back to the channel before.
LEMMA ReturnToPreviousKeeps ==
  ASSUME PhyAssumption, Good(State), ReturnToPrevious
  PROVE  Good(State)'
<1>1. PICK c \in Channels \ {phy.tx} :
        LET t == IF c \in phy.listening THEN State ELSE StartListening(State, c)
        IN  Becomes([t EXCEPT !.phy.tx = c])
  BY DEF ReturnToPrevious
<1> DEFINE x == StartListening(State, c)
<1> DEFINE t == IF c \in phy.listening THEN State ELSE x
<1> DEFINE r == [t EXCEPT !.phy.tx = c]
<1>2. Becomes(r) BY <1>1
<1>3. Good(x)
  <2>1. State.waits => State.phy.mode = "TRANSMITTING" BY DEF Good
  <2> QED BY <2>1, GoodType, StartKeeps
<1> HIDE DEF x
<1>4. Good(t) BY <1>3
<1> HIDE DEF t
<1>5. Good(r) BY <1>4, SetChannel
<1> HIDE DEF r
<1> QED BY <1>2, <1>5, GoodType, BecomesState

-----------------------------------------------------------------------------
(* The invariants. *)

RadioInv == Good(State) /\ (~NextChannel => Books)

\* At first nothing is on the air.
LEMMA RadioInit == ASSUME PhyAssumption, Init PROVE RadioInv
<1>1. PICK c \in Channels :
        phy = [mode |-> "IDLE", prev |-> "IDLE", rx |-> None, error |-> FALSE,
               interference |-> 0, listening |-> {c}, tx |-> c, timer |-> FALSE]
  BY DEF Init
<1>2. /\ State.phy = phy /\ State.waits = FALSE /\ State.alert = FALSE /\ State.failed = {}
      /\ State.channel = [i \in Signals |-> None]
      /\ State \in StateData
  BY <1>1 DEF Init, State, StateData, Phy, Modes, Air
<1>3. Quiet(State) = "IDLE"
  BY <1>1, <1>2 DEF Quiet, CarrierSensing, PhyAssumption
<1>4. Good(State) BY <1>1, <1>2, <1>3 DEF Good
<1>5. Power(State.channel, c, None) = 0
  <2>1. {i \in Signals \ {None} : State.channel[i] = c} = {}
    BY <1>2 DEF PhyAssumption
  <2>2. IsFiniteSet(Signals) /\ NatValued(PowerOf, Signals) BY DEF PhyAssumption, NatValued
  <2>3. SumOf(PowerOf, {}) = 0 BY <2>2, SumFacts
  <2> QED BY <2>1, <2>3 DEF Power
<1>6. Tuned(State, phy.tx) BY <1>1, <1>2, <1>5 DEF Tuned
<1>7. Begun BY DEF Begun, Init
<1> QED BY <1>4, <1>6, <1>7 DEF RadioInv, Books

\* Every step keeps them.
LEMMA RadioStep == ASSUME PhyAssumption, RadioInv, [Next]_vars PROVE RadioInv'
<1>1. Good(State) BY DEF RadioInv
<1>2. CASE \E i \in Signals : SignalArrival(i) \/ SignalEnd(i)
  <2>1. PICK i \in Signals : SignalArrival(i) \/ SignalEnd(i) BY <1>2
  <2> QED BY <1>1, <2>1, SignalArrivalKeeps, SignalEndKeeps DEF RadioInv
<1>3. CASE StartTransmitting BY <1>1, <1>3, StartTransmittingKeeps DEF RadioInv
<1>4. CASE GiveUpFrame BY <1>1, <1>4, GiveUpFrameKeeps DEF RadioInv
<1>5. CASE ManagementChangeToChannel BY <1>1, <1>5, ManagementChangeKeeps DEF RadioInv
<1>6. CASE ChannelSwitchTimer
  <2>1. NextChannel BY <1>6 DEF ChannelSwitchTimer
  <2> QED BY <1>1, <1>6, <2>1, ChannelSwitchTimerKeeps DEF RadioInv
<1>7. CASE ReturnToPrevious
  <2>1. NextChannel BY <1>7 DEF ReturnToPrevious
  <2> QED BY <1>1, <1>7, <2>1, ReturnToPreviousKeeps DEF RadioInv
<1>8. CASE TransmissionEnd BY <1>1, <1>8, TransmissionEndKeeps DEF RadioInv
<1>9. CASE UNCHANGED vars
  <2>1. State' = State /\ phy' = phy /\ channel' = channel /\ started' = started
    BY <1>9 DEF vars, State
  <2> QED BY <2>1 DEF RadioInv, Books, Begun
<1> QED BY <1>2, <1>3, <1>4, <1>5, <1>6, <1>7, <1>8, <1>9 DEF Next, MacStep, Stopped

\* The invariants hold of every state of the radio.
LEMMA RadioAlways == ASSUME PhyAssumption PROVE Spec => []RadioInv
<1>1. Init => RadioInv BY RadioInit
<1>2. RadioInv /\ [Next]_vars => RadioInv' BY RadioStep
<1> QED BY <1>1, <1>2, PTL DEF Spec

\* The parts of the radio keep their values, whichever way the MAC switches channels.
THEOREM PhyTypes == ASSUME PhyAssumption PROVE Spec => []TypeOK
<1>1. RadioInv => TypeOK
  BY GoodType, StateFields, StateOfVariables DEF RadioInv, TypeOK, Air
<1> QED BY <1>1, RadioAlways, PTL

\* The mode tells a busy medium from a quiet one whenever nothing is received or sent,
\* whichever way the MAC switches channels.
THEOREM PhySensesMedium == ASSUME PhyAssumption PROVE Spec => []SensesMedium
<1>1. RadioInv => SensesMedium BY StateOfVariables DEF RadioInv, Good, SensesMedium
<1> QED BY <1>1, RadioAlways, PTL

\* A MAC that waits for the end of its transmission waits for something that will come,
\* even when the radio is retuned, or a signal arrives, in the middle of it.
THEOREM PhyEndWillCome == ASSUME PhyAssumption PROVE Spec => []EndWillCome
<1>1. RadioInv => EndWillCome BY StateOfVariables DEF RadioInv, Good, EndWillCome
<1> QED BY <1>1, RadioAlways, PTL

\* Under ASDCS the interference that is kept up by additions and subtractions is the
\* sum of the powers on the channel, the frame received left out.
THEOREM PhyInterferenceIsSum ==
  ASSUME PhyAssumption, ~NextChannel PROVE Spec => []InterferenceIsSum
<1>1. RadioInv => InterferenceIsSum
  <2> SUFFICES ASSUME RadioInv, Listens
               PROVE  phy.interference = SignalInterference(State, phy.tx,
                        IF phy.mode = "RECEIVING" THEN phy.rx ELSE None)
    BY DEF InterferenceIsSum
  <2>1. Tuned(State, phy.tx) /\ phy.mode # "TRANSMITTING"
    BY DEF RadioInv, Books, Listens
  <2>2. phy.interference = Power(State.channel, phy.tx,
                             IF phy.mode = "RECEIVING" THEN phy.rx ELSE None)
    BY <2>1, StateOfVariables DEF Tuned
  <2> QED BY <2>2, InterferenceIsPower
<1> QED BY <1>1, RadioAlways, PTL

\* Under ASDCS the frame that is received is on the air, on the channel of the radio,
\* and was listened to from its start: a change of channel never leaves half a frame.
THEOREM PhyWholeFrames == ASSUME PhyAssumption, ~NextChannel PROVE Spec => []WholeFrames
<1>1. RadioInv => WholeFrames
  BY StateOfVariables DEF RadioInv, Books, Tuned, WholeFrames
<1> QED BY <1>1, RadioAlways, PTL

\* Under ASDCS a radio that does not transmit listens to its channel and to no other.
THEOREM PhyTunedToOne == ASSUME PhyAssumption, ~NextChannel PROVE Spec => []TunedToOne
<1>1. RadioInv => TunedToOne BY StateOfVariables DEF RadioInv, Books, Tuned, TunedToOne
<1> QED BY <1>1, RadioAlways, PTL

\* Under ASDCS no assertion of the radio fails and every change of mode it reports is
\* one the MAC knows.
THEOREM PhyAssertionsHold == ASSUME PhyAssumption, ~NextChannel PROVE Spec => []AssertionsHold
<1>1. RadioInv => AssertionsHold
  BY StateOfVariables DEF RadioInv, Books, Tuned, AssertionsHold
<1> QED BY <1>1, RadioAlways, PTL

-----------------------------------------------------------------------------
(* A station that joins access points and roams, by scanning passively or a fixed channel. *)

CONSTANTS
  APs, ChannelOf, NumChannels, Foreign, ScanType, NoAp, Levels, Threshold, MissedMax,
  MaxAid, Taken, MaxAnswers, MaxMoves, MaxLosses
VARIABLES joinSta, listed, unlisted, joinAnswers, level, moves, losses, joinFailed

Join == INSTANCE StaJoin WITH
  sta <- joinSta, dropped <- unlisted, answers <- joinAnswers, failed <- joinFailed

\* The states in which a station waits for the answer of an access point.
AskingStates == {"WFAUTH", "WFASSOC", "WFREASSOC"}

\* The timers at whose end a new step begins, with no answer under way.
StartTimers == {"Scan_Start", "Authentication_Start", "Reassociation_Start"}

\* The radio is on the channel of the access point that is proposed.
Towards(s) == s.apAddr \in APs /\ s.currentChannel = ChannelOf[s.apAddr]

\* What the management queue holds in each state: the request whose answer is awaited,
\* behind one sent again at most; nothing during a scan.
RequestsFit(s) ==
  /\ s.state \in {"IDLE", "WFSCAN"} => s.queue = <<>>
  /\ s.state = "WFAUTH" => s.queue = <<>> \/ s.queue = <<Join!AuthenticateFrame(s)>>
  /\ s.state = "WFASSOC" =>
       \/ s.queue = <<>> \/ s.queue = <<Join!AssociateRequestFrame(s)>>
       \/ s.queue = <<Join!AuthenticateFrame(s), Join!AssociateRequestFrame(s)>>
  /\ s.state = "WFREASSOC" => s.queue = <<>> \/ s.queue = <<Join!ReassociateRequestFrame(s)>>
  /\ s.state = "JOINED" =>
       \/ s.queue = <<>>
       \/ /\ s.current = "mgmt"
          /\ \/ s.queue = <<Join!AssociateRequestFrame(s)>>
             \/ s.queue = <<Join!ReassociateRequestFrame(s)>>

\* How far the station has got in each state.
ProgressFits(s) ==
  /\ s.state \notin {"SCAN", "AUTH_FINISHED"}
  /\ s.state = "IDLE" => s.current = "none" /\ ~s.stationAuthenticated
  /\ s.state \in AskingStates => Towards(s) /\ ~s.stationAssociated
  /\ s.state = "WFAUTH" => ~s.stationAuthenticated
  /\ s.state \in {"WFASSOC", "WFREASSOC"} => s.stationAuthenticated
  /\ s.state = "JOINED" => Join!IsJoined(s) /\ s.apAddr = s.associatedAP
  /\ s.stationAssociated => s.stationAuthenticated /\ s.associatedAP \in APs
  /\ Join!IsJoined(s) /\ ~s.ScanStarted => s.currentChannel = ChannelOf[s.associatedAP]

\* What the running timer says of the state.  A station that got authenticated has its next
\* request queued while the timer of the authentication still runs.
TimerFits(s) ==
  /\ s.timer = "Enable" <=> s.state = "IDLE"
  /\ s.timer \notin {"Active_Scan_Short", "Active_Scan_Long"}
  /\ s.timer = "Beacon_Wait" <=> s.ScanStarted
  /\ s.ScanStarted => s.state = "WFSCAN" /\ (s.stationAuthenticated => s.stationAssociated)
  /\ s.timer \in StartTimers => s.state = "WFSCAN" /\ ~s.stationAssociated
  /\ s.timer \in {"Authentication_Start", "Reassociation_Start"} => Towards(s)
  /\ s.timer = "Authentication_Start" => ~s.stationAuthenticated
  /\ s.timer = "Reassociation_Start" => s.stationAuthenticated
  /\ s.timer = "Authentication" /\ s.stationAuthenticated =>
       s.stationAssociated \/ s.queue # <<>> \/ s.resetPending

\* What is in hand.
HandFits(s) ==
  /\ s.current = "mgmt" => s.queue # <<>>
  /\ s.current = "data" => Join!IsJoined(s) /\ ~s.ScanStarted

\* A station that is not joined has something that takes it on.
Goes(s) == Join!IsJoined(s) \/ s.timer # "none" \/ s.queue # <<>> \/ s.resetPending

\* What holds of a station, whatever it has just done.
StationInv(s) == RequestsFit(s) /\ ProgressFits(s) /\ TimerFits(s) /\ HandFits(s)

\* The request of the state has been sent, once at least.
Asked(s) == s.queue = <<>> \/ (Len(s.queue) = 1 /\ s.current = "mgmt")

\* A step from s to r that starts nothing new: it leaves the station in the state it had,
\* or takes it out of the states that wait for an answer.
Follows(s, r) ==
  /\ r.aid = s.aid /\ r.associatedAP = s.associatedAP
  /\ Join!IsJoined(r) => Join!IsJoined(s)
  /\ r.timer \in StartTimers => s.timer \in StartTimers
  /\ r.state \in AskingStates \cup {"JOINED"} =>
       /\ r.state = s.state /\ r.apAddr = s.apAddr
       /\ Asked(s) => Asked(r)
       /\ r.queue # <<>> => s.queue # <<>>

\* What the access points have queued: answers to requests that were sent, with the id
\* the station is listed under.
AnswersFit(s, ans, ids) ==
  /\ s.timer \in StartTimers => \A a \in APs : ans[a] = <<>>
  /\ \A a \in APs : \A i \in DOMAIN ans[a] :
       /\ ans[a][i].aid \in {0, ids[a]}
       /\ s.state = "WFAUTH" => ans[a][i].type = "AUTH"
       /\ s.state \in {"WFASSOC", "WFREASSOC"} /\ ans[a][i].type \in {"ASSOC", "REASSOC"} => Asked(s)

\* What the lists of the access points say.
ListsFit(s, ids, gone) ==
  /\ \A a \in APs : /\ ids[a] # 0 => ids[a] \notin Taken[a]
                    /\ gone[a] => ids[a] = 0
  /\ Join!IsJoined(s) /\ ~gone[s.associatedAP] => s.aid = ids[s.associatedAP] /\ s.aid # 0
  /\ s.state = "JOINED" /\ s.queue # <<>> => ~gone[s.apAddr]

\* A step of the station that keeps all of it.
StationTo(s, r) == r \in Join!Station /\ StationInv(r) /\ Goes(r) /\ Follows(s, r)

\* Such a step changes nothing of what is said of the access points.
LEMMA Followed ==
  ASSUME NEW s, NEW r, NEW ans, NEW ids, NEW gone, Follows(s, r),
         AnswersFit(s, ans, ids), ListsFit(s, ids, gone)
  PROVE  AnswersFit(r, ans, ids) /\ ListsFit(r, ids, gone)
<1>1. AnswersFit(r, ans, ids) BY DEF Follows, AnswersFit, AskingStates
<1>2. ListsFit(r, ids, gone) BY DEF Follows, ListsFit, AskingStates, Join!IsJoined
<1> QED BY <1>1, <1>2

\* Two such steps are one.
LEMMA FollowsOn ==
  ASSUME NEW s, NEW t, NEW r, Follows(s, t), Follows(t, r)
  PROVE  Follows(s, r)
BY DEF Follows

\* The values of the fields, for the provers.
LEMMA JoinValues ==
  ASSUME Join!JoinAssumption
  PROVE  /\ NumChannels \in Nat /\ NumChannels > 0 /\ 1 \in 1 .. NumChannels
         /\ MaxAid \in Nat /\ MissedMax \in Nat /\ NoAp \notin APs
         /\ \A x \in {"SCAN", "WFSCAN", "WFAUTH", "WFASSOC", "WFREASSOC",
                      "AUTH_FINISHED", "JOINED"} : x \in Join!ManagementStates
         /\ \A x \in {"none", "Beacon_Wait", "Scan_Start", "Authentication_Start",
                      "Reassociation_Start", "Authentication", "Association",
                      "Reassociation"} : x \in Join!Timers
BY DEF Join!JoinAssumption, Join!ManagementStates, Join!Timers

\* The types of a scan that starts.
LEMMA StartJoinTyped ==
  ASSUME NEW s \in Join!Station, NEW v \in Join!ManagementStates, NEW w \in Join!ManagementStates,
         NEW n \in 1 .. NumChannels, NEW m \in SUBSET APs, NEW o \in APs \cup {NoAp},
         NEW t \in Join!Timers
  PROVE  [s EXCEPT !.state = v, !.ScanStarted = TRUE, !.currentChannel = s.currentChannel,
            !.state = w, !.numResults = n, !.measured = m, !.own = o, !.timer = t] \in Join!Station
BY DEF Join!Station

\* A scan that starts.
LEMMA StartJoinIs ==
  ASSUME Join!JoinAssumption, ScanType # "active", NEW s \in Join!Station
  PROVE  /\ Join!StartJoin(s) \in Join!Station
         /\ Join!StartJoin(s).state = "WFSCAN" /\ Join!StartJoin(s).ScanStarted
         /\ Join!StartJoin(s).timer = "Beacon_Wait"
         /\ Join!StartJoin(s).queue = s.queue /\ Join!StartJoin(s).current = s.current
         /\ Join!StartJoin(s).aid = s.aid /\ Join!StartJoin(s).associatedAP = s.associatedAP
         /\ Join!StartJoin(s).stationAuthenticated = s.stationAuthenticated
         /\ Join!StartJoin(s).stationAssociated = s.stationAssociated
         /\ Join!StartJoin(s).resetPending = s.resetPending
         /\ Join!StartJoin(s).acking = s.acking
<1> DEFINE o == IF ScanType = "disabled" THEN s.own ELSE NoAp
           r == [s EXCEPT !.state = "SCAN", !.ScanStarted = TRUE,
                   !.currentChannel = s.currentChannel,
                   !.state = "WFSCAN", !.numResults = 1,
                   !.measured = {}, !.own = o, !.timer = "Beacon_Wait"]
<1>1. Join!StartJoin(s) = r
  BY DEF Join!StartJoin, Join!ScanStart, Join!ChangeToChannel, Join!StartTimer, Join!Station
<1>2. /\ 1 \in 1 .. NumChannels /\ {} \in SUBSET APs /\ o \in APs \cup {NoAp}
      /\ "SCAN" \in Join!ManagementStates /\ "WFSCAN" \in Join!ManagementStates
      /\ "Beacon_Wait" \in Join!Timers
  BY JoinValues DEF Join!Station
<1>3. r \in Join!Station BY <1>2, StartJoinTyped
<1>4. /\ r.state = "WFSCAN" /\ r.ScanStarted /\ r.timer = "Beacon_Wait"
      /\ r.queue = s.queue /\ r.current = s.current /\ r.aid = s.aid
      /\ r.associatedAP = s.associatedAP /\ r.stationAuthenticated = s.stationAuthenticated
      /\ r.stationAssociated = s.stationAssociated /\ r.resetPending = s.resetPending
      /\ r.acking = s.acking
  BY DEF Join!Station
<1> QED BY <1>1, <1>3, <1>4

\* The types of a reset.
LEMMA ResetAlwaysTyped ==
  ASSUME NEW s \in Join!Station, NEW q \in Seq([type : {"PROBE", "AUTH", "ASSOC", "REASSOC"},
                                           to : APs \union {NoAp}])
  PROVE  [s EXCEPT !.stationAuthenticated = FALSE, !.stationAssociated = FALSE,
                   !.queue = q, !.apAddr = NoAp] \in Join!Station
BY DEF Join!Station

\* A reset puts any station with nothing in hand at the start of a scan.
LEMMA ResetAlwaysIs ==
  ASSUME Join!JoinAssumption, ScanType # "active", NEW s \in Join!Station, s.current = "none"
  PROVE  /\ StationTo(s, Join!ResetAlways(s))
         /\ Join!ResetAlways(s).current = "none" /\ Join!ResetAlways(s).acking = s.acking
         /\ Join!ResetAlways(s).timer = "Beacon_Wait"
<1> DEFINE t == [s EXCEPT !.stationAuthenticated = FALSE, !.stationAssociated = FALSE,
                   !.queue = <<>>, !.apAddr = NoAp]
           r == Join!ResetAlways(s)
<1>1. t \in Join!Station
  <2>1. <<>> \in Seq([type : {"PROBE", "AUTH", "ASSOC", "REASSOC"}, to : APs \union {NoAp}])
    OBVIOUS
  <2> QED BY <2>1, ResetAlwaysTyped
<1>2. /\ ~t.stationAuthenticated /\ ~t.stationAssociated /\ t.queue = <<>>
      /\ t.current = "none" /\ t.aid = s.aid /\ t.associatedAP = s.associatedAP
      /\ t.acking = s.acking
  BY DEF Join!Station
<1>3. r = Join!StartJoin(t) BY DEF Join!ResetAlways
<1> HIDE DEF t, r
<1>4. /\ r \in Join!Station /\ r.state = "WFSCAN" /\ r.ScanStarted /\ r.timer = "Beacon_Wait"
      /\ ~r.stationAuthenticated /\ ~r.stationAssociated /\ r.queue = <<>>
      /\ r.current = "none" /\ r.aid = s.aid /\ r.associatedAP = s.associatedAP
      /\ r.acking = s.acking
  BY <1>1, <1>2, <1>3, StartJoinIs
<1>5. StationInv(r) /\ Goes(r) /\ Follows(s, r)
  BY <1>4 DEF StationInv, RequestsFit, ProgressFits, TimerFits, HandFits, Goes, Follows,
     Join!IsJoined,
       AskingStates, StartTimers
<1> QED BY <1>4, <1>5 DEF r, StationTo

\* A reset that is put off, or forgotten while a frame is in hand.
LEMMA PendingIs ==
  ASSUME NEW s \in Join!Station, StationInv(s), NEW b \in BOOLEAN,
         b \/ s.current # "none" \/ s.timer = "Beacon_Wait"
  PROVE  /\ StationTo(s, [s EXCEPT !.resetPending = b])
         /\ [s EXCEPT !.resetPending = b].current = s.current
         /\ [s EXCEPT !.resetPending = b].acking = s.acking
<1> DEFINE r == [s EXCEPT !.resetPending = b]
<1>1. r \in Join!Station BY DEF Join!Station
<1>2. /\ r.state = s.state /\ r.stationAuthenticated = s.stationAuthenticated
      /\ r.stationAssociated = s.stationAssociated /\ r.ScanStarted = s.ScanStarted
      /\ r.currentChannel = s.currentChannel /\ r.apAddr = s.apAddr
      /\ r.associatedAP = s.associatedAP /\ r.queue = s.queue /\ r.timer = s.timer
      /\ r.current = s.current /\ r.resetPending = b /\ r.aid = s.aid /\ r.acking = s.acking
  BY DEF Join!Station
<1> HIDE DEF r
<1>3. s.current \in {"none", "mgmt", "data"} BY DEF Join!Station
<1>4. StationInv(r) /\ Goes(r)
  BY <1>2, <1>3 DEF StationInv, RequestsFit, ProgressFits, TimerFits, HandFits, Goes,
     Join!IsJoined,
       AskingStates, StartTimers, Towards, Join!AuthenticateFrame, Join!AssociateRequestFrame,
       Join!ReassociateRequestFrame
<1>5. Follows(s, r)
  BY <1>2 DEF Follows, Asked, Join!IsJoined
<1> QED BY <1>1, <1>2, <1>4, <1>5 DEF r, StationTo

\* A reset, at once or later.
LEMMA ResetIs ==
  ASSUME Join!JoinAssumption, ScanType # "active", NEW s \in Join!Station, StationInv(s)
  PROVE  StationTo(s, Join!Reset(s))
BY ResetAlwaysIs, PendingIs DEF Join!Reset

\* The reset that is due is made, or refused once more and forgotten: then a frame is in hand.
LEMMA ResetIfPendingIs ==
  ASSUME Join!JoinAssumption, ScanType # "active", NEW s \in Join!Station, StationInv(s),
         Goes(s), ~s.acking
  PROVE  /\ StationTo(s, Join!ResetIfPending(s))
         /\ Join!ResetIfPending(s).current = s.current /\ ~Join!ResetIfPending(s).acking
<1>1. CASE ~s.resetPending
  BY <1>1 DEF Join!ResetIfPending, StationTo, Follows
<1>2. CASE s.resetPending /\ s.current = "none"
  <2> DEFINE t == Join!ResetAlways(s)
             r == [t EXCEPT !.resetPending = FALSE]
  <2>1. Join!ResetIfPending(s) = r BY <1>2 DEF Join!ResetIfPending, Join!Reset
  <2>2. StationTo(s, t) /\ t.current = "none" /\ ~t.acking BY <1>2, ResetAlwaysIs
  <2> HIDE DEF t
  <2>3. t \in Join!Station /\ StationInv(t) /\ t.timer = "Beacon_Wait" /\ Follows(s, t)
    BY <1>2, <2>2, ResetAlwaysIs DEF t, StationTo
  <2>4. StationTo(t, r) /\ r.current = t.current /\ r.acking = t.acking BY <2>3, PendingIs
  <2> QED BY <1>2, <2>1, <2>2, <2>3, <2>4, FollowsOn DEF StationTo
<1>3. CASE s.resetPending /\ s.current # "none"
  <2> DEFINE t == [s EXCEPT !.resetPending = TRUE]
             r == [t EXCEPT !.resetPending = FALSE]
  <2>1. Join!ResetIfPending(s) = r BY <1>3 DEF Join!ResetIfPending, Join!Reset
  <2>2. r = [s EXCEPT !.resetPending = FALSE] BY DEF Join!Station
  <2> QED BY <1>3, <2>1, <2>2, PendingIs
<1> QED BY <1>1, <1>2, <1>3

\* A joined station that scans again has no request left in its queue.
LEMMA RescanIfWeakIs ==
  ASSUME Join!JoinAssumption, ScanType # "active", NEW s \in Join!Station, StationInv(s),
         Goes(s), ~s.acking
  PROVE  /\ StationTo(s, Join!RescanIfWeak(s))
         /\ Join!RescanIfWeak(s).current = s.current /\ ~Join!RescanIfWeak(s).acking
<1> DEFINE r == Join!StartJoin(s)
<1>1. CASE Join!RescanIfWeak(s) = s BY <1>1 DEF StationTo, Follows
<1>2. CASE /\ s.stationAssociated /\ ~s.acking /\ s.current = "none" /\ ~s.ScanStarted
           /\ Join!RescanIfWeak(s) = r
  <2>1. /\ r \in Join!Station /\ r.state = "WFSCAN" /\ r.ScanStarted /\ r.timer = "Beacon_Wait"
        /\ r.queue = s.queue /\ r.current = s.current /\ r.aid = s.aid
        /\ r.associatedAP = s.associatedAP
        /\ r.stationAuthenticated = s.stationAuthenticated
        /\ r.stationAssociated = s.stationAssociated /\ r.acking = s.acking
    BY StartJoinIs
  <2> HIDE DEF r
  <2>2. s.queue = <<>> /\ s.stationAuthenticated /\ s.associatedAP \in APs
    <3>1. s.state \in {"IDLE", "WFSCAN", "JOINED"}
      BY <1>2 DEF Join!Station, Join!ManagementStates, StationInv, ProgressFits,
         AskingStates
    <3> QED BY <1>2, <3>1 DEF StationInv, ProgressFits, RequestsFit
  <2>3. StationInv(r) /\ Goes(r) /\ Follows(s, r)
    BY <1>2, <2>1, <2>2 DEF StationInv, RequestsFit, ProgressFits, TimerFits, HandFits,
       Goes, Follows,
         Join!IsJoined, AskingStates, StartTimers
  <2> QED BY <1>2, <2>1, <2>3 DEF StationTo
<1> QED BY <1>1, <1>2 DEF Join!RescanIfWeak

\* A request is taken into hand.
LEMMA TakeIs ==
  ASSUME NEW s \in Join!Station, StationInv(s), Goes(s)
  PROVE  StationTo(s, Join!Take(s))
<1> DEFINE r == [s EXCEPT !.current = "mgmt"]
<1>1. CASE Join!Take(s) = s BY <1>1 DEF StationTo, Follows
<1>2. CASE Join!Take(s) = r /\ s.current = "none" /\ s.queue # <<>>
  <2>1. r \in Join!Station BY DEF Join!Station
  <2>2. /\ r.state = s.state /\ r.stationAuthenticated = s.stationAuthenticated
        /\ r.stationAssociated = s.stationAssociated /\ r.ScanStarted = s.ScanStarted
        /\ r.currentChannel = s.currentChannel /\ r.apAddr = s.apAddr
        /\ r.associatedAP = s.associatedAP /\ r.queue = s.queue /\ r.timer = s.timer
        /\ r.current = "mgmt" /\ r.resetPending = s.resetPending /\ r.aid = s.aid
    BY DEF Join!Station
  <2> HIDE DEF r
  <2>3. s.state # "IDLE" BY <1>2 DEF StationInv, RequestsFit
  <2>4. StationInv(r) /\ Goes(r)
    BY <1>2, <2>2, <2>3 DEF StationInv, RequestsFit, ProgressFits, TimerFits, HandFits,
       Goes, Join!IsJoined,
         AskingStates, StartTimers, Towards, Join!AuthenticateFrame, Join!AssociateRequestFrame,
         Join!ReassociateRequestFrame
  <2>5. Follows(s, r) BY <1>2, <2>2 DEF Follows, Asked, Join!IsJoined
  <2> QED BY <1>2, <2>1, <2>4, <2>5 DEF StationTo
<1> QED BY <1>1, <1>2 DEF Join!Take

\* CheckForOutgoingPacket.
LEMMA CheckIs ==
  ASSUME Join!JoinAssumption, ScanType # "active", NEW s \in Join!Station, StationInv(s),
         Goes(s), ~s.acking
  PROVE  StationTo(s, Join!CheckForOutgoingPacket(s))
<1> DEFINE t == Join!ResetIfPending(s)
           u == Join!RescanIfWeak(t)
<1>1. StationTo(s, t) /\ ~t.acking BY ResetIfPendingIs
<1>2. StationTo(t, u) BY <1>1, RescanIfWeakIs DEF StationTo
<1>3. StationTo(u, Join!Take(u)) BY <1>2, TakeIs DEF StationTo
<1>4. Join!CheckForOutgoingPacket(s) = Join!Take(u) BY DEF Join!CheckForOutgoingPacket
<1> HIDE DEF t, u
<1> QED BY <1>1, <1>2, <1>3, <1>4, FollowsOn DEF StationTo

\* What an operation that touches nothing of the join leaves.
Alike(s, r) ==
  /\ r.state = s.state /\ r.stationAuthenticated = s.stationAuthenticated
  /\ r.stationAssociated = s.stationAssociated /\ r.ScanStarted = s.ScanStarted
  /\ r.currentChannel = s.currentChannel /\ r.apAddr = s.apAddr
  /\ r.associatedAP = s.associatedAP /\ r.queue = s.queue /\ r.timer = s.timer
  /\ r.current = s.current /\ r.resetPending = s.resetPending /\ r.aid = s.aid

\* ... keeps everything.
LEMMA AlikeIs ==
  ASSUME NEW s, NEW r \in Join!Station, Alike(s, r), StationInv(s), Goes(s)
  PROVE  StationTo(s, r)
<1>1. StationInv(r) /\ Goes(r)
  BY DEF Alike, StationInv, RequestsFit, ProgressFits, TimerFits, HandFits, Goes,
     Join!IsJoined,
         AskingStates, StartTimers, Towards, Join!AuthenticateFrame, Join!AssociateRequestFrame,
         Join!ReassociateRequestFrame
<1>2. Follows(s, r) BY DEF Alike, Follows, Asked, Join!IsJoined
<1> QED BY <1>1, <1>2 DEF StationTo

\* What a timer leaves for which no answer is on its way.
Apart(s, r) ==
  /\ r \in Join!Station /\ StationInv(r) /\ Goes(r)
  /\ r.aid = s.aid /\ r.associatedAP = s.associatedAP
  /\ Join!IsJoined(r) => Join!IsJoined(s)
  /\ r.state # "JOINED"

\* ... says nothing of the access points that could be wrong.
LEMMA ApartIs ==
  ASSUME NEW s, NEW r, NEW ans, NEW ids, NEW gone, Apart(s, r),
         \A a \in APs : ans[a] = <<>>, ListsFit(s, ids, gone)
  PROVE  AnswersFit(r, ans, ids) /\ ListsFit(r, ids, gone)
<1>1. AnswersFit(r, ans, ids) BY DEF AnswersFit
<1>2. ListsFit(r, ids, gone) BY DEF Apart, ListsFit, Join!IsJoined
<1> QED BY <1>1, <1>2

\* A timer that ends.
LEMMA TimerEnds ==
  ASSUME Join!JoinAssumption, NEW s \in Join!Station
  PROVE  /\ Join!StartTimer(s, "none") \in Join!Station
         /\ Join!StartTimer(s, "none").state = s.state
         /\ Join!StartTimer(s, "none").stationAuthenticated = s.stationAuthenticated
         /\ Join!StartTimer(s, "none").stationAssociated = s.stationAssociated
         /\ Join!StartTimer(s, "none").ScanStarted = s.ScanStarted
         /\ Join!StartTimer(s, "none").currentChannel = s.currentChannel
         /\ Join!StartTimer(s, "none").apAddr = s.apAddr
         /\ Join!StartTimer(s, "none").associatedAP = s.associatedAP
         /\ Join!StartTimer(s, "none").queue = s.queue
         /\ Join!StartTimer(s, "none").timer = "none"
         /\ Join!StartTimer(s, "none").current = s.current
         /\ Join!StartTimer(s, "none").resetPending = s.resetPending
         /\ Join!StartTimer(s, "none").aid = s.aid
<1>1. "none" \in Join!Timers BY JoinValues
<1>2. [s EXCEPT !.timer = "none"] \in Join!Station BY <1>1 DEF Join!Station
<1> QED BY <1>2 DEF Join!StartTimer, Join!Station

\* The end of any timer but that of the start and of a scan keeps the station's part.
LEMMA TimerEndsIs ==
  ASSUME Join!JoinAssumption, NEW s \in Join!Station, StationInv(s),
         s.timer \notin {"Enable", "Beacon_Wait"}
  PROVE  /\ StationInv(Join!StartTimer(s, "none")) /\ Follows(s, Join!StartTimer(s, "none"))
<1> DEFINE r == Join!StartTimer(s, "none")
<1>1. /\ r.state = s.state /\ r.stationAuthenticated = s.stationAuthenticated
      /\ r.stationAssociated = s.stationAssociated /\ r.ScanStarted = s.ScanStarted
      /\ r.currentChannel = s.currentChannel /\ r.apAddr = s.apAddr
      /\ r.associatedAP = s.associatedAP /\ r.queue = s.queue /\ r.timer = "none"
      /\ r.current = s.current /\ r.resetPending = s.resetPending /\ r.aid = s.aid
  BY TimerEnds
<1> HIDE DEF r
<1>2. StationInv(r)
  BY <1>1 DEF StationInv, RequestsFit, ProgressFits, TimerFits, HandFits, Join!IsJoined,
         AskingStates, StartTimers, Towards, Join!AuthenticateFrame, Join!AssociateRequestFrame,
         Join!ReassociateRequestFrame
<1>3. Follows(s, r) BY <1>1 DEF Follows, Asked, Join!IsJoined, StartTimers
<1> QED BY <1>2, <1>3 DEF r

\* The timers of requests, and of a new scan.
LEMMA AnswerTimeout ==
  ASSUME Join!JoinAssumption, ScanType # "active", NEW s \in Join!Station, StationInv(s),
         s.timer \in {"Authentication", "Association", "Reassociation", "Scan_Start"},
         NEW done,
         s.timer = "Authentication" => done = s.stationAuthenticated,
         s.timer \in {"Association", "Reassociation"} => done = s.stationAssociated,
         s.timer = "Scan_Start" => done = FALSE,
         NEW r \in Join!TimeoutOf(Join!StartTimer(s, "none"), done)
  PROVE  StationTo(s, r)
<1> DEFINE t == Join!StartTimer(s, "none")
<1>1. t \in Join!Station /\ StationInv(t) /\ Follows(s, t) BY TimerEnds, TimerEndsIs
<1>2. CASE r = t /\ done
  <2>1. Goes(t)
    BY <1>2, TimerEnds DEF Goes, StationInv, TimerFits, ProgressFits, Join!IsJoined
  <2> QED BY <1>1, <1>2, <2>1 DEF StationTo
<1>3. CASE r = Join!Reset(t)
  <2> HIDE DEF t
  <2>1. StationTo(t, r) BY <1>1, <1>3, ResetIs
  <2> QED BY <1>1, <2>1, FollowsOn DEF StationTo
<1> QED BY <1>2, <1>3 DEF Join!TimeoutOf

\* The types of a first request.
LEMMA EnqueueTyped ==
  ASSUME NEW s \in Join!Station, NEW v \in Join!ManagementStates, NEW b \in BOOLEAN,
         NEW q \in Seq([type : {"PROBE", "AUTH", "ASSOC", "REASSOC"}, to : APs \union {NoAp}]),
         NEW t \in Join!Timers
  PROVE  [s EXCEPT !.timer = t, !.ScanStarted = b, !.state = v, !.queue = q] \in Join!Station
BY DEF Join!Station

\* The types of a request.
LEMMA RequestTyped ==
  ASSUME NEW s \in Join!Station, NEW v \in Join!ManagementStates,
         NEW q \in Seq([type : {"PROBE", "AUTH", "ASSOC", "REASSOC"}, to : APs \union {NoAp}]),
         NEW t \in Join!Timers
  PROVE  [s EXCEPT !.timer = t, !.state = v, !.queue = q] \in Join!Station
BY DEF Join!Station

\* The authentication starts with an empty queue.
LEMMA AuthenticateIs ==
  ASSUME Join!JoinAssumption, NEW s \in Join!Station, StationInv(s), s.timer = "Authentication_Start"
  PROVE  Apart(s, Join!Authenticate([Join!StartTimer(s, "none") EXCEPT !.ScanStarted = FALSE]))
<1> DEFINE f == [type |-> "AUTH", to |-> s.apAddr]
           r == [s EXCEPT !.timer = "none", !.ScanStarted = FALSE, !.state = "WFAUTH",
                          !.queue = <<f>>]
<1>1. s.queue = <<>> /\ Towards(s) /\ ~s.stationAuthenticated /\ ~s.stationAssociated
      /\ s.current # "data" /\ s.apAddr \in APs
  BY DEF StationInv, TimerFits, RequestsFit, StartTimers, HandFits, Join!IsJoined, Towards
<1>2. Join!Authenticate([Join!StartTimer(s, "none") EXCEPT !.ScanStarted = FALSE]) = r
  <2> DEFINE t == [s EXCEPT !.timer = "none", !.ScanStarted = FALSE, !.state = "WFAUTH"]
  <2>1. [[Join!StartTimer(s, "none") EXCEPT !.ScanStarted = FALSE] EXCEPT !.state = "WFAUTH"] = t
    BY DEF Join!StartTimer
  <2>2. t.queue = <<>> /\ [Join!StartTimer(s, "none") EXCEPT !.ScanStarted = FALSE].apAddr = s.apAddr
    BY <1>1 DEF Join!StartTimer, Join!Station
  <2>3. Append(<<>>, f) = <<f>> OBVIOUS
  <2>4. Append(t.queue, f) = <<f>> BY <2>2, <2>3, Zenon
  <2> QED BY <2>1, <2>2, <2>4 DEF Join!Authenticate, Join!Enqueue, Join!AuthenticateFrame
<1>3. <<f>> \in Seq([type : {"PROBE", "AUTH", "ASSOC", "REASSOC"}, to : APs \union {NoAp}])
  BY DEF Join!Station
<1>4. "none" \in Join!Timers /\ "WFAUTH" \in Join!ManagementStates BY JoinValues
<1>5. r \in Join!Station BY <1>3, <1>4, EnqueueTyped
<1>6. /\ r.state = "WFAUTH" /\ r.stationAuthenticated = s.stationAuthenticated
      /\ r.stationAssociated = s.stationAssociated /\ ~r.ScanStarted
      /\ r.currentChannel = s.currentChannel /\ r.apAddr = s.apAddr
      /\ r.associatedAP = s.associatedAP /\ r.queue = <<f>> /\ r.timer = "none"
      /\ r.current = s.current /\ r.resetPending = s.resetPending /\ r.aid = s.aid
  BY DEF Join!Station
<1>7. f = Join!AuthenticateFrame(r) BY <1>6 DEF Join!AuthenticateFrame
<1> HIDE DEF r, f
<1>8. <<f>> # <<>> OBVIOUS
<1>9. StationInv(r) /\ Goes(r)
  BY <1>1, <1>6, <1>7, <1>8 DEF StationInv, RequestsFit, ProgressFits, TimerFits, HandFits,
     Goes, Join!IsJoined,
         AskingStates, StartTimers, Towards
<1> QED BY <1>1, <1>2, <1>5, <1>6, <1>9 DEF Apart, Join!IsJoined

\* So does the reassociation.
LEMMA ReassociateIs ==
  ASSUME Join!JoinAssumption, NEW s \in Join!Station, StationInv(s), s.timer = "Reassociation_Start"
  PROVE  Apart(s, Join!ReassociateRequest(Join!StartTimer(s, "none")))
<1> DEFINE f == [type |-> "REASSOC", to |-> s.apAddr]
           r == [s EXCEPT !.timer = "none", !.state = "WFREASSOC", !.queue = <<f>>]
<1>1. s.queue = <<>> /\ Towards(s) /\ s.stationAuthenticated /\ ~s.stationAssociated
      /\ s.current # "data" /\ s.apAddr \in APs /\ ~s.ScanStarted
  BY DEF StationInv, TimerFits, RequestsFit, StartTimers, HandFits, Join!IsJoined, Towards
<1>2. Join!ReassociateRequest(Join!StartTimer(s, "none")) = r
  <2> DEFINE t == [s EXCEPT !.timer = "none", !.state = "WFREASSOC"]
  <2>1. [Join!StartTimer(s, "none") EXCEPT !.state = "WFREASSOC"] = t BY DEF Join!StartTimer
  <2>2. t.queue = <<>> /\ Join!StartTimer(s, "none").apAddr = s.apAddr
    BY <1>1 DEF Join!StartTimer, Join!Station
  <2>3. Append(<<>>, f) = <<f>> OBVIOUS
  <2>4. Append(t.queue, f) = <<f>> BY <2>2, <2>3, Zenon
  <2> QED BY <2>1, <2>2, <2>4 DEF Join!ReassociateRequest, Join!Enqueue,
             Join!ReassociateRequestFrame
<1>3. <<f>> \in Seq([type : {"PROBE", "AUTH", "ASSOC", "REASSOC"}, to : APs \union {NoAp}])
  BY DEF Join!Station
<1>4. "none" \in Join!Timers /\ "WFREASSOC" \in Join!ManagementStates BY JoinValues
<1>5. r \in Join!Station BY <1>3, <1>4, RequestTyped
<1>6. /\ r.state = "WFREASSOC" /\ r.stationAuthenticated = s.stationAuthenticated
      /\ r.stationAssociated = s.stationAssociated /\ r.ScanStarted = s.ScanStarted
      /\ r.currentChannel = s.currentChannel /\ r.apAddr = s.apAddr
      /\ r.associatedAP = s.associatedAP /\ r.queue = <<f>> /\ r.timer = "none"
      /\ r.current = s.current /\ r.resetPending = s.resetPending /\ r.aid = s.aid
  BY DEF Join!Station
<1>7. f = Join!ReassociateRequestFrame(r) BY <1>6 DEF Join!ReassociateRequestFrame
<1> HIDE DEF r, f
<1>8. <<f>> # <<>> OBVIOUS
<1>9. StationInv(r) /\ Goes(r)
  BY <1>1, <1>6, <1>7, <1>8 DEF StationInv, RequestsFit, ProgressFits, TimerFits, HandFits,
     Goes, Join!IsJoined,
         AskingStates, StartTimers, Towards
<1> QED BY <1>1, <1>2, <1>5, <1>6, <1>9 DEF Apart, Join!IsJoined

\* The first scan.
LEMMA EnableIs ==
  ASSUME Join!JoinAssumption, ScanType # "active", NEW s \in Join!Station, StationInv(s),
         s.timer = "Enable"
  PROVE  StationTo(s, Join!Enable(Join!StartTimer(s, "none")))
<1> DEFINE t == [Join!StartTimer(s, "none") EXCEPT !.apAddr = NoAp]
           r == Join!StartJoin(t)
<1>1. t \in Join!Station
  <2>1. Join!StartTimer(s, "none") \in Join!Station BY TimerEnds
  <2> QED BY <2>1 DEF Join!Station
<1>2. /\ t.stationAuthenticated = s.stationAuthenticated
      /\ t.stationAssociated = s.stationAssociated /\ t.queue = s.queue
      /\ t.current = s.current /\ t.aid = s.aid /\ t.associatedAP = s.associatedAP
  BY DEF Join!Station, Join!StartTimer
<1>3. /\ s.queue = <<>> /\ ~s.stationAuthenticated /\ ~s.stationAssociated
      /\ s.current = "none"
  BY DEF StationInv, TimerFits, ProgressFits, RequestsFit, Join!IsJoined
<1> HIDE DEF t
<1>4. /\ r \in Join!Station /\ r.state = "WFSCAN" /\ r.ScanStarted /\ r.timer = "Beacon_Wait"
      /\ ~r.stationAuthenticated /\ ~r.stationAssociated /\ r.queue = <<>>
      /\ r.current = "none" /\ r.aid = s.aid /\ r.associatedAP = s.associatedAP
  BY <1>1, <1>2, <1>3, StartJoinIs
<1> HIDE DEF r
<1>5. StationInv(r) /\ Goes(r) /\ Follows(s, r)
  BY <1>4 DEF StationInv, RequestsFit, ProgressFits, TimerFits, HandFits, Goes, Follows,
     Join!IsJoined,
       AskingStates, StartTimers
<1> QED BY <1>4, <1>5 DEF StationTo, Join!Enable, t, r

\* A station whose wait for beacons is over.
LEMMA WaitOver ==
  ASSUME NEW s \in Join!Station, StationInv(s), s.timer = "Beacon_Wait"
  PROVE  /\ s.state = "WFSCAN" /\ s.ScanStarted /\ s.queue = <<>> /\ s.current = "none"
         /\ s.stationAuthenticated <=> s.stationAssociated
         /\ s.stationAssociated => s.associatedAP \in APs
         /\ s.stationAuthenticated \in BOOLEAN /\ s.stationAssociated \in BOOLEAN
<1>1. s.current \in {"none", "mgmt", "data"} BY DEF Join!Station
<1>2. s.stationAuthenticated \in BOOLEAN /\ s.stationAssociated \in BOOLEAN BY
                                                                               DEF Join!Station
<1> QED BY <1>1, <1>2 DEF StationInv, RequestsFit, ProgressFits, TimerFits, HandFits

\* The channel after a channel.
LEMMA ChannelAfter ==
  ASSUME Join!JoinAssumption, NEW c \in Join!Channels
  PROVE  (c + 1) % NumChannels \in Join!Channels
<1>1. NumChannels \in Nat /\ NumChannels > 0 BY JoinValues
<1>2. c \in Int /\ 0 <= c /\ c < NumChannels BY <1>1 DEF Join!Channels
<1>3. CASE c + 1 < NumChannels
  <2>1. (c + 1) % NumChannels = c + 1 BY <1>1, <1>2, <1>3
  <2> QED BY <1>1, <1>2, <1>3, <2>1 DEF Join!Channels
<1>4. CASE c + 1 = NumChannels
  <2>1. (c + 1) % NumChannels = 0 BY <1>1, <1>4
  <2> QED BY <1>1, <2>1 DEF Join!Channels
<1> QED BY <1>1, <1>2, <1>3, <1>4

\* The types of the next channel of a scan.
LEMMA ScanTyped ==
  ASSUME NEW s \in Join!Station, NEW c \in Join!Channels, NEW n \in 1 .. NumChannels,
         NEW t \in Join!Timers, NEW u \in Join!Timers
  PROVE  [s EXCEPT !.timer = t, !.currentChannel = c, !.numResults = n, !.timer = u] \in Join!Station
BY DEF Join!Station

\* The next channel is scanned.
LEMMA NextScanned ==
  ASSUME Join!JoinAssumption, NEW s \in Join!Station, StationInv(s), s.timer = "Beacon_Wait",
         s.numResults # NumChannels, NEW c \in Join!Channels
  PROVE  Apart(s, Join!StartTimer([Join!ChangeToChannel(Join!StartTimer(s, "none"), c)
                                EXCEPT !.numResults = @ + 1], "Beacon_Wait"))
<1> DEFINE n == s.numResults + 1
           r == [s EXCEPT !.timer = "none", !.currentChannel = c, !.numResults = n,
                          !.timer = "Beacon_Wait"]
<1>1. /\ s.state = "WFSCAN" /\ s.ScanStarted /\ s.queue = <<>> /\ s.current = "none"
      /\ s.stationAuthenticated <=> s.stationAssociated
      /\ s.stationAssociated => s.associatedAP \in APs
  BY WaitOver
<1>2. Join!StartTimer([Join!ChangeToChannel(Join!StartTimer(s, "none"), c) EXCEPT !.numResults = @ + 1],
                 "Beacon_Wait") = r
  BY DEF Join!StartTimer, Join!ChangeToChannel, Join!Station
<1>3. n \in 1 .. NumChannels
  <2>1. s.numResults \in 1 .. NumChannels BY DEF Join!Station
  <2> QED BY <2>1, JoinValues
<1>4. "none" \in Join!Timers /\ "Beacon_Wait" \in Join!Timers BY JoinValues
<1> HIDE DEF n
<1>5. r \in Join!Station BY <1>3, <1>4, ScanTyped
<1>6. /\ r.state = s.state /\ r.stationAuthenticated = s.stationAuthenticated
      /\ r.stationAssociated = s.stationAssociated /\ r.ScanStarted = s.ScanStarted
      /\ r.associatedAP = s.associatedAP /\ r.queue = s.queue /\ r.timer = "Beacon_Wait"
      /\ r.current = s.current /\ r.aid = s.aid
  BY DEF Join!Station
<1> HIDE DEF r
<1>7. StationInv(r) /\ Goes(r)
  BY <1>1, <1>6 DEF StationInv, RequestsFit, ProgressFits, TimerFits, HandFits, Goes,
     Join!IsJoined,
         AskingStates, StartTimers
<1> QED BY <1>1, <1>2, <1>5, <1>6, <1>7 DEF Apart, Join!IsJoined

\* The scan is completed, with an access point or without.
LEMMA ScanDone ==
  ASSUME Join!JoinAssumption, NEW s \in Join!Station, StationInv(s), s.timer = "Beacon_Wait",
         NEW best \in APs \cup {NoAp}
  PROVE  Apart(s, Join!ScanCompletedWith(Join!StartTimer(s, "none"), best))
<1> DEFINE r == Join!ScanCompletedWith(Join!StartTimer(s, "none"), best)
           x == [s EXCEPT !.timer = "none", !.ScanStarted = FALSE, !.numResults = 1]
<1>1. /\ s.state = "WFSCAN" /\ s.ScanStarted /\ s.queue = <<>> /\ s.current = "none"
      /\ s.stationAuthenticated <=> s.stationAssociated
      /\ s.stationAssociated => s.associatedAP \in APs
      /\ s.stationAuthenticated \in BOOLEAN /\ s.stationAssociated \in BOOLEAN
  BY WaitOver
<1>2. /\ 1 \in 1 .. NumChannels /\ NoAp \notin APs /\ \A a \in APs : ChannelOf[a] \in Join!Channels
      /\ "none" \in Join!Timers /\ "Scan_Start" \in Join!Timers /\ "Authentication_Start" \in Join!Timers
      /\ "Reassociation_Start" \in Join!Timers
  BY JoinValues DEF Join!JoinAssumption
<1>3. /\ x.state = s.state /\ x.stationAuthenticated = s.stationAuthenticated
      /\ x.stationAssociated = s.stationAssociated /\ ~x.ScanStarted
      /\ x.associatedAP = s.associatedAP /\ x.queue = s.queue /\ x.timer = "none"
      /\ x.current = s.current /\ x.aid = s.aid /\ x.rss = s.rss /\ x \in Join!Station
  <2>1. x \in Join!Station BY <1>2 DEF Join!Station
  <2> QED BY <2>1 DEF Join!Station
<1>4. [Join!StartTimer(s, "none") EXCEPT !.ScanStarted = FALSE, !.numResults = 1] = x
  BY DEF Join!StartTimer
<1>5. Join!StartTimer(s, "none").stationAssociated = s.stationAssociated
      /\ Join!StartTimer(s, "none").associatedAP = s.associatedAP
  BY TimerEnds
<1> HIDE DEF x
<1>6. CASE best = NoAp
  <2> DEFINE y == [x EXCEPT !.stationAssociated = FALSE, !.timer = "Scan_Start"]
  <2>1. r = y BY <1>4, <1>6 DEF Join!ScanCompletedWith, Join!StartTimer
  <2>2. /\ y \in Join!Station /\ y.state = s.state /\ ~y.stationAssociated /\ ~y.ScanStarted
        /\ y.stationAuthenticated = s.stationAuthenticated
        /\ y.queue = s.queue /\ y.timer = "Scan_Start" /\ y.current = s.current
        /\ y.aid = s.aid /\ y.associatedAP = s.associatedAP
    BY <1>2, <1>3 DEF Join!Station
  <2> HIDE DEF y
  <2>3. StationInv(y) /\ Goes(y)
    BY <1>1, <2>2 DEF StationInv, RequestsFit, ProgressFits, TimerFits, HandFits, Goes,
       Join!IsJoined,
         AskingStates, StartTimers
  <2> QED BY <1>1, <2>1, <2>2, <2>3 DEF Apart, Join!IsJoined
<1>7. CASE best # NoAp /\ ~s.stationAssociated
  <2> DEFINE y == [x EXCEPT !.apAddr = best, !.currentChannel = ChannelOf[best],
                            !.timer = "Authentication_Start"]
  <2>1. r = y
    BY <1>4, <1>5, <1>7 DEF Join!ScanCompletedWith, Join!Propose, Join!ChangeToChannel,
       Join!StartTimer
  <2>2. /\ y \in Join!Station /\ y.state = s.state /\ ~y.stationAssociated /\ ~y.ScanStarted
        /\ y.stationAuthenticated = s.stationAuthenticated
        /\ y.queue = s.queue /\ y.timer = "Authentication_Start" /\ y.current = s.current
        /\ y.aid = s.aid /\ y.associatedAP = s.associatedAP
        /\ y.apAddr = best /\ y.currentChannel = ChannelOf[best]
    BY <1>2, <1>3, <1>7 DEF Join!Station
  <2> HIDE DEF y
  <2>3. StationInv(y) /\ Goes(y)
    BY <1>1, <1>7, <2>2 DEF StationInv, RequestsFit, ProgressFits, TimerFits, HandFits,
       Goes, Join!IsJoined,
         AskingStates, StartTimers, Towards
  <2> QED BY <1>1, <2>1, <2>2, <2>3 DEF Apart, Join!IsJoined
<1>8. CASE /\ best # NoAp /\ s.stationAssociated
           /\ best # s.associatedAP /\ s.rss[best] > s.rss[s.associatedAP]
  <2> DEFINE y == [x EXCEPT !.stationAssociated = FALSE, !.apAddr = best,
                            !.currentChannel = ChannelOf[best],
                            !.timer = "Reassociation_Start"]
  <2>1. r = y
    BY <1>4, <1>5, <1>8, TimerEnds DEF Join!ScanCompletedWith, Join!Propose,
       Join!ChangeToChannel, Join!StartTimer,
         Join!Station
  <2>2. /\ y \in Join!Station /\ y.state = s.state /\ ~y.stationAssociated /\ ~y.ScanStarted
        /\ y.stationAuthenticated = s.stationAuthenticated
        /\ y.queue = s.queue /\ y.timer = "Reassociation_Start" /\ y.current = s.current
        /\ y.aid = s.aid /\ y.associatedAP = s.associatedAP
        /\ y.apAddr = best /\ y.currentChannel = ChannelOf[best]
    BY <1>2, <1>3, <1>8 DEF Join!Station
  <2> HIDE DEF y
  <2>3. StationInv(y) /\ Goes(y)
    BY <1>1, <1>8, <2>2 DEF StationInv, RequestsFit, ProgressFits, TimerFits, HandFits,
       Goes, Join!IsJoined,
         AskingStates, StartTimers, Towards
  <2> QED BY <1>1, <2>1, <2>2, <2>3 DEF Apart, Join!IsJoined
<1>9. CASE /\ best # NoAp /\ s.stationAssociated
           /\ ~(best # s.associatedAP /\ s.rss[best] > s.rss[s.associatedAP])
  <2> DEFINE y == [x EXCEPT !.currentChannel = ChannelOf[s.associatedAP],
                            !.own = s.associatedAP]
  <2>1. r = y
    BY <1>4, <1>5, <1>9, TimerEnds DEF Join!ScanCompletedWith, Join!ChangeToChannel,
       Join!StartTimer, Join!Station
  <2>2. /\ y \in Join!Station /\ y.state = s.state /\ ~y.ScanStarted
        /\ y.stationAssociated = s.stationAssociated
        /\ y.stationAuthenticated = s.stationAuthenticated
        /\ y.queue = s.queue /\ y.timer = "none" /\ y.current = s.current
        /\ y.aid = s.aid /\ y.associatedAP = s.associatedAP
        /\ y.currentChannel = ChannelOf[s.associatedAP]
    BY <1>1, <1>2, <1>3, <1>9 DEF Join!Station
  <2> HIDE DEF y
  <2>3. StationInv(y) /\ Goes(y)
    BY <1>1, <1>9, <2>2 DEF StationInv, RequestsFit, ProgressFits, TimerFits, HandFits,
       Goes, Join!IsJoined,
         AskingStates, StartTimers
  <2> QED BY <1>1, <2>1, <2>2, <2>3 DEF Apart, Join!IsJoined
<1> QED BY <1>6, <1>7, <1>8, <1>9

\* Every outcome of a wait for beacons.
LEMMA WaitIs ==
  ASSUME Join!JoinAssumption, ScanType # "active", NEW s \in Join!Station, StationInv(s),
         s.timer = "Beacon_Wait", NEW r \in Join!ScanNextChannel(Join!StartTimer(s, "none"))
  PROVE  Apart(s, r)
<1> DEFINE t == Join!StartTimer(s, "none")
<1>1. t \in Join!Station BY TimerEnds
<1>2. t.numResults = s.numResults /\ t.currentChannel = s.currentChannel
  BY DEF Join!StartTimer, Join!Station
<1>3. CASE ScanType = "disabled" \/ t.numResults = NumChannels
  <2>1. PICK best \in Join!FindBestAp(t) : r = Join!ScanCompletedWith(t, best)
    BY <1>3 DEF Join!ScanNextChannel
  <2>2. best \in APs \cup {NoAp}
    <3>1. t.measured \in SUBSET APs BY <1>1 DEF Join!Station
    <3> HIDE DEF t
    <3> QED BY <3>1 DEF Join!FindBestAp
  <2> QED BY <2>1, <2>2, ScanDone
<1>4. CASE ~(ScanType = "disabled" \/ t.numResults = NumChannels)
  <2> DEFINE c == (s.currentChannel + 1) % NumChannels
  <2>1. r = Join!StartTimer([Join!ChangeToChannel(t, c) EXCEPT !.numResults = @ + 1], "Beacon_Wait")
    BY <1>2, <1>4 DEF Join!ScanNextChannel
  <2>2. c \in Join!Channels
    <3>1. s.currentChannel \in Join!Channels BY DEF Join!Station
    <3> QED BY <3>1, ChannelAfter
  <2> HIDE DEF c
  <2> QED BY <1>2, <1>4, <2>1, <2>2, NextScanned
<1> QED BY <1>3, <1>4

\* The requests a station can have in hand.
InHand(s) ==
  \/ s.state = "WFAUTH" /\ s.queue = <<Join!AuthenticateFrame(s)>>
  \/ s.state \in {"WFASSOC", "JOINED"} /\ s.queue = <<Join!AssociateRequestFrame(s)>>
  \/ s.state = "WFASSOC" /\ s.queue = <<Join!AuthenticateFrame(s), Join!AssociateRequestFrame(s)>>
  \/ s.state \in {"WFREASSOC", "JOINED"} /\ s.queue = <<Join!ReassociateRequestFrame(s)>>

\* A management frame in hand is the request of the state.
LEMMA HandIs ==
  ASSUME NEW s \in Join!Station, StationInv(s), s.current = "mgmt"
  PROVE  InHand(s) /\ s.queue # <<>> /\ ~s.ScanStarted /\ s.apAddr \in APs
<1>1. s.state \in Join!ManagementStates /\ s.queue # <<>>
  BY DEF Join!Station, StationInv, HandFits
<1>2. s.state \in {"WFAUTH", "WFASSOC", "WFREASSOC", "JOINED"}
  BY <1>1 DEF Join!ManagementStates, StationInv, ProgressFits, RequestsFit
<1>3. InHand(s)
  BY <1>1, <1>2 DEF InHand, StationInv, RequestsFit
<1>4. ~s.ScanStarted BY <1>2 DEF StationInv, TimerFits
<1>5. s.apAddr \in APs
  BY <1>2 DEF StationInv, ProgressFits, Towards, AskingStates, Join!IsJoined
<1> QED BY <1>1, <1>3, <1>4, <1>5

\* The queue with its head taken off: at most the association request is left, behind an
\* authentication request that was sent again.
LEMMA QueueAfter ==
  ASSUME NEW s \in Join!Station, InHand(s)
  PROVE  /\ Head(s.queue).to = s.apAddr
         /\ Head(s.queue).type \in {"AUTH", "ASSOC", "REASSOC"}
         /\ s.state \in {"WFAUTH", "WFASSOC", "WFREASSOC", "JOINED"}
         /\ s.state = "WFAUTH" => Head(s.queue).type = "AUTH"
         /\ s.state \in {"WFASSOC", "WFREASSOC"} /\ Head(s.queue).type # "AUTH" =>
              Len(s.queue) = 1
         /\ \/ Tail(s.queue) = <<>>
            \/ /\ s.state = "WFASSOC" /\ Head(s.queue).type = "AUTH" /\ Len(s.queue) = 2
               /\ Tail(s.queue) = <<Join!AssociateRequestFrame(s)>>
         /\ Head(s.queue).type = "AUTH" => s.state = "WFAUTH" \/ Tail(s.queue) # <<>>
<1> DEFINE f == Join!AuthenticateFrame(s)
           g == Join!AssociateRequestFrame(s)
           h == Join!ReassociateRequestFrame(s)
<1>1. /\ f.type = "AUTH" /\ f.to = s.apAddr /\ g.type = "ASSOC" /\ g.to = s.apAddr
      /\ h.type = "REASSOC" /\ h.to = s.apAddr
  BY DEF Join!AuthenticateFrame, Join!AssociateRequestFrame, Join!ReassociateRequestFrame
<1> HIDE DEF f, g, h
<1>2. /\ Head(<<f>>) = f /\ Tail(<<f>>) = <<>> /\ Len(<<f>>) = 1
      /\ Head(<<g>>) = g /\ Tail(<<g>>) = <<>> /\ Len(<<g>>) = 1
      /\ Head(<<h>>) = h /\ Tail(<<h>>) = <<>> /\ Len(<<h>>) = 1
      /\ Head(<<f, g>>) = f /\ Tail(<<f, g>>) = <<g>> /\ Len(<<f, g>>) = 2
      /\ <<g>> # <<>>
  OBVIOUS
<1>3. \/ s.state = "WFAUTH" /\ s.queue = <<f>>
      \/ s.state \in {"WFASSOC", "JOINED"} /\ s.queue = <<g>>
      \/ s.state = "WFASSOC" /\ s.queue = <<f, g>>
      \/ s.state \in {"WFREASSOC", "JOINED"} /\ s.queue = <<h>>
  BY DEF InHand, f, g, h
<1>4. CASE s.state = "WFAUTH" /\ s.queue = <<f>> BY <1>1, <1>2, <1>4
<1>5. CASE s.state \in {"WFASSOC", "JOINED"} /\ s.queue = <<g>> BY <1>1, <1>2, <1>5
<1>6. CASE s.state = "WFASSOC" /\ s.queue = <<f, g>> BY <1>1, <1>2, <1>6 DEF g
<1>7. CASE s.state \in {"WFREASSOC", "JOINED"} /\ s.queue = <<h>> BY <1>1, <1>2, <1>7
<1> QED BY <1>3, <1>4, <1>5, <1>6, <1>7

\* A request leaves the queue: it is answered for, or it is given up.
LEMMA DequeuedIs ==
  ASSUME Join!JoinAssumption, NEW s \in Join!Station, StationInv(s), s.current = "mgmt", ~s.acking,
         NEW r \in Join!Station,
         r.state = s.state, r.stationAuthenticated = s.stationAuthenticated,
         r.stationAssociated = s.stationAssociated, r.ScanStarted = s.ScanStarted,
         r.currentChannel = s.currentChannel, r.apAddr = s.apAddr,
         r.associatedAP = s.associatedAP, r.queue = Tail(s.queue),
         r.current = "none", r.aid = s.aid,
         \/ /\ r.resetPending = s.resetPending
            /\ r.timer = Join!ResponseTimer[Head(s.queue).type]
         \/ r.resetPending /\ r.timer = s.timer
  PROVE  StationInv(r) /\ Goes(r) /\ Follows(s, r)
<1>1. InHand(s) /\ s.queue # <<>> /\ ~s.ScanStarted /\ s.apAddr \in APs BY HandIs
<1>2. /\ s.state \in {"WFAUTH", "WFASSOC", "WFREASSOC", "JOINED"}
      /\ \/ r.queue = <<>>
         \/ /\ s.state = "WFASSOC" /\ Head(s.queue).type = "AUTH" /\ Len(s.queue) = 2
            /\ r.queue = <<Join!AssociateRequestFrame(s)>>
      /\ Head(s.queue).type = "AUTH" => s.state = "WFAUTH" \/ r.queue # <<>>
      /\ Head(s.queue).type \in {"AUTH", "ASSOC", "REASSOC"}
  BY <1>1, QueueAfter
<1>3. /\ Join!ResponseTimer["AUTH"] = "Authentication" /\ Join!ResponseTimer["ASSOC"] = "Association"
      /\ Join!ResponseTimer["REASSOC"] = "Reassociation"
  BY DEF Join!ResponseTimer
<1>4. Join!AssociateRequestFrame(r) = Join!AssociateRequestFrame(s) BY
                                                                       DEF Join!AssociateRequestFrame
<1>5. RequestsFit(r) BY <1>2, <1>4 DEF RequestsFit
<1>6. ProgressFits(r)
  BY <1>1 DEF StationInv, ProgressFits, Towards, Join!IsJoined, AskingStates
<1>7. TimerFits(r)
  <2>1. s.timer \notin {"Enable", "Beacon_Wait"} /\ s.timer \notin StartTimers
    BY <1>1, <1>2 DEF StationInv, TimerFits
  <2>2. s.timer # "Active_Scan_Short" /\ s.timer # "Active_Scan_Long" BY DEF StationInv,
                                                                         TimerFits
  <2>3. CASE r.resetPending /\ r.timer = s.timer
    BY <1>1, <1>2, <2>1, <2>2, <2>3 DEF TimerFits, StartTimers
  <2>4. CASE r.timer = Join!ResponseTimer[Head(s.queue).type]
    <3>1. r.timer \in {"Authentication", "Association", "Reassociation"}
          /\ (r.timer = "Authentication" => Head(s.queue).type = "AUTH")
      BY <1>2, <1>3, <2>4
    <3>2. s.state = "WFAUTH" => ~s.stationAuthenticated BY DEF StationInv, ProgressFits
    <3> QED BY <1>1, <1>2, <3>1, <3>2 DEF TimerFits, StartTimers
  <2> QED BY <2>3, <2>4
<1>8. HandFits(r) BY DEF HandFits
<1>9. Goes(r) BY <1>2, <1>3 DEF Goes
<1>10. Follows(s, r)
  <2>1. r.timer \notin StartTimers
    <3>1. s.timer \notin StartTimers BY <1>1, <1>2 DEF StationInv, TimerFits
    <3> QED BY <1>2, <1>3, <3>1 DEF StartTimers
  <2>2. Asked(s) => Asked(r)
    <3>1. CASE r.queue = <<>> BY <3>1 DEF Asked
    <3>2. CASE Len(s.queue) = 2 BY <1>1, <3>2 DEF Asked
    <3> QED BY <1>2, <3>1, <3>2
  <2> QED BY <1>1, <2>1, <2>2 DEF Follows, Join!IsJoined
<1> QED BY <1>5, <1>6, <1>7, <1>8, <1>9, <1>10 DEF StationInv

\* The types of a queue that loses its head.
LEMMA DequeuedTyped ==
  ASSUME NEW s \in Join!Station, NEW t \in Join!Timers, NEW b \in BOOLEAN,
         NEW q \in Seq([type : {"PROBE", "AUTH", "ASSOC", "REASSOC"}, to : APs \union {NoAp}])
  PROVE  /\ [s EXCEPT !.queue = q, !.current = "none", !.timer = t] \in Join!Station
         /\ [s EXCEPT !.resetPending = b, !.queue = q, !.current = "none"] \in Join!Station
BY DEF Join!Station

\* A request that was acknowledged.
LEMMA DoneIs ==
  ASSUME Join!JoinAssumption, ScanType # "active", NEW s \in Join!Station, StationInv(s),
         s.current = "mgmt", ~s.acking
  PROVE  StationTo(s, Join!Done(s, Join!ResponseTimer[Head(s.queue).type]))
<1> DEFINE q == Tail(s.queue)
           t == Join!ResponseTimer[Head(s.queue).type]
           r == [s EXCEPT !.queue = q, !.current = "none", !.timer = t]
<1>1. Head(s.queue).type \in {"AUTH", "ASSOC", "REASSOC"} /\ s.queue # <<>>
  BY HandIs, QueueAfter
<1>2. t \in Join!Timers
  BY <1>1, JoinValues DEF Join!ResponseTimer
<1>3. q \in Seq([type : {"PROBE", "AUTH", "ASSOC", "REASSOC"}, to : APs \union {NoAp}])
  BY <1>1 DEF Join!Station
<1>4. Join!StartTimer(Join!Dequeued(s), t) = r BY DEF Join!StartTimer, Join!Dequeued
<1> HIDE DEF q, t
<1>5. r \in Join!Station BY <1>2, <1>3, DequeuedTyped
<1>6. /\ r.state = s.state /\ r.stationAuthenticated = s.stationAuthenticated
      /\ r.stationAssociated = s.stationAssociated /\ r.ScanStarted = s.ScanStarted
      /\ r.currentChannel = s.currentChannel /\ r.apAddr = s.apAddr
      /\ r.associatedAP = s.associatedAP /\ r.queue = q
      /\ r.current = "none" /\ r.aid = s.aid /\ r.resetPending = s.resetPending
      /\ r.timer = t /\ r.acking = s.acking
  BY DEF Join!Station
<1> HIDE DEF r
<1>7. StationInv(r) /\ Goes(r) /\ Follows(s, r) BY <1>5, <1>6, DequeuedIs DEF q, t
<1>8. StationTo(r, Join!CheckForOutgoingPacket(r)) BY <1>5, <1>6, <1>7, CheckIs
<1>9. Join!Done(s, t) = Join!CheckForOutgoingPacket(r) BY <1>4 DEF Join!Done
<1> QED BY <1>7, <1>8, <1>9, FollowsOn DEF StationTo, t

\* A request that was given up: the reset comes at once.
LEMMA DroppedIs ==
  ASSUME Join!JoinAssumption, ScanType # "active", NEW s \in Join!Station, StationInv(s),
         s.current = "mgmt", ~s.acking
  PROVE  StationTo(s, Join!CheckForOutgoingPacket(Join!Dequeued(Join!InformManagementOfPktDrop(s))))
<1> DEFINE q == Tail(s.queue)
           r == [s EXCEPT !.resetPending = TRUE, !.queue = q, !.current = "none"]
<1>1. s.queue # <<>> BY HandIs
<1>2. q \in Seq([type : {"PROBE", "AUTH", "ASSOC", "REASSOC"}, to : APs \union {NoAp}])
  BY <1>1 DEF Join!Station
<1>3. Join!Dequeued(Join!InformManagementOfPktDrop(s)) = r
  <2>1. Join!InformManagementOfPktDrop(s) = [s EXCEPT !.resetPending = TRUE]
    BY DEF Join!InformManagementOfPktDrop, Join!Reset
  <2>2. [s EXCEPT !.resetPending = TRUE].queue = s.queue BY DEF Join!Station
  <2> QED BY <2>1, <2>2 DEF Join!Dequeued
<1> HIDE DEF q
<1>4. r \in Join!Station
  <2>1. "none" \in Join!Timers BY JoinValues
  <2> QED BY <1>2, <2>1, DequeuedTyped
<1>5. /\ r.state = s.state /\ r.stationAuthenticated = s.stationAuthenticated
      /\ r.stationAssociated = s.stationAssociated /\ r.ScanStarted = s.ScanStarted
      /\ r.currentChannel = s.currentChannel /\ r.apAddr = s.apAddr
      /\ r.associatedAP = s.associatedAP /\ r.queue = q
      /\ r.current = "none" /\ r.aid = s.aid /\ r.resetPending
      /\ r.timer = s.timer /\ r.acking = s.acking
  BY DEF Join!Station
<1> HIDE DEF r
<1>6. StationInv(r) /\ Goes(r) /\ Follows(s, r) BY <1>4, <1>5, DequeuedIs DEF q
<1>7. StationTo(r, Join!CheckForOutgoingPacket(r)) BY <1>4, <1>5, <1>6, CheckIs
<1> QED BY <1>3, <1>6, <1>7, FollowsOn DEF StationTo

\* Appending to a queue of one at most.
LEMMA OneMore ==
  ASSUME NEW f, NEW g
  PROVE  Append(<<>>, g) = <<g>> /\ Append(<<f>>, g) = <<f, g>>
<1>1. Append(<<>>, g) = <<g>> OBVIOUS
<1> DEFINE S == {f, g}
<1>2. <<f>> \in Seq(S) /\ <<f, g>> \in Seq(S) /\ g \in S OBVIOUS
<1> HIDE DEF S
<1>3. /\ Append(<<f>>, g) \in Seq(S) /\ Len(Append(<<f>>, g)) = Len(<<f>>) + 1
      /\ \A i \in 1 .. Len(<<f>>) : Append(<<f>>, g)[i] = <<f>>[i]
      /\ Append(<<f>>, g)[Len(<<f>>) + 1] = g
  BY <1>2, AppendProperties
<1>4. /\ Len(<<f>>) = 1 /\ <<f>>[1] = f /\ Len(<<f, g>>) = 2
      /\ <<f, g>>[1] = f /\ <<f, g>>[2] = g
  OBVIOUS
<1>5. /\ Len(Append(<<f>>, g)) = 2 /\ Append(<<f>>, g)[1] = f /\ Append(<<f>>, g)[2] = g
  BY <1>3, <1>4
<1>6. \A i \in 1 .. Len(Append(<<f>>, g)) : Append(<<f>>, g)[i] = <<f, g>>[i]
  <2>1. \A i \in 1 .. 2 : i = 1 \/ i = 2 OBVIOUS
  <2> QED BY <1>4, <1>5, <2>1
<1>7. Append(<<f>>, g) = <<f, g>> BY <1>2, <1>3, <1>4, <1>5, <1>6, SeqEqual, Zenon
<1> QED BY <1>1, <1>7

\* An answer is taken: the station goes on to the next request, or is joined.
LEMMA AuthenticatedIs ==
  ASSUME Join!JoinAssumption, NEW s \in Join!Station, StationInv(s), s.state = "WFAUTH"
  PROVE  LET r == Join!AuthenticationCompleted([s EXCEPT !.acking = TRUE])
         IN  /\ r \in Join!Station /\ StationInv(r) /\ Goes(r)
             /\ r.state = "WFASSOC" /\ ~r.stationAssociated /\ r.timer = s.timer
<1> DEFINE g == Join!AssociateRequestFrame(s)
           q == Append(s.queue, g)
           t == [s EXCEPT !.acking = TRUE, !.stationAuthenticated = TRUE,
                          !.state = "AUTH_FINISHED", !.state = "WFASSOC"]
           r == [t EXCEPT !.queue = q]
<1>1. /\ Towards(s) /\ ~s.stationAssociated /\ ~s.stationAuthenticated /\ ~s.ScanStarted
      /\ s.queue = <<>> \/ s.queue = <<Join!AuthenticateFrame(s)>>
      /\ s.current # "data"
  BY DEF StationInv, ProgressFits, RequestsFit, TimerFits, HandFits, Join!IsJoined,
     AskingStates
<1>2. "WFASSOC" \in Join!ManagementStates /\ "AUTH_FINISHED" \in Join!ManagementStates BY JoinValues
<1>3. t \in Join!Station BY <1>2 DEF Join!Station
<1>4. /\ t.state = "WFASSOC" /\ t.stationAuthenticated
      /\ t.stationAssociated = s.stationAssociated /\ t.ScanStarted = s.ScanStarted
      /\ t.currentChannel = s.currentChannel /\ t.apAddr = s.apAddr
      /\ t.associatedAP = s.associatedAP /\ t.queue = s.queue /\ t.timer = s.timer
      /\ t.current = s.current /\ t.resetPending = s.resetPending /\ t.aid = s.aid
  BY DEF Join!Station
<1>5. Join!AuthenticationCompleted([s EXCEPT !.acking = TRUE]) = r
  <2>1. [[s EXCEPT !.acking = TRUE] EXCEPT !.stationAuthenticated = TRUE,
           !.state = "AUTH_FINISHED"] =
        [s EXCEPT !.acking = TRUE, !.stationAuthenticated = TRUE, !.state = "AUTH_FINISHED"]
    OBVIOUS
  <2>2. /\ [s EXCEPT !.acking = TRUE].stationAssociated = s.stationAssociated
        /\ [s EXCEPT !.acking = TRUE, !.stationAuthenticated = TRUE,
                     !.state = "AUTH_FINISHED"].apAddr = s.apAddr
    BY DEF Join!Station
  <2> QED BY <1>1, <1>4, <2>1, <2>2 DEF Join!AuthenticationCompleted,
             Join!AssociateRequest, Join!Enqueue,
         Join!AssociateRequestFrame
<1>6. /\ g \in [type : {"PROBE", "AUTH", "ASSOC", "REASSOC"}, to : APs \union {NoAp}]
      /\ s.queue \in Seq([type : {"PROBE", "AUTH", "ASSOC", "REASSOC"}, to : APs \union {NoAp}])
  BY <1>1 DEF Join!AssociateRequestFrame, Towards, Join!Station
<1>7. q \in Seq([type : {"PROBE", "AUTH", "ASSOC", "REASSOC"}, to : APs \union {NoAp}])
  BY <1>6
<1> HIDE DEF t
<1>8. r \in Join!Station BY <1>3, <1>7 DEF Join!Station
<1>9. /\ r.state = "WFASSOC" /\ r.stationAuthenticated
      /\ r.stationAssociated = s.stationAssociated /\ r.ScanStarted = s.ScanStarted
      /\ r.currentChannel = s.currentChannel /\ r.apAddr = s.apAddr
      /\ r.associatedAP = s.associatedAP /\ r.queue = q /\ r.timer = s.timer
      /\ r.current = s.current /\ r.resetPending = s.resetPending /\ r.aid = s.aid
  BY <1>3, <1>4 DEF Join!Station
<1>10. q = <<g>> \/ q = <<Join!AuthenticateFrame(s), g>>
  <2> DEFINE f == Join!AuthenticateFrame(s)
  <2> HIDE DEF f, g
  <2>1. Append(<<>>, g) = <<g>> /\ Append(<<f>>, g) = <<f, g>> BY OneMore
  <2> QED BY <1>1, <2>1 DEF f
<1>11. q # <<>>
  <2> DEFINE f == Join!AuthenticateFrame(s)
  <2> HIDE DEF f, g, q
  <2>1. <<g>> # <<>> /\ <<f, g>> # <<>> OBVIOUS
  <2> QED BY <1>10, <2>1 DEF f
<1>12. Join!AuthenticateFrame(r) = Join!AuthenticateFrame(s) /\ Join!AssociateRequestFrame(r) = g
  BY <1>9 DEF Join!AuthenticateFrame, Join!AssociateRequestFrame
<1> HIDE DEF r, q, g
<1>13. s.timer \notin StartTimers /\ s.timer # "Enable" /\ s.timer # "Beacon_Wait"
       /\ s.timer # "Active_Scan_Short" /\ s.timer # "Active_Scan_Long"
  BY <1>1 DEF StationInv, TimerFits
<1>14. StationInv(r) /\ Goes(r)
  BY <1>1, <1>9, <1>10, <1>11, <1>12, <1>13 DEF StationInv, RequestsFit, ProgressFits,
     TimerFits, HandFits, Goes,
       Join!IsJoined, AskingStates, StartTimers, Towards
<1> QED BY <1>1, <1>5, <1>8, <1>9, <1>14

\* ... the association or the reassociation.
LEMMA JoinedIs ==
  ASSUME Join!JoinAssumption, NEW s \in Join!Station, StationInv(s),
         s.state \in {"WFASSOC", "WFREASSOC"}, Asked(s), NEW i \in 1 .. MaxAid
  PROVE  LET r == Join!AssociationCompleted([[s EXCEPT !.acking = TRUE]
                                           EXCEPT !.stationAssociated = TRUE, !.aid = i])
         IN  /\ r \in Join!Station /\ StationInv(r) /\ Goes(r)
             /\ r.state = "JOINED" /\ r.associatedAP = s.apAddr /\ r.apAddr = s.apAddr
             /\ r.aid = i /\ r.timer = s.timer
<1> DEFINE t == [s EXCEPT !.acking = TRUE, !.stationAssociated = TRUE, !.aid = i]
           r == [t EXCEPT !.associatedAP = s.apAddr, !.own = s.apAddr, !.state = "JOINED"]
<1>1. /\ Towards(s) /\ ~s.stationAssociated /\ s.stationAuthenticated /\ ~s.ScanStarted
      /\ s.current # "data"
  BY DEF StationInv, ProgressFits, TimerFits, HandFits, Join!IsJoined, AskingStates
<1>2. "JOINED" \in Join!ManagementStates /\ i \in 0 .. MaxAid BY JoinValues
<1>3. t \in Join!Station BY <1>2 DEF Join!Station
<1>4. t.apAddr = s.apAddr BY DEF Join!Station
<1>5. Join!AssociationCompleted([[s EXCEPT !.acking = TRUE]
                               EXCEPT !.stationAssociated = TRUE, !.aid = i]) = r
  BY <1>4 DEF Join!AssociationCompleted, Join!JoinCompleted
<1>6. s.apAddr \in APs \cup {NoAp} BY DEF Join!Station
<1>7. r \in Join!Station
  <2> HIDE DEF t
  <2> QED BY <1>2, <1>3, <1>6 DEF Join!Station
<1>8. /\ r.state = "JOINED" /\ r.stationAuthenticated = s.stationAuthenticated
      /\ r.stationAssociated /\ r.ScanStarted = s.ScanStarted
      /\ r.currentChannel = s.currentChannel /\ r.apAddr = s.apAddr
      /\ r.associatedAP = s.apAddr /\ r.queue = s.queue /\ r.timer = s.timer
      /\ r.current = s.current /\ r.resetPending = s.resetPending /\ r.aid = i
  BY DEF Join!Station
<1> HIDE DEF t, r
<1>9. /\ Join!AssociateRequestFrame(r) = Join!AssociateRequestFrame(s)
      /\ Join!ReassociateRequestFrame(r) = Join!ReassociateRequestFrame(s)
  BY <1>8 DEF Join!AssociateRequestFrame, Join!ReassociateRequestFrame
<1>10. \/ s.queue = <<>>
       \/ /\ s.current = "mgmt"
          /\ \/ s.queue = <<Join!AssociateRequestFrame(s)>>
             \/ s.queue = <<Join!ReassociateRequestFrame(s)>>
  <2>1. CASE s.queue = <<>> BY <2>1
  <2>2. CASE Len(s.queue) = 1 /\ s.current = "mgmt"
    <3>1. InHand(s) BY <2>2, HandIs
    <3>2. s.queue # <<Join!AuthenticateFrame(s), Join!AssociateRequestFrame(s)>>
      <4>1. Len(<<Join!AuthenticateFrame(s), Join!AssociateRequestFrame(s)>>) = 2 OBVIOUS
      <4> QED BY <2>2, <4>1
    <3> QED BY <2>2, <3>1, <3>2 DEF InHand
  <2> QED BY <2>1, <2>2 DEF Asked
<1>11. s.timer \notin StartTimers /\ s.timer # "Enable" /\ s.timer # "Beacon_Wait"
       /\ s.timer # "Active_Scan_Short" /\ s.timer # "Active_Scan_Long"
  BY <1>1 DEF StationInv, TimerFits
<1>12. s.current = "mgmt" => s.queue # <<>> BY DEF StationInv, HandFits
<1>13. StationInv(r) /\ Goes(r)
  BY <1>1, <1>8, <1>9, <1>10, <1>11, <1>12 DEF StationInv, RequestsFit, ProgressFits,
     TimerFits, HandFits, Goes,
       Join!IsJoined, AskingStates, StartTimers, Towards
<1> QED BY <1>5, <1>7, <1>8, <1>13

\* The answers of the access points.
AnswerFrame == [type : {"PROBE", "AUTH", "ASSOC", "REASSOC"}, aid : 0 .. MaxAid]

\* The types of what is outside of the station.
ApTypes(ans, ids, gone, lev) ==
  /\ ans \in [APs -> Seq(AnswerFrame)]
  /\ ids \in [APs -> 0 .. MaxAid]
  /\ gone \in [APs -> BOOLEAN]
  /\ lev \in [APs -> Levels]

\* The station's part of the invariant.
StationPart(s) == s \in Join!Station /\ StationInv(s) /\ Goes(s)

\* The inductive invariant.
JoinInv ==
  /\ StationPart(joinSta)
  /\ ApTypes(joinAnswers, listed, unlisted, level)
  /\ AnswersFit(joinSta, joinAnswers, listed)
  /\ ListsFit(joinSta, listed, unlisted)
  /\ joinFailed = "none"

\* A step of the station to which the access points have no part.
LEMMA StationMoves ==
  ASSUME JoinInv, StationTo(joinSta, joinSta'), UNCHANGED <<joinAnswers, listed, unlisted, level, joinFailed>>
  PROVE  JoinInv'
<1>1. Follows(joinSta, joinSta') /\ StationPart(joinSta') BY DEF StationTo, StationPart
<1>2. AnswersFit(joinSta', joinAnswers, listed) /\ ListsFit(joinSta', listed, unlisted)
  BY <1>1, Followed DEF JoinInv
<1> QED BY <1>1, <1>2 DEF JoinInv

\* ... when no answer is under way.
LEMMA StationSetsApart ==
  ASSUME JoinInv, Apart(joinSta, joinSta'), \A a \in APs : joinAnswers[a] = <<>>,
         UNCHANGED <<joinAnswers, listed, unlisted, level, joinFailed>>
  PROVE  JoinInv'
<1>1. AnswersFit(joinSta', joinAnswers, listed) /\ ListsFit(joinSta', listed, unlisted)
  BY ApartIs DEF JoinInv
<1>2. StationPart(joinSta') BY DEF Apart, StationPart
<1> QED BY <1>1, <1>2 DEF JoinInv

\* The management timer.
LEMMA TimeoutStep ==
  ASSUME Join!JoinAssumption, ScanType # "active", JoinInv, Join!ManagementHandleTimeout
  PROVE  JoinInv'
<1> DEFINE s == Join!StartTimer(joinSta, "none")
<1>1. joinSta \in Join!Station /\ StationInv(joinSta) BY DEF JoinInv, StationPart
<1>2. UNCHANGED <<joinAnswers, listed, unlisted, level, joinFailed>>
  BY DEF Join!ManagementHandleTimeout, Join!StationStep, Join!apVars, Join!envVars
<1>3. CASE joinSta.timer = "Enable"
  <2>1. joinSta' = Join!Enable(s) BY <1>3 DEF Join!ManagementHandleTimeout, Join!StationStep
  <2> QED BY <1>1, <1>2, <1>3, <2>1, EnableIs, StationMoves
<1>4. CASE joinSta.timer = "Beacon_Wait"
  <2>1. joinSta' \in Join!ScanNextChannel(s) /\ \A a \in APs : joinAnswers[a] = <<>>
    BY <1>4 DEF Join!ManagementHandleTimeout, Join!StationStep
  <2> QED BY <1>1, <1>2, <1>4, <2>1, WaitIs, StationSetsApart
<1>5. CASE joinSta.timer = "Authentication"
  <2>1. joinSta' \in Join!TimeoutOf(s, s.stationAuthenticated)
    BY <1>5 DEF Join!ManagementHandleTimeout, Join!StationStep
  <2>2. s.stationAuthenticated = joinSta.stationAuthenticated BY <1>1, TimerEnds
  <2>3. StationTo(joinSta, joinSta') BY <1>1, <1>5, <2>1, <2>2, AnswerTimeout
  <2> QED BY <1>2, <2>3, StationMoves
<1>6. CASE joinSta.timer \in {"Association", "Reassociation"}
  <2>1. joinSta' \in Join!TimeoutOf(s, s.stationAssociated)
    BY <1>6 DEF Join!ManagementHandleTimeout, Join!StationStep
  <2>2. s.stationAssociated = joinSta.stationAssociated BY <1>1, TimerEnds
  <2>3. StationTo(joinSta, joinSta') BY <1>1, <1>6, <2>1, <2>2, AnswerTimeout
  <2> QED BY <1>2, <2>3, StationMoves
<1>7. CASE joinSta.timer = "Scan_Start"
  <2>1. joinSta' \in Join!TimeoutOf(s, FALSE)
    BY <1>7 DEF Join!ManagementHandleTimeout, Join!StationStep, Join!TimeoutOf
  <2>2. StationTo(joinSta, joinSta') BY <1>1, <1>7, <2>1, AnswerTimeout
  <2> QED BY <1>2, <2>2, StationMoves
<1>8. CASE joinSta.timer = "Authentication_Start"
  <2>1. joinSta' = Join!Authenticate([s EXCEPT !.ScanStarted = FALSE])
    BY <1>8 DEF Join!ManagementHandleTimeout, Join!StationStep
  <2>2. \A a \in APs : joinAnswers[a] = <<>> BY <1>8 DEF JoinInv, AnswersFit, StartTimers
  <2>3. Apart(joinSta, joinSta') BY <1>1, <1>8, <2>1, AuthenticateIs
  <2> QED BY <1>2, <2>2, <2>3, StationSetsApart
<1>9. CASE joinSta.timer = "Reassociation_Start"
  <2>1. joinSta' = Join!ReassociateRequest(s)
    BY <1>9 DEF Join!ManagementHandleTimeout, Join!StationStep
  <2>2. \A a \in APs : joinAnswers[a] = <<>> BY <1>9 DEF JoinInv, AnswersFit, StartTimers
  <2>3. Apart(joinSta, joinSta') BY <1>1, <1>9, <2>1, ReassociateIs
  <2> QED BY <1>2, <2>2, <2>3, StationSetsApart
<1>10. joinSta.timer \in Join!Timers /\ joinSta.timer \notin {"Active_Scan_Short", "Active_Scan_Long", "none"}
  <2>1. joinSta.timer \in Join!Timers BY <1>1 DEF Join!Station
  <2>2. joinSta.timer \notin {"Active_Scan_Short", "Active_Scan_Long"} BY <1>1
                                                                          DEF StationInv,
                                                                             TimerFits
  <2>3. joinSta.timer # "none" BY DEF Join!ManagementHandleTimeout
  <2> QED BY <2>1, <2>2, <2>3
<1> QED BY <1>3, <1>4, <1>5, <1>6, <1>7, <1>8, <1>9, <1>10 DEF Join!Timers

\* The steps of the frame exchange.
LEMMA MediumSteps ==
  ASSUME Join!JoinAssumption, ScanType # "active", JoinInv,
         Join!MediumIdle \/ Join!AckTransmitted \/ Join!NetworkLayerHasPacketToSend \/ Join!DataDone
           \/ \E a \in APs : Join!DataArrives(a)
  PROVE  JoinInv'
<1>1. joinSta \in Join!Station /\ StationInv(joinSta) /\ Goes(joinSta) BY DEF JoinInv,
                                                                          StationPart
<1>2. CASE Join!MediumIdle
  <2>1. ~joinSta.acking /\ joinSta' = Join!CheckForOutgoingPacket(joinSta)
        /\ UNCHANGED <<joinAnswers, listed, unlisted, level, joinFailed>>
    BY <1>2 DEF Join!MediumIdle, Join!StationStep, Join!apVars, Join!envVars
  <2> QED BY <1>1, <2>1, CheckIs, StationMoves
<1>3. CASE Join!AckTransmitted
  <2> DEFINE t == [joinSta EXCEPT !.acking = FALSE]
  <2>1. joinSta' = Join!CheckForOutgoingPacket(t)
        /\ UNCHANGED <<joinAnswers, listed, unlisted, level, joinFailed>>
    BY <1>3 DEF Join!AckTransmitted, Join!StationStep, Join!apVars, Join!envVars
  <2>2. t \in Join!Station /\ Alike(joinSta, t) /\ ~t.acking BY <1>1 DEF Join!Station, Alike
  <2> HIDE DEF t
  <2>3. StationTo(joinSta, t) BY <1>1, <2>2, AlikeIs
  <2>4. StationTo(t, Join!CheckForOutgoingPacket(t)) BY <2>2, <2>3, CheckIs DEF StationTo
  <2>5. StationTo(joinSta, joinSta') BY <2>1, <2>3, <2>4, FollowsOn DEF StationTo
  <2> QED BY <2>1, <2>5, StationMoves
<1>4. CASE Join!NetworkLayerHasPacketToSend
  <2> DEFINE t == [joinSta EXCEPT !.current = "data"]
  <2>1. joinSta' = t /\ Join!IsJoined(joinSta) /\ ~joinSta.ScanStarted /\ joinSta.current = "none"
        /\ UNCHANGED <<joinAnswers, listed, unlisted, level, joinFailed>>
    BY <1>4 DEF Join!NetworkLayerHasPacketToSend, Join!StationStep, Join!apVars,
       Join!envVars
  <2>2. /\ t \in Join!Station /\ t.current = "data"
        /\ t.state = joinSta.state /\ t.stationAuthenticated = joinSta.stationAuthenticated
        /\ t.stationAssociated = joinSta.stationAssociated /\ t.ScanStarted = joinSta.ScanStarted
        /\ t.currentChannel = joinSta.currentChannel /\ t.apAddr = joinSta.apAddr
        /\ t.associatedAP = joinSta.associatedAP /\ t.queue = joinSta.queue /\ t.timer = joinSta.timer
        /\ t.resetPending = joinSta.resetPending /\ t.aid = joinSta.aid
    BY <1>1 DEF Join!Station
  <2> HIDE DEF t
  <2>3. joinSta.state \notin {"WFAUTH", "WFASSOC", "WFREASSOC", "IDLE"}
    BY <1>1, <2>1 DEF StationInv, ProgressFits, Join!IsJoined, AskingStates
  <2>4. joinSta.queue = <<>> 
    <3>1. joinSta.state \in {"WFSCAN", "JOINED"}
      BY <1>1, <2>3 DEF Join!Station, Join!ManagementStates, StationInv, ProgressFits
    <3> QED BY <1>1, <2>1, <3>1 DEF StationInv, RequestsFit
  <2>5. StationInv(t) /\ Goes(t)
    BY <1>1, <2>1, <2>2, <2>3, <2>4 DEF StationInv, RequestsFit, ProgressFits, TimerFits,
       HandFits, Goes,
       Join!IsJoined, AskingStates, StartTimers, Towards
  <2>6. Follows(joinSta, t)
    BY <2>1, <2>2, <2>4 DEF Follows, Join!IsJoined, Asked
  <2> QED BY <2>1, <2>2, <2>5, <2>6, StationMoves DEF StationTo
<1>5. CASE Join!DataDone
  <2> DEFINE t == [joinSta EXCEPT !.current = "none"]
  <2>1. joinSta' = Join!CheckForOutgoingPacket(t) /\ ~joinSta.acking /\ joinSta.current = "data"
        /\ UNCHANGED <<joinAnswers, listed, unlisted, level, joinFailed>>
    BY <1>5 DEF Join!DataDone, Join!StationStep, Join!envVars
  <2>2. /\ t \in Join!Station /\ t.current = "none" /\ ~t.acking
        /\ t.state = joinSta.state /\ t.stationAuthenticated = joinSta.stationAuthenticated
        /\ t.stationAssociated = joinSta.stationAssociated /\ t.ScanStarted = joinSta.ScanStarted
        /\ t.currentChannel = joinSta.currentChannel /\ t.apAddr = joinSta.apAddr
        /\ t.associatedAP = joinSta.associatedAP /\ t.queue = joinSta.queue /\ t.timer = joinSta.timer
        /\ t.resetPending = joinSta.resetPending /\ t.aid = joinSta.aid
    BY <1>1, <2>1 DEF Join!Station
  <2> HIDE DEF t
  <2>3. Join!IsJoined(joinSta) /\ ~joinSta.ScanStarted BY <1>1, <2>1 DEF StationInv,
                                                          HandFits
  <2>4. joinSta.state \notin {"WFAUTH", "WFASSOC", "WFREASSOC", "IDLE"}
    BY <1>1, <2>3 DEF StationInv, ProgressFits, Join!IsJoined, AskingStates
  <2>5. joinSta.queue = <<>>
    <3>1. joinSta.state \in {"WFSCAN", "JOINED"}
      BY <1>1, <2>4 DEF Join!Station, Join!ManagementStates, StationInv, ProgressFits
    <3> QED BY <1>1, <2>1, <3>1 DEF StationInv, RequestsFit
  <2>6. StationInv(t) /\ Goes(t)
    BY <1>1, <2>2, <2>3, <2>4, <2>5 DEF StationInv, RequestsFit, ProgressFits, TimerFits,
       HandFits, Goes,
       Join!IsJoined, AskingStates, StartTimers, Towards
  <2>7. Follows(joinSta, t)
    BY <2>2, <2>3, <2>5 DEF Follows, Join!IsJoined, Asked
  <2>8. StationTo(t, Join!CheckForOutgoingPacket(t)) BY <2>2, <2>6, CheckIs
  <2>9. StationTo(joinSta, joinSta') BY <2>1, <2>7, <2>8, FollowsOn DEF StationTo
  <2> QED BY <2>1, <2>9, StationMoves
<1>6. ASSUME NEW a \in APs, Join!DataArrives(a) PROVE JoinInv'
  <2>1. joinSta' = [joinSta EXCEPT !.acking = TRUE]
        /\ UNCHANGED <<joinAnswers, listed, unlisted, level, joinFailed>>
    BY <1>6 DEF Join!DataArrives, Join!StationStep, Join!apVars, Join!envVars
  <2>2. joinSta' \in Join!Station /\ Alike(joinSta, joinSta') BY <1>1, <2>1
                                                                 DEF Join!Station, Alike
  <2> QED BY <1>1, <2>1, <2>2, AlikeIs, StationMoves
<1> QED BY <1>2, <1>3, <1>4, <1>5, <1>6

\* A measurement.
LEMMA MeasureIs ==
  ASSUME NEW s \in Join!Station, level \in [APs -> Levels], NEW a \in APs
  PROVE  Join!Measure(s, a) \in Join!Station /\ Alike(s, Join!Measure(s, a))
<1> DEFINE m == s.measured \union {a}
           q == [s.rss EXCEPT ![a] = level[a]]
           r == [s EXCEPT !.rss = q, !.measured = m]
<1>1. m \in SUBSET APs /\ q \in [APs -> Levels] BY DEF Join!Station
<1>2. Join!Measure(s, a) = r BY DEF Join!Measure, Join!Station
<1> HIDE DEF m, q
<1>3. r \in Join!Station BY <1>1 DEF Join!Station
<1>4. Alike(s, r) BY DEF Alike, Join!Station
<1> QED BY <1>2, <1>3, <1>4

\* The beacons, heard or missed.
LEMMA BeaconSteps ==
  ASSUME Join!JoinAssumption, ScanType # "active", JoinInv,
         Join!BeaconMissed \/ \E a \in APs : Join!BeaconArrives(a)
  PROVE  JoinInv'
<1>1. joinSta \in Join!Station /\ StationInv(joinSta) /\ Goes(joinSta) /\ level \in [APs -> Levels]
  BY DEF JoinInv, StationPart, ApTypes
<1>2. MissedMax \in Nat BY JoinValues
<1>3. CASE Join!BeaconMissed
  <2>1. UNCHANGED <<joinAnswers, listed, unlisted, level, joinFailed>>
    BY <1>3 DEF Join!BeaconMissed, Join!StationStep, Join!apVars, Join!envVars
  <2>2. joinSta.beaconsMissed \in 0 .. MissedMax + 1 BY <1>1 DEF Join!Station
  <2>3. CASE joinSta.beaconsMissed > MissedMax /\ joinSta.stationAssociated
    <3> DEFINE t == Join!Reset(joinSta)
    <3>1. joinSta' = [t EXCEPT !.beaconsMissed = 0] BY <1>3, <2>3 DEF Join!BeaconMissed,
                                                       Join!StationStep
    <3>2. StationTo(joinSta, t) BY <1>1, ResetIs
    <3> HIDE DEF t
    <3>3. t \in Join!Station /\ StationInv(t) /\ Goes(t) BY <3>2 DEF StationTo
    <3>4. joinSta' \in Join!Station /\ Alike(t, joinSta') BY <1>2, <3>1, <3>3
                                                             DEF Join!Station, Alike
    <3>5. StationTo(t, joinSta') BY <3>3, <3>4, AlikeIs
    <3>6. StationTo(joinSta, joinSta') BY <3>2, <3>5, FollowsOn DEF StationTo
    <3> QED BY <2>1, <3>6, StationMoves
  <2>4. CASE joinSta.beaconsMissed > MissedMax /\ ~joinSta.stationAssociated
    <3>1. joinSta' = joinSta BY <1>3, <2>4 DEF Join!BeaconMissed, Join!StationStep
    <3>2. Alike(joinSta, joinSta') /\ joinSta' \in Join!Station BY <1>1, <3>1 DEF Alike
    <3> QED BY <1>1, <2>1, <3>2, AlikeIs, StationMoves
  <2>5. CASE ~(joinSta.beaconsMissed > MissedMax)
    <3> DEFINE k == joinSta.beaconsMissed + (IF Join!BeaconCounts THEN 1 ELSE 0)
    <3>1. joinSta' = [joinSta EXCEPT !.beaconsMissed = k]
      BY <1>3, <2>5 DEF Join!BeaconMissed, Join!StationStep
    <3>2. k \in 0 .. MissedMax + 1 BY <1>2, <2>2, <2>5
    <3> HIDE DEF k
    <3>3. Alike(joinSta, joinSta') /\ joinSta' \in Join!Station BY <1>1, <3>1, <3>2
                                                                   DEF Alike, Join!Station
    <3> QED BY <1>1, <2>1, <3>3, AlikeIs, StationMoves
  <2> QED BY <2>3, <2>4, <2>5
<1>4. ASSUME NEW a \in APs, Join!BeaconArrives(a) PROVE JoinInv'
  <2> DEFINE s == IF joinSta.own = a THEN Join!OwnBeacon(joinSta, a) ELSE joinSta
  <2>1. UNCHANGED <<joinAnswers, listed, unlisted, level, joinFailed>>
    BY <1>4 DEF Join!BeaconArrives, Join!StationStep, Join!apVars, Join!envVars
  <2>2. joinSta' = s \/ joinSta' = Join!Measure(s, a)
    BY <1>4 DEF Join!BeaconArrives, Join!StationStep, Join!Noted
  <2>3. s \in Join!Station /\ Alike(joinSta, s)
    <3> DEFINE t == Join!Measure(joinSta, a)
    <3>1. t \in Join!Station /\ Alike(joinSta, t) BY <1>1, MeasureIs
    <3> HIDE DEF t
    <3>2. [t EXCEPT !.beaconsMissed = 0] \in Join!Station /\ Alike(joinSta, [t EXCEPT !.beaconsMissed = 0])
      BY <1>2, <3>1 DEF Join!Station, Alike
    <3> QED BY <1>1, <3>2 DEF Join!OwnBeacon, Alike, t
  <2> HIDE DEF s
  <2>4. Join!Measure(s, a) \in Join!Station /\ Alike(s, Join!Measure(s, a)) BY <1>1, <2>3, MeasureIs
  <2>5. joinSta' \in Join!Station /\ Alike(joinSta, joinSta') BY <2>2, <2>3, <2>4 DEF Alike
  <2> QED BY <1>1, <2>1, <2>5, AlikeIs, StationMoves
<1> QED BY <1>3, <1>4

\* The access point that takes the request in hand.
LEMMA ApReceivesIs ==
  ASSUME Join!JoinAssumption, JoinInv, NEW a \in APs, Join!Sending(a),
         Join!ApReceives(a, Head(joinSta.queue).type)
  PROVE  /\ ApTypes(joinAnswers', listed', unlisted', level)
         /\ AnswersFit(joinSta, joinAnswers', listed') /\ ListsFit(joinSta, listed', unlisted')
<1> DEFINE ty == Head(joinSta.queue).type
<1>1. /\ joinSta \in Join!Station /\ StationInv(joinSta)
      /\ joinAnswers \in [APs -> Seq(AnswerFrame)] /\ listed \in [APs -> 0 .. MaxAid]
      /\ unlisted \in [APs -> BOOLEAN] /\ level \in [APs -> Levels]
  BY DEF JoinInv, StationPart, ApTypes
<1>2. joinSta.current = "mgmt" /\ Head(joinSta.queue).to = a BY DEF Join!Sending
<1>3. InHand(joinSta) /\ joinSta.queue # <<>> /\ ~joinSta.ScanStarted BY <1>1, <1>2, HandIs
<1>4. /\ a = joinSta.apAddr /\ ty \in {"AUTH", "ASSOC", "REASSOC"}
      /\ joinSta.state \in {"WFAUTH", "WFASSOC", "WFREASSOC", "JOINED"}
      /\ joinSta.state = "WFAUTH" => ty = "AUTH"
      /\ joinSta.state \in {"WFASSOC", "WFREASSOC"} /\ ty # "AUTH" => Len(joinSta.queue) = 1
  BY <1>1, <1>2, <1>3, QueueAfter
<1> HIDE DEF ty
<1>5. PICK i \in Join!AnswerIds(a, ty) :
        /\ listed' = [listed EXCEPT ![a] = IF i = 0 THEN @ ELSE i]
        /\ unlisted' = [unlisted EXCEPT ![a] = @ /\ i = 0]
        /\ joinAnswers' = [joinAnswers EXCEPT ![a] = Append(@, [type |-> ty, aid |-> i])]
  BY DEF Join!ApReceives, ty
<1>6. /\ i \in 0 .. MaxAid
      /\ i # 0 /\ listed[a] = 0 => i \notin Taken[a]
      /\ i # 0 /\ listed[a] # 0 => i = listed[a]
  <2>1. i = 0 \/ i \in Join!FreeIds(a)
    BY <1>4 DEF Join!AnswerIds, Join!AuthenticateAnswer, Join!AssociateResponseIds,
       Join!ReassociateResponseIds
  <2>2. listed[a] \in 0 .. MaxAid /\ MaxAid \in Nat BY <1>1, JoinValues
  <2> QED BY <2>1, <2>2 DEF Join!FreeIds, Join!Aids
<1> DEFINE f == [type |-> ty, aid |-> i]
<1>7. f \in AnswerFrame /\ f.type = ty /\ f.aid = i BY <1>4, <1>6 DEF AnswerFrame
<1> HIDE DEF f
<1>8. /\ Append(joinAnswers[a], f) \in Seq(AnswerFrame)
      /\ DOMAIN Append(joinAnswers[a], f) = 1 .. Len(joinAnswers[a]) + 1
      /\ DOMAIN joinAnswers[a] = 1 .. Len(joinAnswers[a]) /\ Len(joinAnswers[a]) \in Nat
      /\ \A k \in 1 .. Len(joinAnswers[a]) : Append(joinAnswers[a], f)[k] = joinAnswers[a][k]
      /\ Append(joinAnswers[a], f)[Len(joinAnswers[a]) + 1] = f
  <2>1. joinAnswers[a] \in Seq(AnswerFrame) BY <1>1
  <2> QED BY <1>7, <2>1
<1>9. /\ joinAnswers'[a] = Append(joinAnswers[a], f) /\ \A b \in APs : b # a => joinAnswers'[b] = joinAnswers[b]
      /\ listed'[a] = (IF i = 0 THEN listed[a] ELSE i)
      /\ \A b \in APs : b # a => listed'[b] = listed[b]
      /\ unlisted'[a] <=> unlisted[a] /\ i = 0
      /\ \A b \in APs : b # a => unlisted'[b] = unlisted[b]
  BY <1>1, <1>5 DEF f
<1>10. ApTypes(joinAnswers', listed', unlisted', level)
  BY <1>1, <1>5, <1>6, <1>8 DEF ApTypes, f
<1>11. AnswersFit(joinSta, joinAnswers', listed')
  <2>1. joinSta.timer \notin StartTimers BY <1>1, <1>4 DEF StationInv, TimerFits
  <2>2. ASSUME NEW b \in APs, NEW k \in DOMAIN joinAnswers'[b]
        PROVE  /\ joinAnswers'[b][k].aid \in {0, listed'[b]}
               /\ joinSta.state = "WFAUTH" => joinAnswers'[b][k].type = "AUTH"
               /\ /\ joinSta.state \in {"WFASSOC", "WFREASSOC"}
                  /\ joinAnswers'[b][k].type \in {"ASSOC", "REASSOC"}
                  => Asked(joinSta)
    <3>1. CASE b # a
      <4>1. joinAnswers'[b] = joinAnswers[b] /\ listed'[b] = listed[b] BY <1>9, <3>1
      <4> QED BY <4>1, <2>2 DEF JoinInv, AnswersFit
    <3>2. CASE b = a /\ k \in 1 .. Len(joinAnswers[a])
      <4>1. joinAnswers'[b][k] = joinAnswers[a][k] /\ k \in DOMAIN joinAnswers[a] BY <1>8, <1>9, <3>2
      <4>2. /\ joinAnswers[a][k].aid \in {0, listed[a]}
            /\ joinSta.state = "WFAUTH" => joinAnswers[a][k].type = "AUTH"
            /\ /\ joinSta.state \in {"WFASSOC", "WFREASSOC"}
               /\ joinAnswers[a][k].type \in {"ASSOC", "REASSOC"}
               => Asked(joinSta)
        BY <4>1 DEF JoinInv, AnswersFit
      <4>3. listed[a] # 0 => listed'[a] = listed[a] BY <1>6, <1>9
      <4> QED BY <3>2, <4>1, <4>2, <4>3
    <3>3. CASE b = a /\ k = Len(joinAnswers[a]) + 1
      <4>1. joinAnswers'[b][k] = f BY <1>8, <1>9, <3>3
      <4> QED BY <1>2, <1>4, <1>7, <1>9, <3>3, <4>1 DEF Asked
    <3>4. b = a => k \in 1 .. Len(joinAnswers[a]) + 1 BY <1>8, <1>9, <2>2
    <3> QED BY <1>8, <3>1, <3>2, <3>3, <3>4
  <2> QED BY <2>1, <2>2 DEF AnswersFit
<1>12. ListsFit(joinSta, listed', unlisted')
  <2>1. ASSUME NEW b \in APs
        PROVE  /\ listed'[b] # 0 => listed'[b] \notin Taken[b]
               /\ unlisted'[b] => listed'[b] = 0
    BY <1>6, <1>9 DEF JoinInv, ListsFit
  <2>2. ASSUME Join!IsJoined(joinSta)
        PROVE  /\ joinSta.associatedAP = a /\ ~unlisted[a] /\ joinSta.state = "JOINED"
    <3>1. joinSta.state = "JOINED"
      BY <1>1, <1>4, <2>2 DEF StationInv, ProgressFits, Join!IsJoined, AskingStates
    <3>2. joinSta.associatedAP = a BY <1>1, <1>4, <3>1 DEF StationInv, ProgressFits
    <3> QED BY <1>3, <1>4, <3>1, <3>2 DEF JoinInv, ListsFit
  <2>3. ASSUME Join!IsJoined(joinSta)
        PROVE  joinSta.aid = listed'[joinSta.associatedAP] /\ joinSta.aid # 0
    <3>1. joinSta.aid = listed[a] /\ joinSta.aid # 0 BY <2>2, <2>3 DEF JoinInv, ListsFit
    <3> QED BY <1>6, <1>9, <2>2, <2>3, <3>1
  <2>4. joinSta.state = "JOINED" => ~unlisted'[joinSta.apAddr]
    <3>1. joinSta.state = "JOINED" => ~unlisted[a]
      BY <1>3, <1>4 DEF JoinInv, ListsFit
    <3> QED BY <1>4, <1>9, <3>1
  <2> QED BY <2>1, <2>3, <2>4 DEF ListsFit
<1> QED BY <1>10, <1>11, <1>12

\* The requests.
LEMMA RequestSteps ==
  ASSUME Join!JoinAssumption, ScanType # "active", JoinInv, NEW a \in APs,
         Join!RequestAcked(a) \/ Join!RequestUnacked(a) \/ Join!RequestDropped(a)
  PROVE  JoinInv'
<1>1. joinSta \in Join!Station /\ StationInv(joinSta) /\ Goes(joinSta) BY DEF JoinInv,
                                                                          StationPart
<1>2. CASE Join!RequestAcked(a)
  <2>1. /\ Join!Sending(a) /\ Join!ApReceives(a, Head(joinSta.queue).type)
        /\ joinSta' = Join!Done(joinSta, Join!ResponseTimer[Head(joinSta.queue).type])
        /\ UNCHANGED <<level, joinFailed>>
    BY <1>2 DEF Join!RequestAcked, Join!StationStep, Join!envVars
  <2>2. StationTo(joinSta, joinSta') BY <1>1, <2>1, DoneIs DEF Join!Sending
  <2>3. /\ ApTypes(joinAnswers', listed', unlisted', level)
        /\ AnswersFit(joinSta, joinAnswers', listed') /\ ListsFit(joinSta, listed', unlisted')
    BY <2>1, ApReceivesIs
  <2>4. AnswersFit(joinSta', joinAnswers', listed') /\ ListsFit(joinSta', listed', unlisted')
    BY <2>2, <2>3, Followed DEF StationTo
  <2> QED BY <2>1, <2>2, <2>3, <2>4 DEF JoinInv, StationPart, StationTo
<1>3. CASE Join!RequestUnacked(a)
  <2>1. /\ Join!Sending(a) /\ Join!ApReceives(a, Head(joinSta.queue).type)
        /\ UNCHANGED <<joinSta, level, joinFailed>>
    BY <1>3 DEF Join!RequestUnacked
  <2>2. /\ ApTypes(joinAnswers', listed', unlisted', level)
        /\ AnswersFit(joinSta, joinAnswers', listed') /\ ListsFit(joinSta, listed', unlisted')
    BY <2>1, ApReceivesIs
  <2> QED BY <2>1, <2>2 DEF JoinInv
<1>4. CASE Join!RequestDropped(a)
  <2>1. /\ Join!Sending(a)
        /\ joinSta' = Join!CheckForOutgoingPacket(Join!Dequeued(Join!InformManagementOfPktDrop(joinSta)))
        /\ UNCHANGED <<joinAnswers, listed, unlisted, level, joinFailed>>
    BY <1>4 DEF Join!RequestDropped, Join!StationStep, Join!apVars
  <2>2. StationTo(joinSta, joinSta') BY <1>1, <2>1, DroppedIs DEF Join!Sending
  <2> QED BY <2>1, <2>2, StationMoves
<1> QED BY <1>2, <1>3, <1>4

\* Without active scanning there is no probe to send.
LEMMA NoProbe ==
  ASSUME Join!JoinAssumption, JoinInv
  PROVE  ~Join!ProbeTransmitted
<1> SUFFICES ASSUME Join!ProbeTransmitted PROVE FALSE OBVIOUS
<1>1. joinSta \in Join!Station /\ StationInv(joinSta) /\ joinSta.current = "mgmt" /\ Head(joinSta.queue).to = NoAp
  BY DEF JoinInv, StationPart, Join!ProbeTransmitted, Join!Sending
<1>2. InHand(joinSta) /\ joinSta.apAddr \in APs BY <1>1, HandIs
<1>3. Head(joinSta.queue).to = joinSta.apAddr BY <1>1, <1>2, QueueAfter
<1> QED BY <1>1, <1>2, <1>3, JoinValues

\* An access point's queue loses its first answer.
LEMMA AnswerLeaves ==
  ASSUME NEW s, NEW a \in APs, joinAnswers \in [APs -> Seq(AnswerFrame)], joinAnswers[a] # <<>>,
         AnswersFit(s, joinAnswers, listed)
  PROVE  LET rest == [joinAnswers EXCEPT ![a] = Tail(@)]
         IN  rest \in [APs -> Seq(AnswerFrame)] /\ AnswersFit(s, rest, listed)
<1> DEFINE rest == [joinAnswers EXCEPT ![a] = Tail(@)]
<1>1. joinAnswers[a] \in Seq(AnswerFrame) OBVIOUS
<1>2. /\ Tail(joinAnswers[a]) \in Seq(AnswerFrame) /\ Len(Tail(joinAnswers[a])) = Len(joinAnswers[a]) - 1
      /\ \A k \in 1 .. Len(Tail(joinAnswers[a])) : Tail(joinAnswers[a])[k] = joinAnswers[a][k + 1]
  BY <1>1, HeadTailProperties
<1>3. /\ DOMAIN Tail(joinAnswers[a]) = 1 .. Len(Tail(joinAnswers[a]))
      /\ DOMAIN joinAnswers[a] = 1 .. Len(joinAnswers[a]) /\ Len(joinAnswers[a]) \in Nat
  BY <1>1, <1>2
<1>4. /\ rest[a] = Tail(joinAnswers[a]) /\ rest \in [APs -> Seq(AnswerFrame)]
      /\ \A b \in APs : b # a => rest[b] = joinAnswers[b]
  BY <1>2
<1> HIDE DEF rest
<1>5. s.timer \notin StartTimers BY DEF AnswersFit
<1>6. ASSUME NEW b \in APs, NEW k \in DOMAIN rest[b]
      PROVE  \E j \in DOMAIN joinAnswers[b] : rest[b][k] = joinAnswers[b][j]
  <2>1. CASE b # a BY <1>4, <1>6, <2>1
  <2>2. CASE b = a
    <3>1. k \in 1 .. Len(Tail(joinAnswers[a])) BY <1>3, <1>4, <1>6, <2>2
    <3>2. k + 1 \in DOMAIN joinAnswers[a] BY <1>2, <1>3, <3>1
    <3> QED BY <1>2, <1>4, <2>2, <3>1, <3>2
  <2> QED BY <2>1, <2>2
<1>7. AnswersFit(s, rest, listed)
  <2>1. ASSUME NEW b \in APs, NEW k \in DOMAIN rest[b]
        PROVE  /\ rest[b][k].aid \in {0, listed[b]}
               /\ s.state = "WFAUTH" => rest[b][k].type = "AUTH"
               /\ /\ s.state \in {"WFASSOC", "WFREASSOC"}
                  /\ rest[b][k].type \in {"ASSOC", "REASSOC"}
                  => Asked(s)
    <3>1. PICK j \in DOMAIN joinAnswers[b] : rest[b][k] = joinAnswers[b][j] BY <1>6, <2>1
    <3> QED BY <3>1 DEF AnswersFit
  <2> QED BY <1>5, <2>1 DEF AnswersFit
<1> QED BY <1>4, <1>7 DEF rest

\* The answers.
LEMMA AnswerSteps ==
  ASSUME Join!JoinAssumption, ScanType # "active", JoinInv, NEW a \in APs,
         Join!AnswerArrives(a) \/ Join!AnswerDropped(a)
  PROVE  JoinInv'
<1>1. /\ joinSta \in Join!Station /\ StationInv(joinSta) /\ Goes(joinSta) /\ level \in [APs -> Levels]
      /\ joinAnswers \in [APs -> Seq(AnswerFrame)] /\ listed \in [APs -> 0 .. MaxAid]
      /\ unlisted \in [APs -> BOOLEAN] /\ joinFailed = "none"
      /\ AnswersFit(joinSta, joinAnswers, listed) /\ ListsFit(joinSta, listed, unlisted)
  BY DEF JoinInv, StationPart, ApTypes
<1>2. CASE Join!AnswerDropped(a)
  <2>1. /\ joinAnswers[a] # <<>> /\ joinAnswers' = [joinAnswers EXCEPT ![a] = Tail(@)]
        /\ UNCHANGED <<joinSta, listed, unlisted, level, joinFailed>>
    BY <1>2 DEF Join!AnswerDropped
  <2>2. joinAnswers' \in [APs -> Seq(AnswerFrame)] /\ AnswersFit(joinSta, joinAnswers', listed)
    BY <1>1, <2>1, AnswerLeaves
  <2> QED BY <1>1, <2>1, <2>2 DEF JoinInv, StationPart, ApTypes
<1>3. CASE Join!AnswerArrives(a)
  <2> DEFINE f == Head(joinAnswers[a])
             s == [joinSta EXCEPT !.acking = TRUE]
  <2>1. /\ joinAnswers[a] # <<>> /\ Join!Reachable(a) /\ Join!Expects(joinSta, f.type)
        /\ joinSta' = Join!ProcessAnswer(a, f)
        /\ joinFailed' = IF joinSta'.state = "JOINED" /\ ~Join!IsJoined(joinSta') THEN "join" ELSE joinFailed
        /\ joinAnswers' = [joinAnswers EXCEPT ![a] = Tail(@)] \/ joinAnswers' = joinAnswers
        /\ UNCHANGED <<listed, unlisted, level>>
    BY <1>3 DEF Join!AnswerArrives
  <2>2. 1 \in DOMAIN joinAnswers[a] /\ f = joinAnswers[a][1] /\ f \in AnswerFrame
    BY <1>1, <2>1
  <2>3. s \in Join!Station /\ Alike(joinSta, s) BY <1>1 DEF Join!Station, Alike
  <2>4. /\ f.aid \in {0, listed[a]} /\ f.aid \in 0 .. MaxAid
        /\ joinSta.state = "WFAUTH" => f.type = "AUTH"
        /\ joinSta.state \in {"WFASSOC", "WFREASSOC"} /\ f.type \in {"ASSOC", "REASSOC"} => Asked(joinSta)
    BY <1>1, <2>2 DEF AnswersFit, AnswerFrame
  <2> HIDE DEF f
  <2>5. /\ StationPart(joinSta') /\ AnswersFit(joinSta', joinAnswers, listed) /\ ListsFit(joinSta', listed, unlisted)
    <3>1. CASE f.type = "PROBE"
      <4>1. joinSta' = Join!Measure(s, a)
        BY <2>1, <3>1 DEF Join!ProcessAnswer, Join!ProcessProbeResponse
      <4>2. joinSta' \in Join!Station /\ Alike(s, joinSta')
        BY <1>1, <2>3, <4>1, MeasureIs
      <4>3. Alike(joinSta, joinSta') BY <2>3, <4>2 DEF Alike
      <4>4. StationTo(joinSta, joinSta') BY <1>1, <4>2, <4>3, AlikeIs
      <4> QED BY <1>1, <4>4, Followed DEF StationTo, StationPart
    <3>2. CASE f.type = "AUTH"
      <4>1. joinSta.state = "WFAUTH" /\ joinSta' = Join!AuthenticationCompleted(s)
        BY <2>1, <3>2 DEF Join!ProcessAnswer, Join!Expects
      <4>2. /\ StationPart(joinSta')
            /\ joinSta'.state = "WFASSOC" /\ ~joinSta'.stationAssociated /\ joinSta'.timer = joinSta.timer
        BY <1>1, <4>1, AuthenticatedIs DEF StationPart
      <4>3. AnswersFit(joinSta', joinAnswers, listed)
        <5>1. \A b \in APs : \A i \in DOMAIN joinAnswers[b] :
                joinAnswers[b][i].aid \in {0, listed[b]} /\ joinAnswers[b][i].type = "AUTH"
          BY <1>1, <4>1 DEF AnswersFit
        <5> QED BY <1>1, <4>2, <5>1 DEF AnswersFit
      <4>4. ListsFit(joinSta', listed, unlisted) BY <1>1, <4>2 DEF ListsFit, Join!IsJoined
      <4> QED BY <4>2, <4>3, <4>4
    <3>3. CASE f.type \in {"ASSOC", "REASSOC"}
      <4> DEFINE r == Join!AssociationCompleted([s EXCEPT !.stationAssociated = TRUE, !.aid = f.aid])
      <4>1. /\ joinSta.state \in {"WFASSOC", "WFREASSOC"}
            /\ f.aid = 0 => joinSta' = s
            /\ f.aid # 0 => joinSta' = r
        BY <2>1, <3>3 DEF Join!ProcessAnswer, Join!Expects, Join!ProcessAssociateResponse,
             Join!ProcessReassociateResponse
      <4>2. CASE f.aid = 0
        <5>1. StationTo(joinSta, joinSta') BY <1>1, <2>3, <4>1, <4>2, AlikeIs
        <5> QED BY <1>1, <5>1, Followed DEF StationTo, StationPart
      <4>3. CASE f.aid # 0
        <5>1. f.aid \in 1 .. MaxAid /\ Asked(joinSta)
          BY <2>4, <3>3, <4>1, <4>3
        <5>2. /\ StationPart(joinSta') /\ joinSta'.state = "JOINED" /\ joinSta'.aid = f.aid
              /\ joinSta'.associatedAP = joinSta.apAddr /\ joinSta'.apAddr = joinSta.apAddr
              /\ joinSta'.timer = joinSta.timer
          <6>1. /\ r \in Join!Station /\ StationInv(r) /\ Goes(r)
                /\ r.state = "JOINED" /\ r.associatedAP = joinSta.apAddr /\ r.apAddr = joinSta.apAddr
                /\ r.aid = f.aid /\ r.timer = joinSta.timer
            BY <1>1, <4>1, <5>1, JoinedIs
          <6>2. joinSta' = r BY <4>1, <4>3
          <6> HIDE DEF r
          <6> QED BY <6>1, <6>2 DEF StationPart
        <5>3. a = joinSta.apAddr
          <6>1. Towards(joinSta) BY <1>1, <4>1 DEF StationInv, ProgressFits, AskingStates
          <6>2. ChannelOf[a] = ChannelOf[joinSta.apAddr] /\ joinSta.apAddr \in APs
            BY <2>1, <6>1 DEF Towards, Join!Reachable
          <6> QED BY <6>2 DEF Join!JoinAssumption
        <5>4. f.aid = listed[a] /\ ~unlisted[a] BY <1>1, <2>4, <4>3 DEF ListsFit
        <5>5. AnswersFit(joinSta', joinAnswers, listed) BY <1>1, <5>2 DEF AnswersFit
        <5>6. ListsFit(joinSta', listed, unlisted) BY <1>1, <4>3, <5>2, <5>3, <5>4
                                                      DEF ListsFit
        <5> QED BY <5>2, <5>5, <5>6
      <4> QED BY <4>2, <4>3
    <3> QED BY <2>2, <3>1, <3>2, <3>3, <2>1 DEF Join!Expects
  <2>6. joinAnswers' \in [APs -> Seq(AnswerFrame)] /\ AnswersFit(joinSta', joinAnswers', listed)
    <3>1. CASE joinAnswers' = joinAnswers BY <1>1, <2>5, <3>1
    <3>2. CASE joinAnswers' = [joinAnswers EXCEPT ![a] = Tail(@)]
      <4> DEFINE t == joinSta'
      <4>1. AnswersFit(t, joinAnswers, listed) BY <2>5
      <4> HIDE DEF t
      <4>2. /\ [joinAnswers EXCEPT ![a] = Tail(@)] \in [APs -> Seq(AnswerFrame)]
            /\ AnswersFit(t, [joinAnswers EXCEPT ![a] = Tail(@)], listed)
        BY <1>1, <2>1, <4>1, AnswerLeaves
      <4> QED BY <3>2, <4>2 DEF t
    <3> QED BY <2>1, <3>1, <3>2
  <2>7. joinFailed' = "none"
    <3>1. joinSta'.state = "JOINED" => Join!IsJoined(joinSta')
      BY <2>5 DEF StationPart, StationInv, ProgressFits
    <3> QED BY <1>1, <2>1, <3>1
  <2> QED BY <1>1, <2>1, <2>5, <2>6, <2>7 DEF JoinInv, ApTypes
<1> QED BY <1>2, <1>3

\* The inactivity check and the station's way.
LEMMA OtherSteps ==
  ASSUME Join!JoinAssumption, JoinInv, NEW a \in APs, Join!InactiveTimeout(a) \/ Join!Move(a)
  PROVE  JoinInv'
<1>1. /\ joinSta \in Join!Station /\ StationInv(joinSta) /\ Goes(joinSta) /\ level \in [APs -> Levels]
      /\ joinAnswers \in [APs -> Seq(AnswerFrame)] /\ listed \in [APs -> 0 .. MaxAid]
      /\ unlisted \in [APs -> BOOLEAN] /\ joinFailed = "none"
      /\ AnswersFit(joinSta, joinAnswers, listed) /\ ListsFit(joinSta, listed, unlisted)
  BY DEF JoinInv, StationPart, ApTypes
<1>2. CASE Join!Move(a)
  <2>1. level' \in [APs -> Levels] /\ UNCHANGED <<joinSta, joinAnswers, listed, unlisted, joinFailed>>
    BY <1>1, <1>2 DEF Join!Move, Join!apVars
  <2> QED BY <1>1, <2>1 DEF JoinInv, StationPart, ApTypes
<1>3. CASE Join!InactiveTimeout(a)
  <2>1. /\ joinAnswers[a] = <<>> /\ listed[a] # 0
        /\ ~(joinSta.current = "mgmt" /\ Head(joinSta.queue).to = a)
        /\ listed' = [listed EXCEPT ![a] = IF heard[a] THEN @ ELSE 0]
        /\ unlisted' = [unlisted EXCEPT ![a] = @ \/ ~heard[a]]
        /\ UNCHANGED <<joinSta, joinAnswers, level, joinFailed>>
    BY <1>3 DEF Join!InactiveTimeout, Join!envVars
  <2>2. /\ listed'[a] = (IF heard[a] THEN listed[a] ELSE 0)
        /\ unlisted'[a] <=> unlisted[a] \/ ~heard[a]
        /\ \A b \in APs : b # a => listed'[b] = listed[b] /\ unlisted'[b] = unlisted[b]
    BY <1>1, <2>1
  <2>3. ApTypes(joinAnswers', listed', unlisted', level')
    <3>1. MaxAid \in Nat BY JoinValues
    <3> QED BY <1>1, <2>1, <3>1 DEF ApTypes
  <2>4. AnswersFit(joinSta, joinAnswers, listed')
    <3>1. ASSUME NEW b \in APs, NEW i \in DOMAIN joinAnswers[b]
          PROVE  joinAnswers[b][i].aid \in {0, listed'[b]}
      <4>1. b # a BY <2>1, <3>1
      <4> QED BY <1>1, <2>2, <4>1 DEF AnswersFit
    <3> QED BY <1>1, <3>1 DEF AnswersFit
  <2>5. ListsFit(joinSta, listed', unlisted')
    <3>1. \A b \in APs : /\ listed'[b] # 0 => listed'[b] \notin Taken[b]
                         /\ unlisted'[b] => listed'[b] = 0
      BY <1>1, <2>1, <2>2 DEF ListsFit
    <3>2. ASSUME Join!IsJoined(joinSta), ~unlisted'[joinSta.associatedAP]
          PROVE  joinSta.aid = listed'[joinSta.associatedAP] /\ joinSta.aid # 0
      <4>1. joinSta.associatedAP \in APs BY <1>1, <3>2 DEF StationInv, ProgressFits,
                                            Join!IsJoined
      <4> QED BY <1>1, <2>2, <3>2, <4>1 DEF ListsFit
    <3>3. ASSUME joinSta.state = "JOINED", joinSta.queue # <<>>
          PROVE  ~unlisted'[joinSta.apAddr]
      <4>1. joinSta.current = "mgmt" BY <1>1, <3>3 DEF StationInv, RequestsFit
      <4>2. Head(joinSta.queue).to = joinSta.apAddr /\ joinSta.apAddr \in APs
        BY <1>1, <4>1, HandIs, QueueAfter
      <4>3. joinSta.apAddr # a BY <2>1, <4>1, <4>2
      <4> QED BY <1>1, <2>2, <3>3, <4>2, <4>3 DEF ListsFit
    <3> QED BY <3>1, <3>2, <3>3 DEF ListsFit
  <2> QED BY <1>1, <2>1, <2>3, <2>4, <2>5 DEF JoinInv, StationPart
<1> QED BY <1>2, <1>3

\* The invariant at the start.
LEMMA JoinBegins ==
  ASSUME Join!JoinAssumption, Join!Init
  PROVE  JoinInv
<1>1. /\ joinSta = Join!StationInit /\ listed = [a \in APs |-> 0] /\ unlisted = [a \in APs |-> FALSE]
      /\ joinAnswers = [a \in APs |-> <<>>] /\ level \in [APs -> Levels] /\ joinFailed = "none"
  BY DEF Join!Init
<1>2. Join!StationInit \in Join!Station
  <2>1. /\ 0 \in Join!Channels /\ 1 \in 1 .. NumChannels /\ 0 \in 0 .. MaxAid
        /\ 0 \in 0 .. MissedMax + 1
    BY JoinValues DEF Join!Channels
  <2>2. [a \in APs |-> 0] \in [APs -> Levels] BY DEF Join!JoinAssumption
  <2>3. "IDLE" \in Join!ManagementStates /\ "Enable" \in Join!Timers BY
                                                                        DEF Join!ManagementStates, Join!Timers
  <2> QED BY <2>1, <2>2, <2>3 DEF Join!StationInit, Join!Station
<1>3. StationInv(Join!StationInit) /\ Goes(Join!StationInit)
  BY DEF Join!StationInit, StationInv, RequestsFit, ProgressFits, TimerFits, HandFits,
     Goes, Join!IsJoined, AskingStates,
     StartTimers
<1>4. ApTypes(joinAnswers, listed, unlisted, level)
  <2>1. <<>> \in Seq(AnswerFrame) OBVIOUS
  <2>2. 0 \in 0 .. MaxAid BY JoinValues
  <2> QED BY <1>1, <2>1, <2>2 DEF ApTypes
<1>5. AnswersFit(joinSta, joinAnswers, listed)
  <2>1. \A a \in APs : joinAnswers[a] = <<>> BY <1>1
  <2> QED BY <2>1 DEF AnswersFit
<1>6. ListsFit(joinSta, listed, unlisted)
  BY <1>1 DEF ListsFit, Join!StationInit, Join!IsJoined
<1> QED BY <1>1, <1>2, <1>3, <1>4, <1>5, <1>6 DEF JoinInv, StationPart

\* Every step keeps the invariant.
LEMMA JoinStep ==
  ASSUME Join!JoinAssumption, ScanType # "active", JoinInv, [Join!Next]_Join!vars
  PROVE  JoinInv'
<1>1. CASE Join!ManagementHandleTimeout BY <1>1, TimeoutStep
<1>2. CASE Join!MediumIdle \/ Join!AckTransmitted \/ Join!NetworkLayerHasPacketToSend \/ Join!DataDone
  BY <1>2, MediumSteps
<1>3. CASE Join!ProbeTransmitted BY <1>3, NoProbe
<1>4. CASE Join!BeaconMissed BY <1>4, BeaconSteps
<1>5. ASSUME NEW a \in APs,
             Join!RequestAcked(a) \/ Join!RequestUnacked(a) \/ Join!RequestDropped(a)
      PROVE  JoinInv'
  BY <1>5, RequestSteps
<1>6. ASSUME NEW a \in APs, Join!AnswerArrives(a) \/ Join!AnswerDropped(a) PROVE JoinInv'
  BY <1>6, AnswerSteps
<1>7. ASSUME NEW a \in APs, Join!BeaconArrives(a) PROVE JoinInv' BY <1>7, BeaconSteps
<1>8. ASSUME NEW a \in APs, Join!DataArrives(a) PROVE JoinInv' BY <1>8, MediumSteps
<1>9. ASSUME NEW a \in APs, Join!InactiveTimeout(a) \/ Join!Move(a) PROVE JoinInv' BY <1>9, OtherSteps
<1>10. CASE UNCHANGED Join!vars
  BY <1>10 DEF JoinInv, Join!vars, StationPart, ApTypes, AnswersFit, ListsFit
<1> QED BY <1>1, <1>2, <1>3, <1>4, <1>5, <1>6, <1>7, <1>8, <1>9, <1>10 DEF Join!Next

\* The invariant always holds.
LEMMA JoinAlways ==
  ASSUME Join!JoinAssumption, ScanType # "active"
  PROVE  Join!Spec => []JoinInv
<1>1. Join!Init => JoinInv BY JoinBegins
<1>2. JoinInv /\ [Join!Next]_Join!vars => JoinInv' BY JoinStep
<1> QED BY <1>1, <1>2, PTL DEF Join!Spec

\* Without active scanning a station that is not joined always has a timer, a request or
\* a reset ahead of it, and no join is called complete by a station that is not
\* associated, whatever is lost and however it moves.
THEOREM JoinNeverStuck ==
  ASSUME Join!JoinAssumption, ScanType # "active"
  PROVE  Join!Spec => [](Join!JoinGoesOn /\ Join!NoJoinError)
<1>1. JoinInv => Join!JoinGoesOn /\ Join!NoJoinError
  BY DEF JoinInv, StationPart, Goes, Join!JoinGoesOn, Join!NoJoinError
<1> QED BY <1>1, JoinAlways, PTL

\* Without active scanning the radio is on the channel of the access point that the
\* station has joined or asks.
THEOREM JoinTuned ==
  ASSUME Join!JoinAssumption, ScanType # "active"
  PROVE  Join!Spec => []Join!TunedToAp
<1>1. JoinInv => Join!TunedToAp
  BY JoinValues DEF JoinInv, StationPart, StationInv, ProgressFits, Join!TunedToAp,
     Join!IsJoined, AskingStates, Towards
<1> QED BY <1>1, JoinAlways, PTL

\* Without active scanning the access point that a station has joined lists it under the
\* id the station took, and no other station has it, until the inactivity check drops it.
THEOREM JoinListed ==
  ASSUME Join!JoinAssumption, ScanType # "active"
  PROVE  Join!Spec => []Join!JoinedIsListed
<1>1. JoinInv => Join!JoinedIsListed
  <2> SUFFICES ASSUME JoinInv, Join!IsJoined(joinSta), ~unlisted[joinSta.associatedAP]
               PROVE  /\ joinSta.aid = listed[joinSta.associatedAP]
                      /\ joinSta.aid \notin Taken[joinSta.associatedAP]
    BY DEF Join!JoinedIsListed
  <2>1. joinSta.associatedAP \in APs BY DEF JoinInv, StationPart, StationInv, ProgressFits,
                                        Join!IsJoined
  <2> QED BY <2>1 DEF JoinInv, ListsFit
<1> QED BY <1>1, JoinAlways, PTL
=============================================================================
