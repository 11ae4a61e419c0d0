---------------------------- MODULE ConsentProofs ----------------------------
(* Proofs about the promise of attended support.                           *)
EXTENDS Consent, TLAPS

(* The steps by themselves, for the specifications that implement this one *)
(* from another initial state.                                             *)
LEMMA TypesAreKept == TypeOK /\ [Next]_vars => TypeOK'
<1>. SUFFICES ASSUME TypeOK, [Next]_vars
              PROVE  TypeOK'
  OBVIOUS
<1>. USE DEF TypeOK, Thing
<1>1. ASSUME NEW s \in Session, Attend(s)
      PROVE  TypeOK'
  BY <1>1 DEF Attend
<1>2. ASSUME NEW s \in Session, NEW thing \in Thing, Ask(s, thing)
      PROVE  TypeOK'
  BY <1>2 DEF Ask
<1>3. ASSUME NEW s \in Session, Grant(s)
      PROVE  TypeOK'
  <2>1. Granted(s) \in SUBSET Thing
    BY <1>3 DEF Grant, Granted
  <2>. QED  BY <1>3, <2>1 DEF Grant
<1>4. ASSUME NEW s \in Session, Refuse(s)
      PROVE  TypeOK'
  BY <1>4 DEF Refuse
<1>5. ASSUME NEW s \in Session, Revoke(s)
      PROVE  TypeOK'
  BY <1>5 DEF Revoke
<1>6. ASSUME NEW S \in SUBSET Session, Close(S)
      PROVE  TypeOK'
  BY <1>6 DEF Close
<1>7. CASE UNCHANGED vars
  BY <1>7 DEF vars
<1>. QED  BY <1>1, <1>2, <1>3, <1>4, <1>5, <1>6, <1>7 DEF Next

LEMMA ViewIsKept ==
  TypeOK /\ ControlNeedsView /\ [Next]_vars => ControlNeedsView'
<1>. SUFFICES ASSUME TypeOK, ControlNeedsView, [Next]_vars
              PROVE  ControlNeedsView'
  OBVIOUS
<1>. USE DEF TypeOK, ControlNeedsView, Thing
<1>1. ASSUME NEW s \in Session, Attend(s)
      PROVE  ControlNeedsView'
  BY <1>1 DEF Attend
<1>2. ASSUME NEW s \in Session, NEW thing \in Thing, Ask(s, thing)
      PROVE  ControlNeedsView'
  BY <1>2 DEF Ask, Askable
<1>3. ASSUME NEW s \in Session, Grant(s)
      PROVE  ControlNeedsView'
  BY <1>3 DEF Grant, Granted
<1>4. ASSUME NEW s \in Session, Refuse(s) \/ Revoke(s)
      PROVE  ControlNeedsView'
  BY <1>4 DEF Refuse, Revoke
<1>5. ASSUME NEW S \in SUBSET Session, Close(S)
      PROVE  ControlNeedsView'
  BY <1>5 DEF Close
<1>6. CASE UNCHANGED vars
  BY <1>6 DEF vars
<1>. QED  BY <1>1, <1>2, <1>3, <1>4, <1>5, <1>6 DEF Next

LEMMA GrantsAnswer ==
  TypeOK /\ ControlNeedsView /\ [Next]_vars =>
    [\A s \in Session : \A thing \in grants'[s] \ grants[s] :
       attended[s] /\ asked[s] = thing]_vars
<1>. SUFFICES ASSUME TypeOK, ControlNeedsView, Next, NEW t \in Session,
                     NEW thing \in grants'[t] \ grants[t]
              PROVE  attended[t] /\ asked[t] = thing
  OBVIOUS
<1>. USE DEF TypeOK, ControlNeedsView
<1>1. ASSUME NEW s \in Session, Attend(s) \/ Refuse(s)
      PROVE  FALSE
  BY <1>1 DEF Attend, Refuse
<1>2. ASSUME NEW s \in Session, NEW what \in Thing, Ask(s, what)
      PROVE  FALSE
  BY <1>2 DEF Ask
<1>3. ASSUME NEW s \in Session, Grant(s)
      PROVE  attended[t] /\ asked[t] = thing
  BY <1>3 DEF Grant, Granted
<1>4. ASSUME NEW s \in Session, Revoke(s)
      PROVE  FALSE
  BY <1>4 DEF Revoke
<1>5. ASSUME NEW S \in SUBSET Session, Close(S)
      PROVE  FALSE
  BY <1>5 DEF Close
<1>. QED  BY <1>1, <1>2, <1>3, <1>4, <1>5 DEF Next

(* Type correctness of the abstract specification.                         *)
THEOREM ConsentTypes == Spec => []TypeOK
<1>1. Init => TypeOK
  BY DEF Init, TypeOK, Thing
<1>. QED  BY <1>1, TypesAreKept, PTL DEF Spec

(* Control is never held or asked for without the view, nor anything       *)
(* without a host: inductive as it stands, once the types are known.       *)
THEOREM ControlWithView == Spec => []ControlNeedsView
<1>1. Init => ControlNeedsView
  BY DEF Init, ControlNeedsView
<1>. QED  BY <1>1, ViewIsKept, ConsentTypes, PTL DEF Spec

(* A grant is the answer to a standing request of an attended session.     *)
THEOREM GrantsFollowRequests == Spec => GrantsWereAsked
BY GrantsAnswer, ConsentTypes, ControlWithView, PTL DEF Spec, GrantsWereAsked
=============================================================================
