------------------------ MODULE ToolApprovalsProofs ------------------------
(***************************************************************************)
(* Proofs about ToolApprovals for any number of cards, runs, chats and     *)
(* owners: the inductive invariant, one lemma per action; the properties   *)
(* of the store and of the gate; and the refinement of ApprovalLifecycle.  *)
(***************************************************************************)
EXTENDS ToolApprovals, FiniteSetTheorems, TLAPS

-----------------------------------------------------------------------------
(* The inductive invariant. *)

\* The run that asked for a card was started; a card that was decided is no
\* longer pending.
UsedInv ==
  /\ \A a \in Approvals : origin[a] # NoRun => phase[origin[a]] # "free"
  /\ pending \subseteq Created /\ armed \subseteq Created
  /\ \A a \in Approvals : verdict[a] # "none" => a \in Created \ pending

\* Nothing is known of a run before it starts.
FreeInv ==
  \A r \in Runs : phase[r] = "free" => sealed[r] = NoCard /\ r \notin bypassed

\* A run is resumed with a card of its own owner and session, which was
\* allowed; no two runs with the same; and only one not yet claimed is due.
SealInv ==
  /\ \A r \in Runs : sealed[r] # NoCard =>
       verdict[sealed[r]] \in Allows /\ At(sealed[r], owner[r], place[r])
  /\ \A q, r \in Runs : sealed[q] = sealed[r] /\ sealed[r] # NoCard => q = r
  /\ \A r \in Runs : phase[r] = "sealed" => sealed[r] \in Approvals \ claimed

ClaimInv == \A a \in claimed : verdict[a] \in Allows /\ a \in armed

\* The runs of a chat are its owner's.
PlaceInv == \A r \in Runs : place[r] \in Chats => owner[r] = ChatOwner[place[r]]

\* A grant is stamped on the card it was given for, in a chat.
StampInv ==
  \A a \in stamped \cup durable : verdict[a] = "approve" /\ place[origin[a]] \in Chats

\* The gate is open only for a chat's run with its owner's consent.
BypassInv ==
  /\ \A r \in bypassed :
       kind[r] = "chat" /\ place[r] \in Chats /\ \E a \in Approvals : Consent(r, a)
  /\ acted \subseteq bypassed

IInv ==
  /\ TypeOK /\ UsedInv /\ FreeInv /\ SealInv /\ ClaimInv
  /\ PlaceInv /\ StampInv /\ BypassInv /\ OneCardPerChat

-----------------------------------------------------------------------------
(* Every action preserves it. *)

\* Cards that go away leave at most one card per chat and at most
\* max_pending of them.
LEMMA FewerCards ==
  ASSUME pending \subseteq Approvals, pending' \subseteq pending,
         Cardinality(pending) <= MaxPending
  PROVE  Cardinality(pending') <= MaxPending
<1>1. IsFiniteSet(pending)
  BY FS_Subset, ConstantsAssumption
<1>2. Cardinality(pending') <= Cardinality(pending)
  BY <1>1, FS_Subset
<1>3. Cardinality(pending) \in Nat /\ Cardinality(pending') \in Nat
  BY <1>1, FS_Subset, FS_CardinalityType
<1> QED
  BY <1>2, <1>3, ConstantsAssumption

\* Message(c, r, k) preserves the inductive invariant.
LEMMA KeepMessage ==
ASSUME IInv, NEW c \in Chats, NEW r \in Runs, NEW k \in {"chat",
         "delegated"}, Message(c, r, k)
  PROVE  IInv'
<1> USE ConstantsAssumption DEF IInv, TypeOK, Message, StartRun, Unexpired,
      chatVars
<1>1. TypeOK'
BY DEF Allows, Kinds, Places
<1>2. UsedInv'
BY DEF UsedInv, FreeInv, Created, Allows
<1>3. FreeInv'
BY DEF FreeInv, BypassInv, SealInv
<1>4. SealInv'
BY DEF SealInv, UsedInv, FreeInv, ClaimInv, Created, Allows, At
<1>5. ClaimInv'
BY DEF ClaimInv, SealInv, UsedInv, Created, Allows
<1>6. PlaceInv'
BY DEF PlaceInv, Places
<1>7. StampInv'
BY DEF StampInv, UsedInv, Created, At
<1>8. BypassInv'
  <2>1. \A q \in Runs, b \in Approvals : q # r /\ Consent(q, b) /\ phase[q] # "free" => Consent(q, b)'
    BY DEF Consent, At, UsedInv, Created, Allows
  <2>2. \A q \in bypassed : q # r /\ phase[q] # "free"
    BY DEF FreeInv
  <2>3. CASE r \in bypassed'
    <3>1. k = "chat" /\ ChatGranted(c)
      BY <2>2, <2>3
    <3>2. PICK b \in stamped : place[origin[b]] = c
      BY <3>1 DEF ChatGranted
    <3>3. verdict[b] = "approve" /\ origin[b] \in Runs /\ phase[origin[b]] # "free"
      BY <3>2 DEF StampInv, UsedInv, Created
    <3>4. owner[origin[b]] = ChatOwner[c]
      BY <3>2, <3>3 DEF PlaceInv
    <3>5. Consent(r, b)'
      BY <3>2, <3>3, <3>4 DEF Consent, At
    <3> QED
      BY <2>1, <2>2, <3>1, <3>5 DEF BypassInv
  <2>4. CASE r \notin bypassed'
    BY <2>1, <2>2, <2>4 DEF BypassInv
  <2> QED
    BY <2>3, <2>4
<1>9. OneCardPerChat'
  <2>1. pending' \subseteq pending
    OBVIOUS
  <2>2. \A b \in pending : origin'[b] = origin[b] /\ place'[origin[b]] = place[origin[b]]
    BY DEF UsedInv, Created
  <2> QED
    BY <2>1, <2>2, FewerCards DEF OneCardPerChat
<1> QED
  BY <1>1, <1>2, <1>3, <1>4, <1>5, <1>6, <1>7, <1>8, <1>9 DEF IInv

\* MessageRejected(c) preserves the inductive invariant.
LEMMA KeepMessageRejected ==
ASSUME IInv, NEW c \in Chats, MessageRejected(c)
  PROVE  IInv'
<1> USE ConstantsAssumption DEF IInv, TypeOK, MessageRejected, Unexpired,
      runVars, chatVars
<1>1. TypeOK'
BY DEF Allows, Kinds, Places
<1>2. UsedInv'
BY DEF UsedInv, FreeInv, Created, Allows
<1>3. FreeInv'
BY DEF FreeInv, BypassInv, SealInv
<1>4. SealInv'
BY DEF SealInv, UsedInv, FreeInv, ClaimInv, Created, Allows, At
<1>5. ClaimInv'
BY DEF ClaimInv, SealInv, UsedInv, Created, Allows
<1>6. PlaceInv'
BY DEF PlaceInv, Places
<1>7. StampInv'
BY DEF StampInv, UsedInv, Created, At
<1>8. BypassInv'
BY DEF BypassInv, Consent, StampInv, UsedInv, FreeInv, SealInv, PlaceInv,
      ChatGranted, Created, Allows, At
<1>9. OneCardPerChat'
  <2>1. pending' \subseteq pending
    OBVIOUS
  <2>2. \A b \in pending : origin'[b] = origin[b] /\ place'[origin[b]] = place[origin[b]]
    BY DEF UsedInv, Created
  <2> QED
    BY <2>1, <2>2, FewerCards DEF OneCardPerChat
<1> QED
  BY <1>1, <1>2, <1>3, <1>4, <1>5, <1>6, <1>7, <1>8, <1>9 DEF IInv

\* StartHeadless(r, o, k) preserves the inductive invariant.
LEMMA KeepStartHeadless ==
ASSUME IInv, NEW r \in Runs, NEW o \in Owners, NEW k \in {"skill",
         "unattended"}, StartHeadless(r, o, k)
  PROVE  IInv'
<1> USE ConstantsAssumption DEF IInv, TypeOK, StartHeadless, StartRun,
      storeVars, chatVars
<1>1. TypeOK'
BY DEF Allows, Kinds, Places
<1>2. UsedInv'
BY DEF UsedInv, FreeInv, Created, Allows
<1>3. FreeInv'
BY DEF FreeInv, BypassInv, SealInv
<1>4. SealInv'
BY DEF SealInv, UsedInv, FreeInv, ClaimInv, Created, Allows, At
<1>5. ClaimInv'
BY DEF ClaimInv, SealInv, UsedInv, Created, Allows
<1>6. PlaceInv'
BY DEF PlaceInv, Places
<1>7. StampInv'
BY DEF StampInv, UsedInv, Created, At
<1>8. BypassInv'
BY SMTT(30) DEF BypassInv, Consent, StampInv, UsedInv, FreeInv, SealInv, PlaceInv,
      ChatGranted, Created, Allows, At
<1>9. OneCardPerChat'
  <2>1. pending' \subseteq pending
    OBVIOUS
  <2>2. \A b \in pending : origin'[b] = origin[b] /\ place'[origin[b]] = place[origin[b]]
    BY DEF UsedInv, Created
  <2> QED
    BY <2>1, <2>2, FewerCards DEF OneCardPerChat
<1> QED
  BY <1>1, <1>2, <1>3, <1>4, <1>5, <1>6, <1>7, <1>8, <1>9 DEF IInv

\* StartUnasked(r, c, k) preserves the inductive invariant.
LEMMA KeepStartUnasked ==
ASSUME IInv, NEW r \in Runs, NEW c \in Chats, NEW k \in {"chat",
         "unattended"}, StartUnasked(r, c, k)
  PROVE  IInv'
<1> USE ConstantsAssumption DEF IInv, TypeOK, StartUnasked, StartRun,
      storeVars, chatVars
<1>1. TypeOK'
BY DEF Allows, Kinds, Places
<1>2. UsedInv'
BY DEF UsedInv, FreeInv, Created, Allows
<1>3. FreeInv'
BY DEF FreeInv, BypassInv, SealInv
<1>4. SealInv'
BY DEF SealInv, UsedInv, FreeInv, ClaimInv, Created, Allows, At
<1>5. ClaimInv'
BY DEF ClaimInv, SealInv, UsedInv, Created, Allows
<1>6. PlaceInv'
BY DEF PlaceInv, Places
<1>7. StampInv'
BY DEF StampInv, UsedInv, Created, At
<1>8. BypassInv'
  <2>1. \A q \in Runs, b \in Approvals : q # r /\ Consent(q, b) /\ phase[q] # "free" => Consent(q, b)'
    BY DEF Consent, At, UsedInv, Created, Allows
  <2>2. \A q \in bypassed : q # r /\ phase[q] # "free"
    BY DEF FreeInv
  <2>3. CASE r \in bypassed'
    <3>1. k = "chat" /\ ChatGranted(c)
      BY <2>2, <2>3
    <3>2. PICK b \in stamped : place[origin[b]] = c
      BY <3>1 DEF ChatGranted
    <3>3. verdict[b] = "approve" /\ origin[b] \in Runs /\ phase[origin[b]] # "free"
      BY <3>2 DEF StampInv, UsedInv, Created
    <3>4. owner[origin[b]] = ChatOwner[c]
      BY <3>2, <3>3 DEF PlaceInv
    <3>5. Consent(r, b)'
      BY <3>2, <3>3, <3>4 DEF Consent, At
    <3> QED
      BY <2>1, <2>2, <3>1, <3>5 DEF BypassInv
  <2>4. CASE r \notin bypassed'
    BY <2>1, <2>2, <2>4 DEF BypassInv
  <2> QED
    BY <2>3, <2>4
<1>9. OneCardPerChat'
  <2>1. pending' \subseteq pending
    OBVIOUS
  <2>2. \A b \in pending : origin'[b] = origin[b] /\ place'[origin[b]] = place[origin[b]]
    BY DEF UsedInv, Created
  <2> QED
    BY <2>1, <2>2, FewerCards DEF OneCardPerChat
<1> QED
  BY <1>1, <1>2, <1>3, <1>4, <1>5, <1>6, <1>7, <1>8, <1>9 DEF IInv

\* ObserveToolResult(r) preserves the inductive invariant.
LEMMA KeepObserveToolResult ==
ASSUME IInv, NEW r \in Runs, ObserveToolResult(r)
  PROVE  IInv'
<1> USE ConstantsAssumption DEF IInv, TypeOK, ObserveToolResult, storeVars,
      chatVars
<1>1. TypeOK'
BY DEF Allows, Kinds, Places
<1>2. UsedInv'
BY DEF UsedInv, FreeInv, Created, Allows
<1>3. FreeInv'
BY DEF FreeInv, BypassInv, SealInv
<1>4. SealInv'
BY DEF SealInv, UsedInv, FreeInv, ClaimInv, Created, Allows, At
<1>5. ClaimInv'
BY DEF ClaimInv, SealInv, UsedInv, Created, Allows
<1>6. PlaceInv'
BY DEF PlaceInv, Places
<1>7. StampInv'
BY DEF StampInv, UsedInv, Created, At
<1>8. BypassInv'
BY DEF BypassInv, Consent, StampInv, UsedInv, FreeInv, SealInv, PlaceInv,
      ChatGranted, Created, Allows, At
<1>9. OneCardPerChat'
  <2>1. pending' \subseteq pending
    OBVIOUS
  <2>2. \A b \in pending : origin'[b] = origin[b] /\ place'[origin[b]] = place[origin[b]]
    BY DEF UsedInv, Created
  <2> QED
    BY <2>1, <2>2, FewerCards DEF OneCardPerChat
<1> QED
  BY <1>1, <1>2, <1>3, <1>4, <1>5, <1>6, <1>7, <1>8, <1>9 DEF IInv

\* Act(r) preserves the inductive invariant.
LEMMA KeepAct ==
ASSUME IInv, NEW r \in Runs, Act(r)
  PROVE  IInv'
<1> USE ConstantsAssumption DEF IInv, TypeOK, Act, DecisionFor, storeVars,
      runVars, chatVars
<1>1. TypeOK'
BY DEF Allows, Kinds, Places
<1>2. UsedInv'
BY DEF UsedInv, FreeInv, Created, Allows
<1>3. FreeInv'
BY DEF FreeInv, BypassInv, SealInv
<1>4. SealInv'
BY DEF SealInv, UsedInv, FreeInv, ClaimInv, Created, Allows, At
<1>5. ClaimInv'
BY DEF ClaimInv, SealInv, UsedInv, Created, Allows
<1>6. PlaceInv'
BY DEF PlaceInv, Places
<1>7. StampInv'
BY DEF StampInv, UsedInv, Created, At
<1>8. BypassInv'
BY DEF BypassInv, Consent, StampInv, UsedInv, FreeInv, SealInv, PlaceInv,
      ChatGranted, Created, Allows, At
<1>9. OneCardPerChat'
  <2>1. pending' \subseteq pending
    OBVIOUS
  <2>2. \A b \in pending : origin'[b] = origin[b] /\ place'[origin[b]] = place[origin[b]]
    BY DEF UsedInv, Created
  <2> QED
    BY <2>1, <2>2, FewerCards DEF OneCardPerChat
<1> QED
  BY <1>1, <1>2, <1>3, <1>4, <1>5, <1>6, <1>7, <1>8, <1>9 DEF IInv

\* ExecuteSealed(r) preserves the inductive invariant.
LEMMA KeepExecuteSealed ==
ASSUME IInv, NEW r \in Runs, ExecuteSealed(r)
  PROVE  IInv'
<1> USE ConstantsAssumption DEF IInv, TypeOK, ExecuteSealed, storeVars,
      chatVars
<1>1. TypeOK'
BY DEF Allows, Kinds, Places
<1>2. UsedInv'
BY DEF UsedInv, FreeInv, Created, Allows
<1>3. FreeInv'
BY DEF FreeInv, BypassInv, SealInv
<1>4. SealInv'
BY DEF SealInv, UsedInv, FreeInv, ClaimInv, Created, Allows, At
<1>5. ClaimInv'
BY DEF ClaimInv, SealInv, UsedInv, Created, Allows
<1>6. PlaceInv'
BY DEF PlaceInv, Places
<1>7. StampInv'
BY DEF StampInv, UsedInv, Created, At
<1>8. BypassInv'
BY DEF BypassInv, Consent, StampInv, UsedInv, FreeInv, SealInv, PlaceInv,
      ChatGranted, Created, Allows, At
<1>9. OneCardPerChat'
  <2>1. pending' \subseteq pending
    OBVIOUS
  <2>2. \A b \in pending : origin'[b] = origin[b] /\ place'[origin[b]] = place[origin[b]]
    BY DEF UsedInv, Created
  <2> QED
    BY <2>1, <2>2, FewerCards DEF OneCardPerChat
<1> QED
  BY <1>1, <1>2, <1>3, <1>4, <1>5, <1>6, <1>7, <1>8, <1>9 DEF IInv

\* RefuseSealed(r) preserves the inductive invariant.
LEMMA KeepRefuseSealed ==
ASSUME IInv, NEW r \in Runs, RefuseSealed(r)
  PROVE  IInv'
<1> USE ConstantsAssumption DEF IInv, TypeOK, RefuseSealed, storeVars,
      chatVars
<1>1. TypeOK'
BY DEF Allows, Kinds, Places
<1>2. UsedInv'
BY DEF UsedInv, FreeInv, Created, Allows
<1>3. FreeInv'
BY DEF FreeInv, BypassInv, SealInv
<1>4. SealInv'
BY DEF SealInv, UsedInv, FreeInv, ClaimInv, Created, Allows, At
<1>5. ClaimInv'
BY DEF ClaimInv, SealInv, UsedInv, Created, Allows
<1>6. PlaceInv'
BY DEF PlaceInv, Places
<1>7. StampInv'
BY DEF StampInv, UsedInv, Created, At
<1>8. BypassInv'
BY DEF BypassInv, Consent, StampInv, UsedInv, FreeInv, SealInv, PlaceInv,
      ChatGranted, Created, Allows, At
<1>9. OneCardPerChat'
  <2>1. pending' \subseteq pending
    OBVIOUS
  <2>2. \A b \in pending : origin'[b] = origin[b] /\ place'[origin[b]] = place[origin[b]]
    BY DEF UsedInv, Created
  <2> QED
    BY <2>1, <2>2, FewerCards DEF OneCardPerChat
<1> QED
  BY <1>1, <1>2, <1>3, <1>4, <1>5, <1>6, <1>7, <1>8, <1>9 DEF IInv

\* EndRun(r) preserves the inductive invariant.
LEMMA KeepEndRun ==
ASSUME IInv, NEW r \in Runs, EndRun(r)
  PROVE  IInv'
<1> USE ConstantsAssumption DEF IInv, TypeOK, EndRun, storeVars
<1>1. TypeOK'
BY DEF Allows, Kinds, Places
<1>2. UsedInv'
BY DEF UsedInv, FreeInv, Created, Allows
<1>3. FreeInv'
BY DEF FreeInv, BypassInv, SealInv
<1>4. SealInv'
BY DEF SealInv, UsedInv, FreeInv, ClaimInv, Created, Allows, At
<1>5. ClaimInv'
BY DEF ClaimInv, SealInv, UsedInv, Created, Allows
<1>6. PlaceInv'
BY DEF PlaceInv, Places
<1>7. StampInv'
BY DEF StampInv, UsedInv, Created, At
<1>8. BypassInv'
BY DEF BypassInv, Consent, StampInv, UsedInv, FreeInv, SealInv, PlaceInv,
      ChatGranted, Created, Allows, At
<1>9. OneCardPerChat'
  <2>1. pending' \subseteq pending
    OBVIOUS
  <2>2. \A b \in pending : origin'[b] = origin[b] /\ place'[origin[b]] = place[origin[b]]
    BY DEF UsedInv, Created
  <2> QED
    BY <2>1, <2>2, FewerCards DEF OneCardPerChat
<1> QED
  BY <1>1, <1>2, <1>3, <1>4, <1>5, <1>6, <1>7, <1>8, <1>9 DEF IInv

\* AskApproval(r, a) preserves the inductive invariant.
LEMMA KeepAskApproval ==
ASSUME IInv, NEW r \in Runs, NEW a \in Approvals, AskApproval(r, a)
  PROVE  IInv'
<1> USE ConstantsAssumption DEF IInv, TypeOK, AskApproval, Create,
      Unexpired, chatVars
<1>1. TypeOK'
BY DEF Allows, Kinds, Places
<1>2. UsedInv'
BY DEF UsedInv, FreeInv, Created, Allows
<1>3. FreeInv'
BY DEF FreeInv, BypassInv, SealInv
<1>4. SealInv'
BY DEF SealInv, UsedInv, FreeInv, ClaimInv, Created, Allows, At
<1>5. ClaimInv'
BY DEF ClaimInv, SealInv, UsedInv, Created, Allows
<1>6. PlaceInv'
BY DEF PlaceInv, Places
<1>7. StampInv'
BY DEF StampInv, UsedInv, Created, At
<1>8. BypassInv'
BY DEF BypassInv, Consent, StampInv, UsedInv, FreeInv, SealInv, PlaceInv,
      ChatGranted, Created, Allows, At
<1>9. OneCardPerChat'
  <2>1. PICK E \in SUBSET (Unexpired \ Superseded(r)) :
          /\ Evicted(E, Unexpired \ Superseded(r))
          /\ pending' = (Unexpired \ (Superseded(r) \cup E)) \cup {a}
    BY DEF Create
  <2> DEFINE rest == (Unexpired \ Superseded(r)) \ E
  <2>2. pending' = rest \cup {a} /\ rest \subseteq pending /\ a \notin pending
    BY <2>1 DEF UsedInv, Created
  <2>3. IsFiniteSet(rest) /\ Cardinality(rest) < MaxPending
    <3>1. IsFiniteSet(rest)
      BY <2>2, FS_Subset, ConstantsAssumption
    <3> QED
      BY <2>1, <3>1 DEF Evicted
  <2>4. Cardinality(pending') <= MaxPending
    <3>1. Cardinality(rest \cup {a}) = Cardinality(rest) + 1
      BY <2>2, <2>3, FS_AddElement
    <3>2. Cardinality(rest) \in Nat
      BY <2>3, FS_CardinalityType
    <3>3. Cardinality(pending') = Cardinality(rest \cup {a})
      BY ONLY <2>2, Zenon
    <3> QED
      BY ONLY <2>3, <3>1, <3>2, <3>3, ConstantsAssumption
  <2>5. ASSUME NEW b \in rest, place[origin[b]] = place[r], place[r] \in Chats PROVE FALSE
    <3>1. origin[b] \in Runs /\ b \in Unexpired
      BY <2>2 DEF UsedInv, Created
    <3>2. At(b, owner[r], place[r])
      BY <2>5, <3>1 DEF At, PlaceInv
    <3> QED
      BY <2>5, <3>1, <3>2, ConstantsAssumption DEF Superseded
  <2>6. origin' = [origin EXCEPT ![a] = r] /\ place' = place
    BY DEF Create
  <2>7. \A b \in rest : b \in Approvals /\ b # a /\ origin'[b] = origin[b] /\ origin'[a] = r
    BY <2>2, <2>6
  <2>8. \A b, d \in pending' :
          place'[origin'[b]] = place'[origin'[d]] /\ place'[origin'[b]] \in Chats => b = d
    BY <2>2, <2>5, <2>6, <2>7 DEF OneCardPerChat
  <2> QED
    BY <2>4, <2>8 DEF OneCardPerChat
<1> QED
  BY <1>1, <1>2, <1>3, <1>4, <1>5, <1>6, <1>7, <1>8, <1>9 DEF IInv

\* Approve(c, a, d, r) preserves the inductive invariant.
LEMMA KeepApprove ==
ASSUME IInv, NEW c \in Chats, NEW a \in Approvals, NEW d \in Allows, NEW r
         \in Runs, Approve(c, a, d, r)
  PROVE  IInv'
<1> USE ConstantsAssumption DEF IInv, TypeOK, Approve, Consume,
      MarkResolved, StartRun, Unexpired, At
<1>1. TypeOK'
BY DEF Allows, Kinds, Places
<1>2. UsedInv'
BY DEF UsedInv, FreeInv, Created, Allows
<1>3. FreeInv'
BY DEF FreeInv, BypassInv, SealInv
<1>4. SealInv'
BY DEF SealInv, UsedInv, FreeInv, ClaimInv, Created, Allows, At
<1>5. ClaimInv'
BY DEF ClaimInv, SealInv, UsedInv, Created, Allows
<1>6. PlaceInv'
BY DEF PlaceInv, Places
<1>7. StampInv'
BY DEF StampInv, UsedInv, Created, At
<1>8. BypassInv'
BY SMTT(30) DEF BypassInv, Consent, StampInv, UsedInv, FreeInv, SealInv, PlaceInv,
      ChatGranted, Created, Allows, At
<1>9. OneCardPerChat'
  <2>1. pending' \subseteq pending
    OBVIOUS
  <2>2. \A b \in pending : origin'[b] = origin[b] /\ place'[origin[b]] = place[origin[b]]
    BY DEF UsedInv, Created
  <2> QED
    BY <2>1, <2>2, FewerCards DEF OneCardPerChat
<1> QED
  BY <1>1, <1>2, <1>3, <1>4, <1>5, <1>6, <1>7, <1>8, <1>9 DEF IInv

\* Deny(c, a, d) preserves the inductive invariant.
LEMMA KeepDeny ==
ASSUME IInv, NEW c \in Chats, NEW a \in Approvals, NEW d \in Allows \cup
         {"deny"}, Deny(c, a, d)
  PROVE  IInv'
<1> USE ConstantsAssumption DEF IInv, TypeOK, Deny, Consume, MarkResolved,
      Unexpired, At, runVars
<1>1. TypeOK'
BY DEF Allows, Kinds, Places
<1>2. UsedInv'
BY DEF UsedInv, FreeInv, Created, Allows
<1>3. FreeInv'
BY DEF FreeInv, BypassInv, SealInv
<1>4. SealInv'
BY DEF SealInv, UsedInv, FreeInv, ClaimInv, Created, Allows, At
<1>5. ClaimInv'
BY DEF ClaimInv, SealInv, UsedInv, Created, Allows
<1>6. PlaceInv'
BY DEF PlaceInv, Places
<1>7. StampInv'
BY DEF StampInv, UsedInv, Created, At
<1>8. BypassInv'
BY DEF BypassInv, Consent, StampInv, UsedInv, FreeInv, SealInv, PlaceInv,
      ChatGranted, Created, Allows, At
<1>9. OneCardPerChat'
  <2>1. pending' \subseteq pending
    OBVIOUS
  <2>2. \A b \in pending : origin'[b] = origin[b] /\ place'[origin[b]] = place[origin[b]]
    BY DEF UsedInv, Created
  <2> QED
    BY <2>1, <2>2, FewerCards DEF OneCardPerChat
<1> QED
  BY <1>1, <1>2, <1>3, <1>4, <1>5, <1>6, <1>7, <1>8, <1>9 DEF IInv

\* ApproveSkillTest(o, a, r) preserves the inductive invariant.
LEMMA KeepApproveSkillTest ==
ASSUME IInv, NEW o \in Owners, NEW a \in Approvals, NEW r \in Runs,
         ApproveSkillTest(o, a, r)
  PROVE  IInv'
<1> USE ConstantsAssumption DEF IInv, TypeOK, ApproveSkillTest, Consume,
      StartRun, Unexpired, At, chatVars
<1>1. TypeOK'
BY DEF Allows, Kinds, Places
<1>2. UsedInv'
BY DEF UsedInv, FreeInv, Created, Allows
<1>3. FreeInv'
BY DEF FreeInv, BypassInv, SealInv
<1>4. SealInv'
BY DEF SealInv, UsedInv, FreeInv, ClaimInv, Created, Allows, At
<1>5. ClaimInv'
BY DEF ClaimInv, SealInv, UsedInv, Created, Allows
<1>6. PlaceInv'
BY DEF PlaceInv, Places
<1>7. StampInv'
BY DEF StampInv, UsedInv, Created, At
<1>8. BypassInv'
BY DEF BypassInv, Consent, StampInv, UsedInv, FreeInv, SealInv, PlaceInv,
      ChatGranted, Created, Allows, At
<1>9. OneCardPerChat'
  <2>1. pending' \subseteq pending
    OBVIOUS
  <2>2. \A b \in pending : origin'[b] = origin[b] /\ place'[origin[b]] = place[origin[b]]
    BY DEF UsedInv, Created
  <2> QED
    BY <2>1, <2>2, FewerCards DEF OneCardPerChat
<1> QED
  BY <1>1, <1>2, <1>3, <1>4, <1>5, <1>6, <1>7, <1>8, <1>9 DEF IInv

\* DenyHeadless(a) preserves the inductive invariant.
LEMMA KeepDenyHeadless ==
ASSUME IInv, NEW a \in Approvals, DenyHeadless(a)
  PROVE  IInv'
<1> USE ConstantsAssumption DEF IInv, TypeOK, DenyHeadless, Consume,
      Unexpired, At, chatVars
<1>1. TypeOK'
BY DEF Allows, Kinds, Places
<1>2. UsedInv'
BY DEF UsedInv, FreeInv, Created, Allows
<1>3. FreeInv'
BY DEF FreeInv, BypassInv, SealInv
<1>4. SealInv'
BY DEF SealInv, UsedInv, FreeInv, ClaimInv, Created, Allows, At
<1>5. ClaimInv'
BY DEF ClaimInv, SealInv, UsedInv, Created, Allows
<1>6. PlaceInv'
BY DEF PlaceInv, Places
<1>7. StampInv'
BY DEF StampInv, UsedInv, Created, At
<1>8. BypassInv'
BY DEF BypassInv, Consent, StampInv, UsedInv, FreeInv, SealInv, PlaceInv,
      ChatGranted, Created, Allows, At
<1>9. OneCardPerChat'
  <2>1. pending' \subseteq pending
    OBVIOUS
  <2>2. \A b \in pending : origin'[b] = origin[b] /\ place'[origin[b]] = place[origin[b]]
    BY DEF UsedInv, Created
  <2> QED
    BY <2>1, <2>2, FewerCards DEF OneCardPerChat
<1> QED
  BY <1>1, <1>2, <1>3, <1>4, <1>5, <1>6, <1>7, <1>8, <1>9 DEF IInv

\* RefuseAnswer preserves the inductive invariant.
LEMMA KeepRefuseAnswer ==
ASSUME IInv, RefuseAnswer
  PROVE  IInv'
<1> USE ConstantsAssumption DEF IInv, TypeOK, RefuseAnswer, Unexpired,
      runVars, chatVars
<1>1. TypeOK'
BY DEF Allows, Kinds, Places
<1>2. UsedInv'
BY DEF UsedInv, FreeInv, Created, Allows
<1>3. FreeInv'
BY DEF FreeInv, BypassInv, SealInv
<1>4. SealInv'
BY DEF SealInv, UsedInv, FreeInv, ClaimInv, Created, Allows, At
<1>5. ClaimInv'
BY DEF ClaimInv, SealInv, UsedInv, Created, Allows
<1>6. PlaceInv'
BY DEF PlaceInv, Places
<1>7. StampInv'
BY DEF StampInv, UsedInv, Created, At
<1>8. BypassInv'
BY DEF BypassInv, Consent, StampInv, UsedInv, FreeInv, SealInv, PlaceInv,
      ChatGranted, Created, Allows, At
<1>9. OneCardPerChat'
  <2>1. pending' \subseteq pending
    OBVIOUS
  <2>2. \A b \in pending : origin'[b] = origin[b] /\ place'[origin[b]] = place[origin[b]]
    BY DEF UsedInv, Created
  <2> QED
    BY <2>1, <2>2, FewerCards DEF OneCardPerChat
<1> QED
  BY <1>1, <1>2, <1>3, <1>4, <1>5, <1>6, <1>7, <1>8, <1>9 DEF IInv

\* Tick preserves the inductive invariant.
LEMMA KeepTick ==
ASSUME IInv, Tick
  PROVE  IInv'
<1> USE ConstantsAssumption DEF IInv, TypeOK, Tick, storeVars, runVars,
      chatVars
<1>1. TypeOK'
BY DEF Allows, Kinds, Places
<1>2. UsedInv'
BY DEF UsedInv, FreeInv, Created, Allows
<1>3. FreeInv'
BY DEF FreeInv, BypassInv, SealInv
<1>4. SealInv'
BY DEF SealInv, UsedInv, FreeInv, ClaimInv, Created, Allows, At
<1>5. ClaimInv'
BY DEF ClaimInv, SealInv, UsedInv, Created, Allows
<1>6. PlaceInv'
BY DEF PlaceInv, Places
<1>7. StampInv'
BY DEF StampInv, UsedInv, Created, At
<1>8. BypassInv'
BY DEF BypassInv, Consent, StampInv, UsedInv, FreeInv, SealInv, PlaceInv,
      ChatGranted, Created, Allows, At
<1>9. OneCardPerChat'
  <2>1. pending' \subseteq pending
    OBVIOUS
  <2>2. \A b \in pending : origin'[b] = origin[b] /\ place'[origin[b]] = place[origin[b]]
    BY DEF UsedInv, Created
  <2> QED
    BY <2>1, <2>2, FewerCards DEF OneCardPerChat
<1> QED
  BY <1>1, <1>2, <1>3, <1>4, <1>5, <1>6, <1>7, <1>8, <1>9 DEF IInv

\* Restart preserves the inductive invariant.
LEMMA KeepRestart ==
ASSUME IInv, Restart
  PROVE  IInv'
<1> USE ConstantsAssumption DEF IInv, TypeOK, Restart
<1>1. TypeOK'
BY DEF Allows, Kinds, Places
<1>2. UsedInv'
BY DEF UsedInv, FreeInv, Created, Allows
<1>3. FreeInv'
BY DEF FreeInv, BypassInv, SealInv
<1>4. SealInv'
BY DEF SealInv, UsedInv, FreeInv, ClaimInv, Created, Allows, At
<1>5. ClaimInv'
BY DEF ClaimInv, SealInv, UsedInv, Created, Allows
<1>6. PlaceInv'
BY DEF PlaceInv, Places
<1>7. StampInv'
BY DEF StampInv, UsedInv, Created, At
<1>8. BypassInv'
BY DEF BypassInv, Consent, StampInv, UsedInv, FreeInv, SealInv, PlaceInv,
      ChatGranted, Created, Allows, At
<1>9. OneCardPerChat'
  <2>1. pending' \subseteq pending
    OBVIOUS
  <2>2. \A b \in pending : origin'[b] = origin[b] /\ place'[origin[b]] = place[origin[b]]
    BY DEF UsedInv, Created
  <2> QED
    BY <2>1, <2>2, FewerCards DEF OneCardPerChat
<1> QED
  BY <1>1, <1>2, <1>3, <1>4, <1>5, <1>6, <1>7, <1>8, <1>9 DEF IInv

\* A stuttering step preserves the inductive invariant.
LEMMA KeepStutter ==
ASSUME IInv, UNCHANGED vars
  PROVE  IInv'
<1> USE ConstantsAssumption DEF IInv, TypeOK, vars, storeVars, runVars,
      chatVars
<1>1. TypeOK'
BY DEF Allows, Kinds, Places
<1>2. UsedInv'
BY DEF UsedInv, FreeInv, Created, Allows
<1>3. FreeInv'
BY DEF FreeInv, BypassInv, SealInv
<1>4. SealInv'
BY DEF SealInv, UsedInv, FreeInv, ClaimInv, Created, Allows, At
<1>5. ClaimInv'
BY DEF ClaimInv, SealInv, UsedInv, Created, Allows
<1>6. PlaceInv'
BY DEF PlaceInv, Places
<1>7. StampInv'
BY DEF StampInv, UsedInv, Created, At
<1>8. BypassInv'
BY DEF BypassInv, Consent, StampInv, UsedInv, FreeInv, SealInv, PlaceInv,
      ChatGranted, Created, Allows, At
<1>9. OneCardPerChat'
  <2>1. pending' \subseteq pending
    OBVIOUS
  <2>2. \A b \in pending : origin'[b] = origin[b] /\ place'[origin[b]] = place[origin[b]]
    BY DEF UsedInv, Created
  <2> QED
    BY <2>1, <2>2, FewerCards DEF OneCardPerChat
<1> QED
  BY <1>1, <1>2, <1>3, <1>4, <1>5, <1>6, <1>7, <1>8, <1>9 DEF IInv

\* The invariant holds initially.
LEMMA InitInv == Init => IInv
<1> SUFFICES ASSUME Init PROVE IInv
  OBVIOUS
<1> USE ConstantsAssumption DEF Init
<1>1. TypeOK
  BY DEF TypeOK, Allows, Kinds, Places
<1>2. UsedInv /\ FreeInv /\ SealInv /\ ClaimInv
  BY DEF UsedInv, FreeInv, SealInv, ClaimInv, Created, Allows
<1>3. PlaceInv /\ StampInv /\ BypassInv
  BY DEF PlaceInv, StampInv, BypassInv
<1>4. OneCardPerChat
  BY FS_EmptySet DEF OneCardPerChat
<1> QED
  BY <1>1, <1>2, <1>3, <1>4 DEF IInv

\* Every step preserves it.
LEMMA NextInv == IInv /\ [Next]_vars => IInv'
<1> SUFFICES ASSUME IInv, [Next]_vars PROVE IInv'
  OBVIOUS
<1>1. ASSUME NEW r \in Runs, NEW c \in Chats, NEW k \in {"chat", "delegated"}, Message(c, r, k)
      PROVE  IInv'
  BY <1>1, KeepMessage
<1>2. ASSUME NEW c \in Chats, MessageRejected(c) PROVE IInv'
  BY <1>2, KeepMessageRejected
<1>3. ASSUME NEW r \in Runs, NEW o \in Owners, NEW k \in {"skill", "unattended"}, StartHeadless(r, o, k)
      PROVE  IInv'
  BY <1>3, KeepStartHeadless
<1>4. ASSUME NEW r \in Runs, NEW c \in Chats, NEW k \in {"chat", "unattended"}, StartUnasked(r, c, k)
      PROVE  IInv'
  BY <1>4, KeepStartUnasked
<1>5. ASSUME NEW r \in Runs, RunStep(r) PROVE IInv'
  BY <1>5, KeepObserveToolResult, KeepAct, KeepExecuteSealed, KeepRefuseSealed, KeepEndRun DEF RunStep
<1>6. ASSUME NEW r \in Runs, NEW a \in Approvals, AskApproval(r, a) PROVE IInv'
  BY <1>6, KeepAskApproval
<1>7. ASSUME NEW a \in Approvals, Answer(a) PROVE IInv'
  BY <1>7, KeepApprove, KeepDeny, KeepApproveSkillTest, KeepDenyHeadless DEF Answer
<1>8. CASE RefuseAnswer
  BY <1>8, KeepRefuseAnswer
<1>9. CASE Tick
  BY <1>9, KeepTick
<1>10. CASE Restart
  BY <1>10, KeepRestart
<1>11. CASE UNCHANGED vars
  BY <1>11, KeepStutter
<1> QED
  BY <1>1, <1>2, <1>3, <1>4, <1>5, <1>6, <1>7, <1>8, <1>9, <1>10, <1>11 DEF Next

-----------------------------------------------------------------------------
(* Theorems. *)

\* The inductive invariant holds in every reachable state.
THEOREM Invariance == Spec => []IInv
  BY InitInv, NextInv, PTL DEF Spec

\* For any number of chats and whoever asks, a chat waits on one card at
\* most, and the store never exceeds max_pending.
THEOREM OneCard == Spec => []OneCardPerChat
<1>1. IInv => OneCardPerChat
  BY DEF IInv
<1> QED
  BY <1>1, Invariance, PTL

\* No sealed action is executed that its owner did not allow, and no tainted
\* run acts past the gate without its chat owner's consent.
THEOREM Consented == Spec => []ConsentPrecedesAction
<1>1. IInv => ConsentPrecedesAction
  BY DEF IInv, ClaimInv, BypassInv, ConsentPrecedesAction
<1> QED
  BY <1>1, Invariance, PTL

\* One step of RetiredTaintCarries.
TaintStep ==
  \A r \in Runs, a \in pending \cap armed :
    /\ phase[r] = "free" /\ phase'[r] = "working" /\ a \notin pending'
    /\ ~Expired(a) /\ place'[r] = place[origin[a]] /\ place'[r] \in Chats
    => r \in tainted'

\* A message that dismisses an armed card starts a tainted turn: it is the
\* only step that both starts a turn in a chat and takes a card away.
LEMMA StepCarries == IInv /\ [Next]_vars => TaintStep
<1> SUFFICES ASSUME IInv, [Next]_vars,
                    NEW q \in Runs, NEW b \in pending \cap armed,
                    phase[q] = "free", phase'[q] = "working", b \notin pending',
                    ~Expired(b), place'[q] = place[origin[b]], place'[q] \in Chats
             PROVE  q \in tainted'
  BY DEF TaintStep
<1>0. phase \in [Runs -> {"free", "sealed", "working", "paused", "ended"}]
      /\ pending \subseteq Approvals /\ NoCard \notin Approvals
      /\ origin[b] \in Runs /\ place \in [Runs -> Places] /\ tainted \subseteq Runs
  BY ConstantsAssumption DEF IInv, TypeOK, UsedInv, Created
<1>1. ASSUME NEW r \in Runs, NEW c \in Chats, NEW k \in {"chat", "delegated"}, Message(c, r, k)
      PROVE  q \in tainted'
  <2>1. q = r /\ place'[q] = c
    BY <1>0, <1>1 DEF Message, StartRun
  <2>2. b \in Unexpired /\ owner[origin[b]] = ChatOwner[c]
    BY <1>0, <2>1 DEF Unexpired, IInv, PlaceInv
  <2>3. b \in Retired(ChatOwner[c], c) \cap armed
    BY <2>1, <2>2 DEF Retired, At
  <2> QED
    BY <1>1, <2>1, <2>3 DEF Message, StartRun
<1>2. ASSUME NEW r \in Runs, NEW o \in Owners, NEW k \in {"skill", "unattended"}, StartHeadless(r, o, k)
      PROVE  FALSE
  BY <1>2 DEF StartHeadless, storeVars
<1>3. ASSUME NEW r \in Runs, NEW c \in Chats, NEW k \in {"chat", "unattended"}, StartUnasked(r, c, k)
      PROVE  FALSE
  BY <1>3 DEF StartUnasked, storeVars
<1>4. ASSUME NEW r \in Runs, RunStep(r) PROVE FALSE
  BY <1>0, <1>4
  DEF RunStep, ObserveToolResult, Act, ExecuteSealed, RefuseSealed, EndRun, storeVars
<1>5. ASSUME NEW r \in Runs, NEW a \in Approvals, AskApproval(r, a) PROVE FALSE
  BY <1>0, <1>5 DEF AskApproval
<1>6. ASSUME NEW a \in Approvals, Answer(a) PROVE FALSE
  BY <1>0, <1>6 DEF Answer, Approve, Deny, ApproveSkillTest, DenyHeadless, StartRun, runVars
<1>7. ASSUME NEW c \in Chats, MessageRejected(c) PROVE FALSE
  BY <1>7 DEF MessageRejected, runVars
<1>8. CASE RefuseAnswer \/ Tick \/ Restart \/ UNCHANGED vars
  BY <1>0, <1>8 DEF RefuseAnswer, Tick, Restart, vars, runVars
<1> QED
  BY <1>1, <1>2, <1>3, <1>4, <1>5, <1>6, <1>7, <1>8 DEF Next

\* Dismissing a card never launders its provenance.
THEOREM TaintCarries == Spec => RetiredTaintCarries
<1>1. IInv /\ [Next]_vars => [TaintStep]_vars
  BY StepCarries
<1> QED
  BY <1>1, Invariance, PTL DEF Spec, RetiredTaintCarries, TaintStep

-----------------------------------------------------------------------------
(* Refinement of ApprovalLifecycle. *)

\* Where a card was shown does not change any more.
LEMMA HomeStays ==
  ASSUME IInv, UNCHANGED origin,
         \A r \in Runs : phase[r] # "free" => place'[r] = place[r]
  PROVE  Created' = Created /\ Home' = Home
<1>1. Created' = Created
  BY DEF Created
<1>2. \A a \in Created : place'[origin'[a]] = place[origin[a]]
  BY DEF IInv, TypeOK, UsedInv, Created
<1> QED
  BY <1>1, <1>2 DEF Home

\* A step in which cards and permissions only go away is allowed.
LEMMA Voids ==
  ASSUME IInv, UNCHANGED <<origin, claimed>>, pending' \subseteq pending,
         \A r \in Runs : phase[r] # "free" => place'[r] = place[r],
         \A r \in Runs : phase'[r] = "sealed" => phase[r] = "sealed" /\ sealed'[r] = sealed[r]
  PROVE  Lifecycle!LifeNext
<1>1. Created' = Created /\ Home' = Home
  BY HomeStays
<1>2. Granted' \subseteq Granted
  BY DEF Granted
<1> QED
  BY <1>1, <1>2 DEF Lifecycle!LifeNext, Lifecycle!VoidCards

\* The step that resumes a run with a card allows that card.
LEMMA Grants ==
  ASSUME IInv, NEW a \in pending, NEW r \in Runs, phase[r] = "free",
         UNCHANGED <<origin, claimed>>, pending' \subseteq pending \ {a},
         phase' = [phase EXCEPT ![r] = "sealed"], sealed' = [sealed EXCEPT ![r] = a],
         \A q \in Runs : phase[q] # "free" => place'[q] = place[q]
  PROVE  Lifecycle!LifeNext
<1>1. Created' = Created /\ Home' = Home
  BY HomeStays
<1>2. Granted' = Granted \cup {a}
  BY DEF Granted, IInv, TypeOK
<1>3. Lifecycle!AllowCard(a)
  BY <1>1, <1>2 DEF Lifecycle!AllowCard
<1> QED
  BY <1>3 DEF IInv, TypeOK, Lifecycle!LifeNext

\* A claim executes an allowed card: no other run holds the permission.
LEMMA Executes ==
  ASSUME IInv, NEW r \in Runs, ExecuteSealed(r)
  PROVE  Lifecycle!LifeNext
<1> USE DEF IInv, TypeOK, ExecuteSealed
<1>1. Created' = Created /\ Home' = Home
  BY HomeStays DEF storeVars
<1>2. sealed[r] \in Granted
  BY DEF Granted, SealInv
<1>3. Granted' = Granted \ {sealed[r]}
  BY ConstantsAssumption DEF Granted, SealInv
<1>4. Lifecycle!ExecuteCard(sealed[r])
  BY <1>1, <1>2, <1>3 DEF Lifecycle!ExecuteCard, storeVars
<1>5. sealed[r] \in Approvals
  BY <1>2 DEF Granted
<1> QED
  BY ONLY <1>4, <1>5, Zenon DEF Lifecycle!LifeNext

\* A new card is opened where its run is, and the chat's older card is gone.
LEMMA Opens ==
  ASSUME IInv, IInv', NEW r \in Runs, NEW a \in Approvals, AskApproval(r, a)
  PROVE  Lifecycle!LifeNext
<1> USE DEF IInv, TypeOK, AskApproval, Create
<1>1. place[r] \in Places /\ r # NoRun /\ a \notin Created /\ Created' = Created \cup {a}
  BY ConstantsAssumption DEF Created
<1>2. Home' = [Home EXCEPT ![a] = place[r]]
  <2>1. \A b \in Created : origin'[b] = origin[b] /\ place'[origin[b]] = place[origin[b]]
    BY <1>1
  <2>2. place'[origin'[a]] = place[r]
    OBVIOUS
  <2> QED
    BY <1>1, <2>1, <2>2 DEF Home
<1>3. Granted' = Granted
  BY DEF Granted
<1>4. pending' \in SUBSET (pending \cup {a}) /\ a \in pending'
  BY DEF Unexpired
<1>5. \A b \in pending' \ {a} : place[r] \in Chats => Home[b] # place[r]
  <2>1. \A b \in pending' \ {a} : b \in Created /\ origin'[b] = origin[b] /\ place' = place
    BY <1>4 DEF UsedInv
  <2>2. origin'[a] = r
    OBVIOUS
  <2> QED
    BY <1>4, <2>1, <2>2 DEF OneCardPerChat, Home
<1>6. Lifecycle!OpenCard(a, place[r])
  BY <1>1, <1>2, <1>3, <1>4, <1>5 DEF Lifecycle!OpenCard
<1> QED
  BY <1>1, <1>6 DEF Lifecycle!LifeNext, Places

\* Every step of the store, the requests and the runs is a step of the life
\* cycle or leaves it alone.
LEMMA StepRefines ==
  ASSUME IInv, IInv', [Next]_vars
  PROVE  [Lifecycle!LifeNext]_(Lifecycle!lifeVars)
<1>0. /\ phase \in [Runs -> {"free", "sealed", "working", "paused", "ended"}]
      /\ place \in [Runs -> Places] /\ sealed \in [Runs -> Approvals \cup {NoCard}]
      /\ pending \subseteq Approvals /\ NoCard \notin Approvals
  BY ConstantsAssumption DEF IInv, TypeOK
<1>1. ASSUME NEW r \in Runs, NEW c \in Chats, NEW k \in {"chat", "delegated"}, Message(c, r, k)
      PROVE  Lifecycle!LifeNext
  BY <1>0, <1>1, Voids DEF Message, StartRun, Unexpired
<1>2. ASSUME NEW c \in Chats, MessageRejected(c) PROVE Lifecycle!LifeNext
  BY <1>0, <1>2, Voids DEF MessageRejected, Unexpired, runVars
<1>3. ASSUME NEW r \in Runs, NEW o \in Owners, NEW k \in {"skill", "unattended"}, StartHeadless(r, o, k)
      PROVE  Lifecycle!LifeNext
  BY <1>0, <1>3, Voids DEF StartHeadless, StartRun, storeVars
<1>4. ASSUME NEW r \in Runs, NEW c \in Chats, NEW k \in {"chat", "unattended"}, StartUnasked(r, c, k)
      PROVE  Lifecycle!LifeNext
  BY <1>0, <1>4, Voids DEF StartUnasked, StartRun, storeVars
<1>5. ASSUME NEW r \in Runs, RunStep(r) PROVE Lifecycle!LifeNext
  <2>1. CASE ExecuteSealed(r)
    BY <2>1, Executes
  <2>2. CASE ObserveToolResult(r)
    BY <1>0, <2>2, Voids DEF ObserveToolResult, storeVars
  <2>3. CASE Act(r)
    BY <1>0, <2>3, Voids DEF Act, storeVars, runVars
  <2>4. CASE RefuseSealed(r)
    BY <1>0, <2>4, Voids DEF RefuseSealed, storeVars
  <2>5. CASE EndRun(r)
    BY <1>0, <2>5, Voids DEF EndRun, storeVars
  <2> QED
    BY <1>5, <2>1, <2>2, <2>3, <2>4, <2>5 DEF RunStep
<1>6. ASSUME NEW r \in Runs, NEW a \in Approvals, AskApproval(r, a) PROVE Lifecycle!LifeNext
  BY <1>6, Opens
<1>7. ASSUME NEW a \in Approvals, Answer(a) PROVE Lifecycle!LifeNext
  <2>1. ASSUME NEW c \in Chats, NEW d \in Allows, NEW r \in Runs, Approve(c, a, d, r)
        PROVE  Lifecycle!LifeNext
    BY <1>0, <2>1, Grants DEF Approve, Consume, Unexpired, StartRun
  <2>2. ASSUME NEW c \in Chats, NEW d \in Allows \cup {"deny"}, Deny(c, a, d)
        PROVE  Lifecycle!LifeNext
    BY <1>0, <2>2, Voids DEF Deny, Consume, Unexpired, runVars
  <2>3. ASSUME NEW o \in Owners, NEW r \in Runs, ApproveSkillTest(o, a, r)
        PROVE  Lifecycle!LifeNext
    BY <1>0, <2>3, Grants DEF ApproveSkillTest, Consume, Unexpired, StartRun
  <2>4. CASE DenyHeadless(a)
    BY <1>0, <2>4, Voids DEF DenyHeadless, Consume, Unexpired
  <2> QED
    BY <1>7, <2>1, <2>2, <2>3, <2>4 DEF Answer
<1>8. CASE RefuseAnswer
  BY <1>0, <1>8, Voids DEF RefuseAnswer, Unexpired, runVars
<1>9. CASE Tick
  BY <1>0, <1>9, Voids DEF Tick, storeVars, runVars
<1>10. CASE Restart
  BY <1>0, <1>10, Voids DEF Restart
<1>11. CASE UNCHANGED vars
  BY <1>0, <1>11, Voids DEF vars, storeVars, runVars
<1> QED
  BY <1>1, <1>2, <1>3, <1>4, <1>5, <1>6, <1>7, <1>8, <1>9, <1>10, <1>11 DEF Next

\* The detailed protocol implements the life cycle of a card: opened once,
\* allowed at most once while open, executed at most once and only while
\* allowed, and never revived.
THEOREM Refinement == Spec => ImplementsLifecycle
<1>1. Init => Lifecycle!LifeInit
  BY ConstantsAssumption DEF Init, Lifecycle!LifeInit, Created, Granted, Home
<1> QED
  BY <1>1, Invariance, StepRefines, PTL DEF Spec, ImplementsLifecycle, Lifecycle!LifeSpec

=============================================================================
