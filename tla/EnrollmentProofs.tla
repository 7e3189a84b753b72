-------------------------- MODULE EnrollmentProofs --------------------------
(***************************************************************************)
(* EnrollInv is inductive, for every number of machines, codes, challenges *)
(* and faults.  Most actions are steps of one machine that leave the       *)
(* controller's rows alone: lemma MachineStep says what they have in       *)
(* common.  The others issue or end a code, give out a challenge, register *)
(* the node or release it.                                                 *)
(***************************************************************************)
EXTENDS Enrollment, FiniteSetTheorems, TLAPS

\* The parts of EnrollInv, each about one thing.
MintedOnce == \A m, n \in minted : m.code = n.code => m = n

CodesSpent ==
  \A m \in minted :
    m.code <= code.n /\ (m.code = code.n => ~code.live \/ code.used # NoRequest)

RowAgrees ==
  /\ node.state = "registered" =>
       node.key # None /\ node.session # 0 /\ code.used = [nonce |-> node.session, code |-> code.n]
  /\ node.state = "pending" => node.session = 0
  /\ code.live /\ code.used # NoRequest => node.state = "registered"

\* What machine c knows.
Knows(c) ==
  /\ pending[c].code <= code.n /\ reg[c].code <= code.n
  /\ pending[c].nonce <= nonces /\ reg[c].token <= nonces
  /\ pending[c].nonce = 0 <=> pending[c] = NoRequest
  /\ reg[c].token = 0 <=> reg[c] = NoSession

\* Where its call is.
Called(c) ==
  /\ call[c].pc # "idle" => reg[c] = NoSession
  /\ call[c].pc \in {"posted", "verifying"} => pending[c] # NoRequest
  /\ call[c].pc = "verifying" => code.used # pending[c]

\* The session of the row is its own.
Keyed(c) ==
  node.session # 0 /\ node.session \in {pending[c].nonce, reg[c].token} => node.key = c

Apart(c, d) ==
  /\ pending[c].nonce # 0 => pending[c].nonce \notin {pending[d].nonce, reg[d].token}
  /\ reg[c].token # 0 => reg[c].token # reg[d].token

Machines ==
  /\ \A c \in Clients : Knows(c) /\ Called(c) /\ Keyed(c)
  /\ \A c, d \in Clients : c # d => Apart(c, d)

\* EnrollInv is its parts.
LEMMA Parts ==
  EnrollInv <=> /\ TypeOK /\ MintedOnce /\ HolderIsNode /\ AnswerInReach
                /\ IsFiniteSet(challenges) /\ CodesSpent /\ RowAgrees /\ Machines
BY DEF EnrollInv, CodeOnce, MintedOnce, CodesSpent, RowAgrees, Knows, Called, Keyed, Apart,
       Machines

\* The same of the next state.
LEMMA PartsNext ==
  EnrollInv' <=> /\ TypeOK' /\ MintedOnce' /\ HolderIsNode' /\ AnswerInReach'
                 /\ IsFiniteSet(challenges)' /\ CodesSpent' /\ RowAgrees' /\ Machines'
BY DEF EnrollInv, CodeOnce, MintedOnce, CodesSpent, RowAgrees, Knows, Called, Keyed, Apart,
       Machines

\* The node is pending and nobody has a request (Init).
LEMMA InitInv == Init => EnrollInv
<1> SUFFICES ASSUME Init PROVE EnrollInv
  OBVIOUS
<1>1. IsFiniteSet(challenges) /\ Cardinality(challenges) = 0
  BY FS_EmptySet DEF Init
<1>2. TypeOK
  BY <1>1, ConstantsAssumption DEF Init, TypeOK, Requests, NoRequest, Sessions, NoSession, Idle
<1>3. MintedOnce /\ CodesSpent /\ RowAgrees /\ HolderIsNode /\ AnswerInReach
  BY DEF Init, MintedOnce, CodesSpent, RowAgrees, HolderIsNode, AnswerInReach
<1>4. Machines
  BY ConstantsAssumption DEF Init, Machines, Knows, Called, Keyed, Apart, Idle, NoRequest, NoSession
<1> QED
  BY <1>1, <1>2, <1>3, <1>4, Parts

-----------------------------------------------------------------------------

\* A machine that keeps its request and its session knows what it knew.
LEMMA KnowsStays ==
  ASSUME NEW d \in Clients, Knows(d), pending'[d] = pending[d], reg'[d] = reg[d],
         nonces' = nonces, code'.n = code.n
  PROVE  Knows(d)'
BY DEF Knows

\* A session in the place of the request.
LEMMA KnowsAccepted ==
  ASSUME NEW d \in Clients, NEW n \in Nat \ {0}, NEW k \in Nat,
         pending'[d] = NoRequest, reg'[d] = [token |-> n, code |-> k],
         nonces' \in Nat, n <= nonces', code'.n \in Nat, k <= code'.n
  PROVE  Knows(d)'
<1>1. pending'[d].nonce = 0 /\ pending'[d].code = 0 /\ NoSession.token = 0
  BY DEF NoRequest, NoSession
<1>2. reg'[d].token = n /\ reg'[d].code = k
  OBVIOUS
<1> QED
  BY <1>1, <1>2 DEF Knows

\* Two machines that keep what they have share no nonce.
LEMMA ApartStays ==
  ASSUME NEW d \in Clients, NEW e \in Clients, Apart(d, e),
         pending'[d] = pending[d], reg'[d] = reg[d], pending'[e] = pending[e], reg'[e] = reg[e]
  PROVE  Apart(d, e)'
BY DEF Apart

\* What of the machines' state a step of machine c leaves alone.
Others(c) ==
  \A d \in Clients \ {c} : call'[d] = call[d] /\ pending'[d] = pending[d] /\ reg'[d] = reg[d]

\* A step of one machine that leaves the rows alone: its request stays or goes, and its session
\* stays, goes or is the one on the receipt for its request.
LEMMA MachineStep ==
  ASSUME EnrollInv, TypeOK', IsFiniteSet(challenges'), NEW c \in Clients, Others(c),
         UNCHANGED <<node, code, minted>>, dropped \subseteq dropped', nonces <= nonces',
         pending'[c] \in {pending[c], NoRequest},
         \/ reg'[c] \in {reg[c], NoSession}
         \/ /\ Mine(c) /\ pending'[c] = NoRequest
            /\ reg'[c] = [token |-> pending[c].nonce, code |-> pending[c].code],
         Called(c)',
         node.state = "registered" /\ code.live /\ node.key = c /\ c \notin dropped' =>
           \/ reg'[c] = [token |-> node.session, code |-> code.n]
           \/ reg'[c] = NoSession /\ pending'[c] = code.used
  PROVE  EnrollInv'
<1>1. /\ TypeOK /\ MintedOnce /\ HolderIsNode /\ AnswerInReach
      /\ CodesSpent /\ RowAgrees /\ Machines
  BY Parts
<1>2. MintedOnce' /\ CodesSpent' /\ RowAgrees'
  BY <1>1 DEF MintedOnce, CodesSpent, RowAgrees
<1>3. nonces \in Nat /\ nonces' \in Nat /\ code.n \in Nat
  BY <1>1, ConstantsAssumption DEF TypeOK
<1>4. /\ \A d \in Clients : pending[d] \in Requests /\ reg[d] \in Sessions
      /\ \A d \in Clients : pending'[d] \in Requests /\ reg'[d] \in Sessions
  BY <1>1 DEF TypeOK
<1>5. Mine(c) => /\ node.state = "registered" /\ node.session = pending[c].nonce
                 /\ node.key = c /\ pending[c].code = code.n
  <2> SUFFICES ASSUME Mine(c)
               PROVE  /\ node.state = "registered" /\ node.session = pending[c].nonce
                      /\ node.key = c /\ pending[c].code = code.n
    OBVIOUS
  <2>1. code.live /\ pending[c].code = code.n /\ code.used = pending[c]
    BY DEF Mine, Known
  <2>2. code.n # 0
    BY <1>1 DEF TypeOK
  <2>3. code.used # NoRequest
    BY <2>1, <2>2 DEF NoRequest
  <2>4. node.state = "registered" /\ node.session # 0 /\ node.session = pending[c].nonce
    BY <1>1, <2>1, <2>3 DEF RowAgrees
  <2>5. Keyed(c)
    BY <1>1 DEF Machines
  <2> QED
    BY <2>1, <2>4, <2>5 DEF Keyed
<1>6. HolderIsNode'
  BY <1>1, <1>5 DEF HolderIsNode, Others, TypeOK, NoSession
<1>7. AnswerInReach'
  <2>1. node.state = "registered" => node.key \in Clients
    BY <1>1 DEF RowAgrees, TypeOK
  <2> QED
    BY <1>1, <2>1 DEF AnswerInReach, Others
<1>8. \A d \in Clients : Knows(d)'
  BY <1>1, <1>3, <1>4 DEF Knows, Machines, Others, NoRequest, NoSession, Requests, Sessions
<1>9. \A d \in Clients : Called(d)'
  BY <1>1 DEF Called, Machines, Others
<1>10. \A d \in Clients : Keyed(d)'
  BY <1>1, <1>5 DEF Keyed, Machines, Others, NoRequest, NoSession
<1>11. \A d, e \in Clients : d # e => Apart(d, e)'
  BY <1>1, <1>4 DEF Apart, Machines, Others, NoRequest, NoSession, Requests, Sessions
<1> QED
  BY <1>2, <1>6, <1>7, <1>8, <1>9, <1>10, <1>11, PartsNext DEF Machines

-----------------------------------------------------------------------------
(* What the ends of a call do *)

Calls == [pc : {"idle", "ask", "posted", "verifying"}, code : 0..MaxCodes, attempt : 0..1]

\* The constants of the machines' types.
LEMMA NoneTypes ==
  NoRequest \in Requests /\ NoSession \in Sessions /\ Idle \in Calls /\ Idle.pc = "idle"
BY ConstantsAssumption DEF NoRequest, Requests, NoSession, Sessions, Idle, Calls

\* Fails ends the call of c and nothing else.
LEMMA FailsFacts ==
  ASSUME TypeOK, NEW c \in Clients, Fails(c)
  PROVE  /\ call' \in [Clients -> Calls] /\ call'[c].pc = "idle"
         /\ pending' = pending /\ reg' = reg /\ Others(c)
BY NoneTypes DEF TypeOK, Fails, End, Others, Calls

\* Accept puts a session in the place of the request of c.
LEMMA AcceptFacts ==
  ASSUME TypeOK, NEW c \in Clients, NEW token \in 0..MaxNonces, Accept(c, token)
  PROVE  /\ call' \in [Clients -> Calls] /\ call'[c].pc = "idle"
         /\ pending' \in [Clients -> Requests] /\ pending'[c] = NoRequest
         /\ reg' \in [Clients -> Sessions]
         /\ reg'[c] = [token |-> token, code |-> pending[c].code]
         /\ Others(c)
<1>1. [token |-> token, code |-> pending[c].code] \in Sessions
  BY DEF TypeOK, Requests, Sessions
<1> QED
  BY <1>1, NoneTypes DEF TypeOK, Accept, End, Others, Calls

\* Rejected ends the call of c, or drops its request for a second attempt.
LEMMA RejectedFacts ==
  ASSUME TypeOK, NEW c \in Clients, Rejected(c)
  PROVE  /\ call' \in [Clients -> Calls] /\ call'[c].pc \in {"idle", "ask"}
         /\ pending' \in [Clients -> Requests] /\ pending'[c] \in {pending[c], NoRequest}
         /\ reg' = reg /\ Others(c)
         /\ dropped \subseteq dropped' /\ dropped' \subseteq Clients
         /\ pending'[c] = pending[c] \/ enabled \/ c \in dropped'
<1>1. CASE Fails(c) /\ UNCHANGED dropped
  BY <1>1, FailsFacts DEF TypeOK
<1>2. CASE /\ call' = [call EXCEPT ![c].pc = "ask", ![c].attempt = 1]
           /\ pending' = [pending EXCEPT ![c] = NoRequest]
           /\ dropped' = IF enabled THEN dropped ELSE dropped \cup {c}
           /\ UNCHANGED reg
  <2> DEFINE k == [call[c] EXCEPT !.pc = "ask", !.attempt = 1]
  <2>1. call \in [Clients -> Calls] /\ pending \in [Clients -> Requests]
    BY DEF TypeOK, Calls
  <2>2. k \in Calls /\ k.pc = "ask"
    <3>1. call[c] \in Calls /\ 1 \in 0..1
      BY <2>1
    <3> QED
      BY <3>1 DEF Calls
  <2>3. call' = [call EXCEPT ![c] = k]
    BY <1>2, <2>1
  <2>4. /\ dropped \subseteq dropped' /\ dropped' \subseteq Clients
        /\ enabled \/ c \in dropped'
    BY <1>2 DEF TypeOK
  <2> HIDE DEF k
  <2> QED
    BY <1>2, <2>1, <2>2, <2>3, <2>4, NoneTypes DEF Others
<1> QED
  BY <1>1, <1>2 DEF Rejected

\* The rows of the controller stay as they are, and so do their types.
LEMMA RowsStay ==
  ASSUME TypeOK, UNCHANGED <<enabled, node, code, challenges, nonces, expired, minted>>,
         call' \in [Clients -> Calls], pending' \in [Clients -> Requests],
         reg' \in [Clients -> Sessions], dropped' \subseteq Clients, faults' \in 0..MaxFaults
  PROVE  TypeOK'
BY DEF TypeOK, Calls

LEMMA FaultType ==
  ASSUME TypeOK, Fault \/ UNCHANGED faults
  PROVE  faults' \in 0..MaxFaults
BY ConstantsAssumption DEF TypeOK, Fault

-----------------------------------------------------------------------------
(* Steps of one machine *)

\* A refused request is not the one on the receipt, unless the owner is disabled: then the
\* machine keeps it or is one of those that have dropped theirs.
LEMMA RejectedKeeps ==
  ASSUME EnrollInv, NEW c \in Clients, Rejected(c), call[c].pc # "idle",
         ~Mine(c) \/ call[c].pc = "verifying",
         UNCHANGED <<enabled, node, code, challenges, nonces, expired, minted, faults>>
  PROVE  EnrollInv'
<1>1. TypeOK /\ IsFiniteSet(challenges) /\ RowAgrees /\ AnswerInReach /\ Called(c)
  BY Parts DEF Machines
<1>2. /\ call' \in [Clients -> Calls] /\ call'[c].pc \in {"idle", "ask"}
      /\ pending' \in [Clients -> Requests] /\ pending'[c] \in {pending[c], NoRequest}
      /\ reg' = reg /\ Others(c)
      /\ dropped \subseteq dropped' /\ dropped' \subseteq Clients
      /\ pending'[c] = pending[c] \/ enabled \/ c \in dropped'
  BY <1>1, RejectedFacts
<1>3. TypeOK'
  BY <1>1, <1>2, RowsStay DEF TypeOK
<1>4. reg[c] = NoSession /\ Called(c)'
  BY <1>1, <1>2 DEF Called
<1>5. nonces <= nonces'
  BY <1>1 DEF TypeOK
<1>6. node.state = "registered" /\ code.live /\ node.key = c /\ c \notin dropped' =>
        pending'[c] = code.used
  <2> SUFFICES ASSUME node.state = "registered", code.live, node.key = c, c \notin dropped'
               PROVE  pending'[c] = code.used
    OBVIOUS
  <2>1. code.used = [nonce |-> node.session, code |-> code.n] /\ code.n # 0
    BY <1>1 DEF RowAgrees, TypeOK
  <2>2. NoSession # [token |-> node.session, code |-> code.n]
    BY <2>1 DEF NoSession
  <2>3. pending[c] = code.used
    BY <1>1, <1>2, <1>4, <2>2 DEF AnswerInReach
  <2>4. enabled => Mine(c)
    BY <2>1, <2>3 DEF Mine, Known
  <2> QED
    BY <1>1, <1>2, <2>3, <2>4 DEF Called
<1> QED
  BY <1>1, <1>2, <1>3, <1>4, <1>5, <1>6, MachineStep

\* The receipt is delivered, or its answer is lost; a request without one is refused.
LEMMA SettledKeeps ==
  ASSUME EnrollInv, NEW c \in Clients, Settled(c), call[c].pc # "idle",
         UNCHANGED <<enabled, node, code, challenges, nonces, expired, minted>>
  PROVE  EnrollInv'
<1>1. /\ TypeOK /\ IsFiniteSet(challenges) /\ RowAgrees /\ AnswerInReach
      /\ Called(c) /\ Knows(c)
  BY Parts DEF Machines
<1>2. nonces <= nonces'
  BY <1>1 DEF TypeOK
<1>3. CASE ~Mine(c)
  BY <1>3, RejectedKeeps DEF Settled
<1>4. CASE Mine(c) /\ Fault /\ Lost(c) /\ UNCHANGED dropped
  <2>1. /\ call' \in [Clients -> Calls] /\ call'[c].pc = "idle"
        /\ pending' = pending /\ reg' = reg /\ Others(c)
    BY <1>1, <1>4, FailsFacts DEF Lost
  <2>2. TypeOK'
    BY <1>1, <1>4, <2>1, RowsStay, FaultType DEF TypeOK
  <2>3. Called(c)'
    BY <2>1 DEF Called
  <2> QED
    BY <1>1, <1>2, <1>4, <2>1, <2>2, <2>3, MachineStep DEF AnswerInReach
<1>5. CASE Mine(c) /\ Accept(c, code.used.nonce) /\ UNCHANGED <<dropped, faults>>
  <2>1. code.used.nonce \in 0..MaxNonces /\ code.used = pending[c] /\ pending[c].code = code.n
    BY <1>1, <1>5 DEF TypeOK, Requests, Mine, Known
  <2>2. /\ call' \in [Clients -> Calls] /\ call'[c].pc = "idle"
        /\ pending' \in [Clients -> Requests] /\ pending'[c] = NoRequest
        /\ reg' \in [Clients -> Sessions]
        /\ reg'[c] = [token |-> code.used.nonce, code |-> pending[c].code]
        /\ Others(c)
    BY <1>1, <1>5, <2>1, AcceptFacts
  <2>3. TypeOK'
    BY <1>1, <1>5, <2>2, RowsStay DEF TypeOK
  <2>4. Called(c)'
    BY <2>2 DEF Called
  <2>5. node.state = "registered" => code.used.nonce = node.session
    BY <1>1 DEF RowAgrees
  <2> QED
    BY <1>1, <1>2, <1>5, <2>1, <2>2, <2>3, <2>4, <2>5, MachineStep
<1> QED
  BY <1>3, <1>4, <1>5 DEF Settled, Delivered

\* An operator enters a code, or the daemon goes on with a pending one (Enroll).
LEMMA EnrollKeeps ==
  ASSUME EnrollInv, NEW c \in Clients, NEW n \in 1..MaxCodes, Enroll(c, n)
  PROVE  EnrollInv'
<1>1. TypeOK /\ IsFiniteSet(challenges) /\ AnswerInReach /\ Called(c)
  BY Parts DEF Machines
<1> DEFINE k == [pc |-> IF pending[c].code = n THEN "posted" ELSE "ask",
                 code |-> n, attempt |-> 0]
<1>2. k \in Calls /\ (k.pc = "posted" => pending[c] # NoRequest) /\ k.pc # "verifying"
  BY ConstantsAssumption DEF Calls, NoRequest
<1>3. call' = [call EXCEPT ![c] = k] /\ call \in [Clients -> Calls]
  BY <1>1 DEF Enroll, TypeOK, Calls
<1> HIDE DEF k
<1>4. call' \in [Clients -> Calls] /\ call'[c] = k /\ Others(c)
  BY <1>2, <1>3 DEF Others, Enroll
<1>5. TypeOK'
  BY <1>1, <1>4, RowsStay DEF Enroll, TypeOK
<1>6. Called(c)'
  BY <1>2, <1>4 DEF Called, Enroll
<1>7. nonces <= nonces'
  BY <1>1 DEF TypeOK, Enroll
<1> QED
  BY <1>1, <1>4, <1>5, <1>6, <1>7, MachineStep DEF Enroll, AnswerInReach

\* The machine's call is over before it is answered (GiveUp).
LEMMA GiveUpKeeps ==
  ASSUME EnrollInv, NEW c \in Clients, GiveUp(c)
  PROVE  EnrollInv'
<1>1. TypeOK /\ IsFiniteSet(challenges) /\ AnswerInReach
  BY Parts
<1>2. /\ call' \in [Clients -> Calls] /\ call'[c].pc = "idle"
      /\ pending' = pending /\ reg' = reg /\ Others(c)
  BY <1>1, FailsFacts DEF GiveUp
<1>3. TypeOK'
  BY <1>1, <1>2, RowsStay, FaultType DEF TypeOK, GiveUp
<1>4. Called(c)' /\ nonces <= nonces'
  BY <1>1, <1>2 DEF Called, TypeOK, GiveUp
<1> QED
  BY <1>1, <1>2, <1>3, <1>4, MachineStep DEF GiveUp, AnswerInReach

\* The operator drops the pending request (ClearRegistration).
LEMMA ClearRegistrationKeeps ==
  ASSUME EnrollInv, NEW c \in Clients, ClearRegistration(c)
  PROVE  EnrollInv'
<1>1. TypeOK /\ IsFiniteSet(challenges)
  BY Parts
<1>2. /\ pending' \in [Clients -> Requests] /\ pending'[c] = NoRequest /\ Others(c)
  BY <1>1, NoneTypes DEF ClearRegistration, TypeOK, Others
<1>3. TypeOK'
  BY <1>1, <1>2, RowsStay DEF TypeOK, ClearRegistration, Calls
<1>4. Called(c)' /\ nonces <= nonces' /\ c \in dropped'
  BY <1>1, <1>2 DEF Called, TypeOK, ClearRegistration
<1> QED
  BY <1>1, <1>2, <1>3, <1>4, MachineStep DEF ClearRegistration

\* EnrollNode up to the domain proof: the request of c is open, or it is settled.
LEMMA EnrollNodeKeeps ==
  ASSUME EnrollInv, NEW c \in Clients, EnrollNode(c)
  PROVE  EnrollInv'
<1>1. TypeOK /\ IsFiniteSet(challenges) /\ AnswerInReach /\ Called(c)
  BY Parts DEF Machines
<1>2. CASE ~Open(c)
  BY <1>1, <1>2, SettledKeeps DEF EnrollNode
<1>3. CASE Open(c)
  <2> DEFINE k == [call[c] EXCEPT !.pc = "verifying"]
  <2>1. call \in [Clients -> Calls] /\ call[c] \in Calls
    BY <1>1 DEF TypeOK, Calls
  <2>2. k \in Calls /\ k.pc = "verifying"
    BY <2>1 DEF Calls
  <2>3. call' = [call EXCEPT ![c] = k]
    BY <1>3, <2>1 DEF EnrollNode
  <2> HIDE DEF k
  <2>4. call' \in [Clients -> Calls] /\ call'[c] = k /\ Others(c)
    BY <1>3, <2>1, <2>2, <2>3 DEF EnrollNode, Others
  <2>5. TypeOK'
    BY <1>1, <1>3, <2>4, RowsStay DEF EnrollNode, TypeOK
  <2>6. Called(c)'
    BY <1>1, <1>3, <2>2, <2>4 DEF Called, EnrollNode, Open
  <2>7. nonces <= nonces'
    BY <1>1 DEF TypeOK, EnrollNode
  <2> QED
    BY <1>1, <1>3, <2>4, <2>5, <2>6, <2>7, MachineStep DEF EnrollNode, AnswerInReach
<1> QED
  BY <1>2, <1>3

\* The domain does not show the proof (VerifyFails).
LEMMA VerifyFailsKeeps ==
  ASSUME EnrollInv, NEW c \in Clients, VerifyFails(c)
  PROVE  EnrollInv'
BY RejectedKeeps DEF VerifyFails

-----------------------------------------------------------------------------
(* Challenges and codes *)

\* A subset of the open challenges is within their limit.
LEMMA FewerChallenges ==
  ASSUME TypeOK, IsFiniteSet(challenges), NEW S \in SUBSET challenges
  PROVE  /\ IsFiniteSet(S) /\ Cardinality(S) <= MaxChallenges
         /\ S \subseteq [nonce : 1..MaxNonces, client : Clients]
<1>1. IsFiniteSet(S) /\ Cardinality(S) <= Cardinality(challenges)
  BY FS_Subset
<1>2. Cardinality(S) \in Nat /\ Cardinality(challenges) \in Nat
  BY <1>1, FS_CardinalityType
<1>3. Cardinality(challenges) <= MaxChallenges /\ MaxChallenges \in Nat
  BY ConstantsAssumption DEF TypeOK
<1>4. Cardinality(S) <= MaxChallenges
  BY <1>1, <1>2, <1>3
<1> QED
  BY <1>1, <1>4 DEF TypeOK

\* newNodeChallenge keeps to the limit.
LEMMA OneMoreChallenge ==
  ASSUME TypeOK, IsFiniteSet(challenges), HasRoom, NEW x
  PROVE  IsFiniteSet(Unexpired \cup {x}) /\ Cardinality(Unexpired \cup {x}) <= MaxChallenges
<1>1. Unexpired \in SUBSET challenges
  BY DEF Unexpired
<1>2. IsFiniteSet(Unexpired)
  BY <1>1, FewerChallenges
<1>3. Cardinality(Unexpired) \in Nat /\ Cardinality(Unexpired) < MaxChallenges
  BY <1>2, FS_CardinalityType DEF HasRoom
<1>4. /\ IsFiniteSet(Unexpired \cup {x})
      /\ Cardinality(Unexpired \cup {x}) = IF x \in Unexpired THEN Cardinality(Unexpired)
                                           ELSE Cardinality(Unexpired) + 1
  BY <1>2, FS_AddElement
<1> QED
  BY <1>3, <1>4, ConstantsAssumption

\* The challenge is given out under a nonce that no machine has, while the node is pending.
LEMMA EnrollmentChallengeKeeps ==
  ASSUME EnrollInv, NEW c \in Clients, EnrollmentChallenge(c)
  PROVE  EnrollInv'
<1>1. /\ TypeOK /\ MintedOnce /\ HolderIsNode /\ AnswerInReach /\ IsFiniteSet(challenges)
      /\ CodesSpent /\ RowAgrees /\ Machines
  BY Parts
<1>2. /\ UNCHANGED <<enabled, node, code, expired, minted, dropped>>
      /\ call[c].pc = "ask" /\ reg[c] = NoSession
  BY <1>1 DEF EnrollmentChallenge, Machines, Called
<1>3. CASE Fails(c) /\ UNCHANGED <<challenges, nonces, faults>>
  <2>1. /\ call' \in [Clients -> Calls] /\ call'[c].pc = "idle"
        /\ pending' = pending /\ reg' = reg /\ Others(c)
    BY <1>1, <1>3, FailsFacts
  <2>2. TypeOK'
    BY <1>1, <1>2, <1>3, <2>1, RowsStay DEF TypeOK
  <2>3. Called(c)' /\ nonces <= nonces'
    BY <1>1, <1>3, <2>1 DEF Called, TypeOK
  <2> QED
    BY <1>1, <1>2, <1>3, <2>1, <2>2, <2>3, MachineStep DEF AnswerInReach
<1> DEFINE given == [nonce |-> nonces', client |-> c]
<1> DEFINE Given ==
      /\ node.state = "pending" /\ code.used = NoRequest /\ HasRoom
      /\ nonces < MaxNonces /\ nonces' = nonces + 1
      /\ challenges' = Unexpired \cup {given}
<1>4. ASSUME Given
      PROVE  /\ nonces' \in 1..MaxNonces /\ nonces < nonces' /\ nonces \in Nat
             /\ challenges' \subseteq [nonce : 1..MaxNonces, client : Clients]
             /\ expired' \subseteq 1..nonces'
             /\ IsFiniteSet(challenges') /\ Cardinality(challenges') <= MaxChallenges
  <2>1. nonces' \in 1..MaxNonces /\ nonces < nonces' /\ nonces \in Nat
    BY <1>1, <1>4, ConstantsAssumption DEF TypeOK
  <2>2. challenges' \subseteq [nonce : 1..MaxNonces, client : Clients]
    BY <1>1, <1>4, <2>1 DEF TypeOK, Unexpired
  <2>3. expired' \subseteq 1..nonces'
    BY <1>1, <1>2, <2>1 DEF TypeOK
  <2> QED
    BY <1>1, <1>4, <2>1, <2>2, <2>3, OneMoreChallenge
<1> HIDE DEF given, Given
<1>5. CASE Given /\ Fault /\ Lost(c)
  <2>1. /\ call' \in [Clients -> Calls] /\ call'[c].pc = "idle"
        /\ pending' = pending /\ reg' = reg /\ Others(c)
    BY <1>1, <1>5, FailsFacts DEF Lost
  <2>2. TypeOK'
    BY <1>1, <1>2, <1>4, <1>5, <2>1, FaultType DEF TypeOK, Calls
  <2>3. Called(c)' /\ nonces <= nonces'
    BY <1>4, <1>5, <2>1 DEF Called
  <2> QED
    BY <1>1, <1>2, <1>4, <1>5, <2>1, <2>2, <2>3, MachineStep DEF AnswerInReach
<1>6. CASE /\ Given
           /\ pending' = [pending EXCEPT ![c] = [nonce |-> nonces', code |-> code.n]]
           /\ call' = [call EXCEPT ![c].pc = "posted"]
           /\ UNCHANGED <<reg, faults>>
  <2> DEFINE k == [call[c] EXCEPT !.pc = "posted"]
             p == [nonce |-> nonces', code |-> code.n]
  <2>1. call \in [Clients -> Calls] /\ call[c] \in Calls
    BY <1>1 DEF TypeOK, Calls
  <2>2. k \in Calls /\ k.pc = "posted"
    BY <2>1 DEF Calls
  <2>3. /\ p \in Requests /\ p.nonce = nonces' /\ p.code = code.n
        /\ p # NoRequest /\ code.n \in Nat
    BY <1>1, <1>4, <1>6 DEF Requests, TypeOK, NoRequest
  <2>4. call' = [call EXCEPT ![c] = k] /\ pending' = [pending EXCEPT ![c] = p]
    BY <1>6, <2>1
  <2>5. node.state = "pending" /\ node.session = 0 /\ code.used = NoRequest
    BY <1>1, <1>6 DEF Given, RowAgrees
  <2> HIDE DEF k, p
  <2>6. call' \in [Clients -> Calls] /\ call'[c] = k
    BY <2>1, <2>2, <2>4
  <2>7. pending' \in [Clients -> Requests] /\ pending'[c] = p
    BY <1>1, <2>3, <2>4 DEF TypeOK
  <2>8. Others(c)
    BY <1>1, <1>6, <2>1, <2>4 DEF Others, TypeOK
  <2>9. TypeOK'
    BY <1>1, <1>2, <1>4, <1>6, <2>6, <2>7 DEF TypeOK, Calls
  <2>10. MintedOnce' /\ CodesSpent' /\ RowAgrees' /\ HolderIsNode'
    BY <1>1, <1>2, <1>6 DEF MintedOnce, CodesSpent, RowAgrees, HolderIsNode
  <2>11. AnswerInReach'
    BY <1>2, <2>5 DEF AnswerInReach
  <2>12. \A d \in Clients : pending[d] \in Requests /\ reg[d] \in Sessions
    BY <1>1 DEF TypeOK
  <2>13. nonces' \in Nat /\ nonces \in Nat /\ nonces < nonces'
    BY <1>4, <1>6
  <2>14. \A d \in Clients : Knows(d)'
    BY <1>1, <1>2, <1>6, <2>3, <2>7, <2>8, <2>12, <2>13
       DEF Knows, Machines, Others, Requests, Sessions, NoRequest
  <2>15. \A d \in Clients : Called(d)'
    BY <1>1, <1>2, <1>6, <2>2, <2>3, <2>5, <2>6, <2>7, <2>8 DEF Called, Machines, Others
  <2>16. \A d \in Clients : Keyed(d)'
    BY <1>2, <2>5 DEF Keyed
  <2>17. \A d, e \in Clients : d # e => Apart(d, e)'
    <3>1. \A d \in Clients : pending[d].nonce \in Nat /\ reg[d].token \in Nat
      BY <2>12 DEF Requests, Sessions
    <3>2. \A d \in Clients : pending[d].nonce <= nonces /\ reg[d].token <= nonces
      BY <1>1 DEF Machines, Knows
    <3>3. \A d \in Clients : p.nonce # pending[d].nonce /\ p.nonce # reg[d].token
      BY <2>3, <2>13, <3>1, <3>2
    <3> QED
      BY <1>1, <1>6, <2>7, <2>8, <3>3 DEF Apart, Machines, Others
  <2> QED
    BY <1>4, <1>6, <2>9, <2>10, <2>11, <2>14, <2>15, <2>16, <2>17, PartsNext DEF Machines
<1> QED
  BY <1>3, <1>5, <1>6 DEF EnrollmentChallenge, Given, given

\* A challenge runs out.
LEMMA ChallengeExpiresKeeps ==
  ASSUME EnrollInv, NEW n \in 1..MaxNonces, ChallengeExpires(n)
  PROVE  EnrollInv'
<1>1. TypeOK
  BY Parts
<1>2. TypeOK'
  BY <1>1 DEF TypeOK, ChallengeExpires
<1>3. UNCHANGED <<node, code, challenges, nonces, call, pending, reg, minted, dropped>>
  BY DEF ChallengeExpires
<1>4. MintedOnce' /\ HolderIsNode' /\ AnswerInReach' /\ CodesSpent' /\ RowAgrees'
  BY <1>3, Parts DEF MintedOnce, HolderIsNode, AnswerInReach, CodesSpent, RowAgrees
<1>5. Machines' /\ IsFiniteSet(challenges)'
  BY <1>3, Parts DEF Machines, Knows, Called, Keyed, Apart
<1> QED
  BY <1>2, <1>4, <1>5, PartsNext

\* The owner's row is not part of what is kept (SetUserEnabled).
LEMMA SetUserEnabledKeeps ==
  ASSUME EnrollInv, SetUserEnabled
  PROVE  EnrollInv'
<1>1. TypeOK
  BY Parts
<1>2. UNCHANGED <<node, code, challenges, nonces, expired, call, pending, reg, minted, dropped,
                  faults>> /\ enabled' \in BOOLEAN
  BY <1>1 DEF SetUserEnabled, TypeOK
<1>3. TypeOK'
  BY <1>1, <1>2 DEF TypeOK
<1>4. MintedOnce' /\ HolderIsNode' /\ AnswerInReach' /\ CodesSpent' /\ RowAgrees'
  BY <1>2, Parts DEF MintedOnce, HolderIsNode, AnswerInReach, CodesSpent, RowAgrees
<1>5. Machines' /\ IsFiniteSet(challenges)'
  BY <1>2, Parts DEF Machines, Knows, Called, Keyed, Apart
<1> QED
  BY <1>3, <1>4, <1>5, PartsNext

\* A code that is over is not looked at.
LEMMA CodeExpiresKeeps ==
  ASSUME EnrollInv, CodeExpires
  PROVE  EnrollInv'
<1>1. /\ TypeOK /\ MintedOnce /\ HolderIsNode /\ AnswerInReach /\ IsFiniteSet(challenges)
      /\ CodesSpent /\ RowAgrees /\ Machines
  BY Parts
<1>2. code \in [n : 1..MaxCodes, live : BOOLEAN, used : Requests]
  BY <1>1 DEF TypeOK
<1>3. /\ code' \in [n : 1..MaxCodes, live : BOOLEAN, used : Requests]
      /\ code'.n = code.n /\ code'.used = code.used /\ code'.live = FALSE
  BY <1>2 DEF CodeExpires
<1>4. UNCHANGED <<enabled, node, challenges, nonces, expired, call, pending, reg, minted, dropped,
                  faults>>
  BY DEF CodeExpires
<1>5. TypeOK'
  BY <1>1, <1>3, <1>4 DEF TypeOK
<1>6. MintedOnce' /\ CodesSpent' /\ RowAgrees'
  BY <1>1, <1>3, <1>4 DEF MintedOnce, CodesSpent, RowAgrees
<1>7. HolderIsNode' /\ AnswerInReach'
  BY <1>1, <1>3, <1>4 DEF HolderIsNode, AnswerInReach
<1>8. Machines'
  BY <1>1, <1>3, <1>4 DEF Machines, Knows, Called, Keyed, Apart
<1> QED
  BY <1>1, <1>4, <1>5, <1>6, <1>7, <1>8, PartsNext

\* The row after the node is released.
LEMMA ReleasedFacts ==
  ASSUME TypeOK
  PROVE  /\ Released(node) \in [state : {"pending", "registered"}, key : Clients \cup {None},
                                session : 0..MaxNonces]
         /\ Released(node).state = "pending" /\ Released(node).session = 0
<1>1. node \in [state : {"pending", "registered"}, key : Clients \cup {None},
               session : 0..MaxNonces]
  BY DEF TypeOK
<1>2. 0 \in 0..MaxNonces
  BY ConstantsAssumption
<1> QED
  BY <1>1, <1>2 DEF Released

\* No session and no request is of the new code, and the node is pending (IssueEnrollment).
LEMMA IssueEnrollmentKeeps ==
  ASSUME EnrollInv, IssueEnrollment
  PROVE  EnrollInv'
<1>1. /\ TypeOK /\ MintedOnce /\ HolderIsNode /\ AnswerInReach /\ IsFiniteSet(challenges)
      /\ CodesSpent /\ RowAgrees /\ Machines
  BY Parts
<1>2. /\ UNCHANGED <<enabled, nonces, expired, call, pending, reg, minted, faults>>
      /\ challenges' = {} /\ dropped' = {}
  BY DEF IssueEnrollment
<1>3. /\ node' \in [state : {"pending", "registered"}, key : Clients \cup {None},
                    session : 0..MaxNonces]
      /\ node'.state = "pending" /\ node'.session = 0
  <2>1. CASE node.state = "pending"
    BY <1>1, <2>1 DEF IssueEnrollment, RowAgrees, TypeOK
  <2>2. CASE node.state # "pending"
    BY <1>1, <2>2, ReleasedFacts DEF IssueEnrollment
  <2> QED
    BY <2>1, <2>2
<1>4. /\ code' \in [n : 1..MaxCodes, live : BOOLEAN, used : Requests]
      /\ code'.n = code.n + 1 /\ code'.used = NoRequest /\ code.n \in Nat
  BY <1>1, NoneTypes, ConstantsAssumption DEF IssueEnrollment, TypeOK
<1>5. IsFiniteSet(challenges') /\ Cardinality(challenges') <= MaxChallenges
  BY <1>2, FS_EmptySet, ConstantsAssumption
<1>6. TypeOK'
  BY <1>1, <1>2, <1>3, <1>4, <1>5 DEF TypeOK
<1>7. /\ \A d \in Clients : pending[d] \in Requests /\ reg[d] \in Sessions
      /\ \A m \in minted : m.code \in Nat
  BY <1>1 DEF TypeOK
<1>8. MintedOnce' /\ RowAgrees' /\ AnswerInReach'
  BY <1>1, <1>2, <1>3, <1>4 DEF MintedOnce, RowAgrees, AnswerInReach
<1>9. CodesSpent'
  BY <1>1, <1>2, <1>4, <1>7 DEF CodesSpent
<1>10. \A d \in Clients : reg[d].code \in Nat /\ reg[d].code <= code.n
  BY <1>1, <1>7 DEF Machines, Knows, Sessions
<1>11. HolderIsNode'
  BY <1>2, <1>4, <1>10 DEF HolderIsNode
<1>12. \A d \in Clients : Knows(d)'
  <2>1. \A d \in Clients : Knows(d)
    BY <1>1 DEF Machines
  <2>2. \A d \in Clients : pending[d].code \in Nat /\ reg[d].code \in Nat
    BY <1>7 DEF Requests, Sessions
  <2>3. pending' = pending /\ reg' = reg /\ nonces' = nonces
    BY <1>2
  <2>4. code'.n = code.n + 1 /\ code.n \in Nat
    BY <1>4
  <2> QED
    BY <2>1, <2>2, <2>3, <2>4 DEF Knows
<1>13. \A d \in Clients : Called(d)' /\ Keyed(d)'
  BY <1>1, <1>2, <1>3, <1>4 DEF Machines, Called, Keyed
<1>14. \A d, e \in Clients : d # e => Apart(d, e)'
  BY <1>1, <1>2 DEF Machines, Apart
<1> QED
  BY <1>5, <1>6, <1>8, <1>9, <1>11, <1>12, <1>13, <1>14, PartsNext DEF Machines

\* A session that is the row's is that of the machine the row names, so that no other machine
\* holds one of the present code when the node is released (Leave, ReleaseNode).
LEMMA LeaveKeeps ==
  ASSUME EnrollInv, NEW c \in Clients, Leave(c)
  PROVE  EnrollInv'
<1>1. /\ TypeOK /\ MintedOnce /\ HolderIsNode /\ AnswerInReach /\ IsFiniteSet(challenges)
      /\ CodesSpent /\ RowAgrees /\ Machines
  BY Parts
<1>2. /\ UNCHANGED <<enabled, nonces, expired, call, pending, minted>>
      /\ call[c].pc = "idle" /\ reg[c] # NoSession
      /\ dropped' = dropped \cup {c}
      /\ reg' = [reg EXCEPT ![c] = NoSession]
  BY DEF Leave
<1>3. reg' \in [Clients -> Sessions] /\ reg'[c] = NoSession /\ Others(c)
  BY <1>1, <1>2, NoneTypes DEF TypeOK, Others
<1>4. Called(c)' /\ nonces <= nonces'
  BY <1>1, <1>2 DEF Called, TypeOK
<1>5. dropped' \subseteq Clients
  BY <1>1, <1>2 DEF TypeOK
<1>6. CASE (Fault \/ UNCHANGED faults) /\ UNCHANGED <<node, code, challenges>>
  <2>1. TypeOK'
    BY <1>1, <1>2, <1>3, <1>5, <1>6, RowsStay, FaultType DEF TypeOK, Calls
  <2> QED
    BY <1>1, <1>2, <1>3, <1>4, <1>6, <2>1, MachineStep
<1>7. CASE /\ reg[c].token = node.session
           /\ node' = Released(node)
           /\ code' = [code EXCEPT !.live = FALSE, !.used = NoRequest]
           /\ challenges' = {}
           /\ UNCHANGED faults
  <2>1. node.key = c
    BY <1>1, <1>2, <1>7 DEF Machines, Knows, Keyed
  <2>2. /\ node' \in [state : {"pending", "registered"}, key : Clients \cup {None},
                      session : 0..MaxNonces]
        /\ node'.state = "pending" /\ node'.session = 0
    BY <1>1, <1>7, ReleasedFacts
  <2>3. code \in [n : 1..MaxCodes, live : BOOLEAN, used : Requests]
    BY <1>1 DEF TypeOK
  <2>4. /\ code' \in [n : 1..MaxCodes, live : BOOLEAN, used : Requests]
        /\ code'.n = code.n /\ code'.live = FALSE /\ code'.used = NoRequest
    BY <1>7, <2>3, NoneTypes
  <2>5. IsFiniteSet(challenges') /\ Cardinality(challenges') <= MaxChallenges
    BY <1>7, FS_EmptySet, ConstantsAssumption
  <2>6. TypeOK'
    BY <1>1, <1>2, <1>3, <1>5, <1>7, <2>2, <2>4, <2>5 DEF TypeOK
  <2>7. MintedOnce' /\ CodesSpent' /\ RowAgrees' /\ AnswerInReach'
    BY <1>1, <1>2, <2>2, <2>4 DEF MintedOnce, CodesSpent, RowAgrees, AnswerInReach
  <2>8. \A d \in Clients \ {c} : ~(reg[d] # NoSession /\ reg[d].code = code.n)
    <3>1. \A d \in Clients \ {c} :
            node # [state |-> "registered", key |-> d, session |-> reg[d].token]
      BY <2>1
    <3> QED
      BY <1>1, <3>1 DEF HolderIsNode
  <2>9. HolderIsNode'
    BY <1>3, <2>4, <2>8 DEF HolderIsNode, Others
  <2>10. \A d \in Clients : Knows(d)'
    <3>1. \A d \in Clients : Knows(d)
      BY <1>1 DEF Machines
    <3>2. reg'[c].token = 0 /\ reg'[c].code = 0 /\ code.n \in Nat
      BY <1>1, <1>3 DEF NoSession, TypeOK
    <3>3. code'.n = code.n /\ nonces' = nonces /\ pending' = pending /\ nonces \in Nat
      BY <1>1, <1>2, <2>4 DEF TypeOK
    <3>4. Knows(c)'
      <4>1. Knows(c) /\ reg'[c] = NoSession
        BY <1>3, <3>1
      <4>2. reg'[c].code <= code'.n /\ reg'[c].token <= nonces'
        BY <3>2, <3>3
      <4> QED
        BY <3>2, <3>3, <4>1, <4>2 DEF Knows
    <3>5. \A d \in Clients \ {c} : reg'[d] = reg[d]
      BY <1>3 DEF Others
    <3>6. \A d \in Clients \ {c} : Knows(d)'
      BY <3>1, <3>3, <3>5, KnowsStays
    <3> QED
      BY <3>4, <3>6
  <2>11. \A d \in Clients : Called(d)' /\ Keyed(d)'
    <3>1. \A d \in Clients : Called(d)
      BY <1>1 DEF Machines
    <3>2. code'.used = NoRequest /\ call' = call /\ pending' = pending
      BY <1>2, <2>4
    <3>3. \A d \in Clients : reg'[d] = reg[d] \/ reg'[d] = NoSession
      BY <1>3 DEF Others
    <3>4. \A d \in Clients : Called(d)'
      BY <3>1, <3>2, <3>3 DEF Called
    <3>5. \A d \in Clients : Keyed(d)'
      BY <2>2 DEF Keyed
    <3> QED
      BY <3>4, <3>5
  <2>12. \A d, e \in Clients : d # e => Apart(d, e)'
    <3>1. \A d, e \in Clients : d # e => Apart(d, e)
      BY <1>1 DEF Machines
    <3>2. NoSession.token = 0 /\ pending' = pending
      BY <1>2 DEF NoSession
    <3>3. \A d \in Clients : reg'[d].token \in {0, reg[d].token}
      BY <1>3, <3>2 DEF Others
    <3> QED
      BY <3>1, <3>2, <3>3 DEF Apart
  <2> QED
    BY <2>5, <2>6, <2>7, <2>9, <2>10, <2>11, <2>12, PartsNext DEF Machines
<1> QED
  BY <1>6, <1>7 DEF Leave, ReleaseNode

-----------------------------------------------------------------------------
(* The registration *)

\* The second transaction of EnrollNode: the code is alive and not used, so that no session was
\* given for it, and the nonce is one that no other machine has.
LEMMA RegisterKeeps ==
  ASSUME EnrollInv, NEW c \in Clients, Register(c)
  PROVE  EnrollInv'
<1>1. /\ TypeOK /\ MintedOnce /\ HolderIsNode /\ AnswerInReach /\ IsFiniteSet(challenges)
      /\ CodesSpent /\ RowAgrees /\ Machines
  BY Parts
<1>2. UNCHANGED <<enabled, nonces, expired>> /\ call[c].pc = "verifying" /\ reg[c] = NoSession
  BY <1>1 DEF Register, Machines, Called
<1>3. CASE ~Confirmed(c)
  BY <1>2, <1>3, SettledKeeps DEF Register
<1>4. CASE Confirmed(c)
  <2> DEFINE n == pending[c].nonce
             m == [code |-> code.n, client |-> c, token |-> n]
  <2>1. /\ code.live /\ pending[c].code = code.n /\ code.used = NoRequest
        /\ node.state = "pending"
    BY <1>4 DEF Confirmed, Open, Known
  <2>2. /\ node' = [state |-> "registered", key |-> c, session |-> n]
        /\ challenges' = {ch \in challenges : ch.nonce # n}
        /\ code' = [code EXCEPT !.used = pending[c]]
        /\ minted' = minted \cup {m}
        /\ dropped' = dropped \ {c}
        /\ Delivered(c, n)
    BY <1>4 DEF Register
  <2>3. pending[c] \in Requests /\ n \in 1..MaxNonces /\ n # 0
    <3>1. pending[c] \in Requests /\ pending[c] # NoRequest /\ Knows(c)
      BY <1>1, <1>2 DEF TypeOK, Machines, Called
    <3> QED
      BY <3>1, ConstantsAssumption DEF Requests, Knows
  <2>4. /\ code' \in [n : 1..MaxCodes, live : BOOLEAN, used : Requests]
        /\ code'.n = code.n /\ code'.live = code.live /\ code'.used = pending[c]
        /\ code.n \in 1..MaxCodes
    <3>1. code \in [n : 1..MaxCodes, live : BOOLEAN, used : Requests]
      BY <1>1 DEF TypeOK
    <3> QED
      BY <2>2, <2>3, <3>1
  <2>5. /\ node' \in [state : {"pending", "registered"}, key : Clients \cup {None},
                      session : 0..MaxNonces]
        /\ node'.state = "registered" /\ node'.key = c /\ node'.session = n
    BY <2>2, <2>3
  <2>6. /\ IsFiniteSet(challenges') /\ Cardinality(challenges') <= MaxChallenges
        /\ challenges' \subseteq [nonce : 1..MaxNonces, client : Clients]
    BY <1>1, <2>2, FewerChallenges
  <2>7. m \in [code : 1..MaxCodes, client : Clients, token : 1..MaxNonces] /\ m.code = code.n
    BY <2>3, <2>4
  <2>8. pending[c] = [nonce |-> n, code |-> code.n] /\ pending[c] # NoRequest
    BY <2>1, <2>3 DEF Requests, NoRequest
  <2> HIDE DEF n, m
  <2>9. /\ call' \in [Clients -> Calls] /\ call'[c].pc = "idle"
        /\ pending' \in [Clients -> Requests] /\ reg' \in [Clients -> Sessions]
        /\ faults' \in 0..MaxFaults /\ Others(c)
        /\ \/ pending'[c] = pending[c] /\ reg'[c] = NoSession
           \/ pending'[c] = NoRequest /\ reg'[c] = [token |-> n, code |-> code.n]
    <3>1. CASE Accept(c, n) /\ UNCHANGED faults
      <4>1. n \in 0..MaxNonces /\ faults' \in 0..MaxFaults
        BY <1>1, <2>3, <3>1, FaultType
      <4> QED
        BY <1>1, <2>1, <3>1, <4>1, AcceptFacts
    <3>2. CASE Fault /\ Fails(c)
      <4>1. pending \in [Clients -> Requests] /\ reg \in [Clients -> Sessions]
        BY <1>1 DEF TypeOK
      <4> QED
        BY <1>1, <1>2, <3>2, <4>1, FailsFacts, FaultType
    <3> QED
      BY <2>2, <3>1, <3>2 DEF Delivered, Lost
  <2>10. TypeOK'
    BY <1>1, <1>2, <2>2, <2>4, <2>5, <2>6, <2>7, <2>9 DEF TypeOK, Calls
  <2>11. \A k \in minted : k.code # code.n /\ k.code <= code.n
    BY <1>1, <2>1 DEF CodesSpent
  <2>12. MintedOnce'
    BY <1>1, <2>2, <2>7, <2>11 DEF MintedOnce
  <2>13. CodesSpent'
    BY <2>2, <2>4, <2>7, <2>8, <2>11 DEF CodesSpent
  <2>14. RowAgrees'
    BY <2>3, <2>4, <2>5, <2>8, ConstantsAssumption DEF RowAgrees
  <2>15. HolderIsNode'
    <3>1. \A d \in Clients : ~(reg[d] # NoSession /\ reg[d].code = code.n)
      <4>1. \A d \in Clients : node # [state |-> "registered", key |-> d, session |-> reg[d].token]
        BY <2>1
      <4> QED
        BY <1>1, <4>1 DEF HolderIsNode
    <3> QED
      BY <2>2, <2>4, <2>9, <3>1 DEF HolderIsNode, Others
  <2>16. AnswerInReach'
    BY <2>4, <2>5, <2>9 DEF AnswerInReach
  <2>17. \A d \in Clients : Knows(d)'
    <3>1. \A d \in Clients : Knows(d)
      BY <1>1 DEF Machines
    <3>2. code'.n = code.n /\ nonces' = nonces
      BY <1>2, <2>4
    <3>3. ASSUME pending'[c] = pending[c], reg'[c] = NoSession PROVE Knows(c)'
      BY <1>2, <3>1, <3>2, <3>3, KnowsStays
    <3>4. ASSUME pending'[c] = NoRequest, reg'[c] = [token |-> n, code |-> code.n]
          PROVE  Knows(c)'
      <4>1. n \in Nat \ {0} /\ n <= nonces /\ nonces \in Nat /\ code.n \in Nat
        BY <1>1, <2>3, <2>4, <3>1 DEF Knows, TypeOK, n
      <4> QED
        BY <3>2, <3>4, <4>1, KnowsAccepted
    <3>5. \A d \in Clients \ {c} : pending'[d] = pending[d] /\ reg'[d] = reg[d]
      BY <2>9 DEF Others
    <3>6. \A d \in Clients \ {c} : Knows(d)'
      BY <3>1, <3>2, <3>5, KnowsStays
    <3> QED
      BY <2>9, <3>3, <3>4, <3>6
  <2>18. \A d \in Clients \ {c} : n \notin {pending[d].nonce, reg[d].token}
    BY <1>1, <2>3 DEF Machines, Apart, n
  <2>19. \A d \in Clients \ {c} : pending[d] # pending[c]
    BY <2>18 DEF n
  <2>20. \A d \in Clients : Called(d)'
    <3>1. \A d \in Clients : Called(d)
      BY <1>1 DEF Machines
    <3>2. code'.used = pending[c]
      BY <2>4
    <3>3. \A d \in Clients \ {c} : Called(d)'
      BY <2>9, <2>19, <3>1, <3>2 DEF Called, Others
    <3>4. Called(c)'
      BY <2>9 DEF Called
    <3> QED
      BY <3>3, <3>4
  <2>21. \A d \in Clients : Keyed(d)'
    BY <2>5, <2>9, <2>18 DEF Keyed, Others
  <2>22. \A d, e \in Clients : d # e => Apart(d, e)'
    <3>1. \A d, e \in Clients : d # e => Apart(d, e)
      BY <1>1 DEF Machines
    <3>2. pending'[c].nonce \in {0, n} /\ reg'[c].token \in {0, n}
      <4>1. NoRequest.nonce = 0 /\ NoSession.token = 0 /\ pending[c].nonce = n
        BY DEF NoRequest, NoSession, n
      <4>2. CASE pending'[c] = pending[c] /\ reg'[c] = NoSession
        BY <4>1, <4>2
      <4>3. CASE pending'[c] = NoRequest /\ reg'[c] = [token |-> n, code |-> code.n]
        BY <4>1, <4>3
      <4> QED
        BY <2>9, <4>2, <4>3
    <3>3. \A d \in Clients \ {c} : pending'[d] = pending[d] /\ reg'[d] = reg[d]
      BY <2>9 DEF Others
    <3>4. \A d \in Clients \ {c} : Apart(c, d)' /\ Apart(d, c)'
      BY <2>18, <3>2, <3>3 DEF Apart
    <3>5. \A d, e \in Clients \ {c} : d # e => Apart(d, e)'
      BY <3>1, <3>3, ApartStays
    <3> QED
      BY <3>4, <3>5
  <2> QED
    BY <2>6, <2>10, <2>12, <2>13, <2>14, <2>15, <2>16, <2>17, <2>20, <2>21, <2>22, PartsNext
       DEF Machines
<1> QED
  BY <1>3, <1>4

-----------------------------------------------------------------------------
(* The theorems *)

LEMMA NextInv == EnrollInv /\ [Next]_vars => EnrollInv'
<1> SUFFICES ASSUME EnrollInv, [Next]_vars PROVE EnrollInv'
  OBVIOUS
<1>1. ASSUME NEW c \in Clients, Machine(c) PROVE EnrollInv'
  BY <1>1, EnrollKeeps, GiveUpKeeps, ClearRegistrationKeeps, LeaveKeeps DEF Machine
<1>2. ASSUME NEW c \in Clients, Controller(c) PROVE EnrollInv'
  BY <1>2, EnrollmentChallengeKeeps, EnrollNodeKeeps, VerifyFailsKeeps, RegisterKeeps
     DEF Controller
<1>3. CASE IssueEnrollment
  BY <1>3, IssueEnrollmentKeeps
<1>7. CASE SetUserEnabled
  BY <1>7, SetUserEnabledKeeps
<1>4. CASE CodeExpires
  BY <1>4, CodeExpiresKeeps
<1>5. ASSUME NEW n \in 1..MaxNonces, ChallengeExpires(n) PROVE EnrollInv'
  BY <1>5, ChallengeExpiresKeeps
<1>6. CASE UNCHANGED vars
  BY <1>6, Zenon
     DEF vars, EnrollInv, CodeOnce, TypeOK, HolderIsNode, AnswerInReach
<1> QED
  BY <1>1, <1>2, <1>3, <1>4, <1>5, <1>6, <1>7 DEF Next

\* The inductive invariant of the enrolment (nodes.go, node_self.go, node_client.go).
THEOREM EnrollInvariant == Spec => []EnrollInv
<1>1. Init => EnrollInv
  BY InitInv
<1>2. EnrollInv /\ [Next]_vars => EnrollInv'
  BY NextInv
<1> QED
  BY <1>1, <1>2, PTL DEF Spec

\* A code gives out one session to one machine, however many requests with it are between the
\* two transactions of EnrollNode.
THEOREM CodeUsedOnce == Spec => []CodeOnce
<1>1. EnrollInv => CodeOnce
  BY Zenon DEF EnrollInv
<1> QED
  BY <1>1, EnrollInvariant, PTL

\* A machine that holds a session of the present code is the node of the row (acceptSession,
\* EnrollNode, releaseNode).
THEOREM HolderSafe == Spec => []HolderIsNode
<1>1. EnrollInv => HolderIsNode
  BY Zenon DEF EnrollInv
<1> QED
  BY <1>1, EnrollInvariant, PTL

\* A registration whose answer was lost stays within the machine's reach while its code lives
\* (Enroll, enrollmentReceipt), but for the two exceptions AnswerInReach names.
THEOREM AnswerKept == Spec => []AnswerInReach
<1>1. EnrollInv => AnswerInReach
  BY Zenon DEF EnrollInv
<1> QED
  BY <1>1, EnrollInvariant, PTL

\* The key a node was first registered with is never replaced (public_key in EnrollNode).
THEOREM KeyStays == Spec => KeyPinned
<1>1. ASSUME EnrollInv, [Next]_vars, node.key # None
      PROVE  node'.key = node.key
  <2>1. TypeOK
    BY <1>1, Parts
  <2>2. Released(node).key = node.key
    BY <2>1 DEF TypeOK, Released
  <2>3. ASSUME NEW c \in Clients, Machine(c) PROVE node'.key = node.key
    BY <2>2, <2>3 DEF Machine, Enroll, GiveUp, ClearRegistration, Leave, ReleaseNode
  <2>4. ASSUME NEW c \in Clients, Controller(c) PROVE node'.key = node.key
    <3>1. CASE Register(c)
      BY <1>1, <3>1 DEF Register, Confirmed, KeyFits
    <3> QED
      BY <2>4, <3>1 DEF Controller, EnrollmentChallenge, EnrollNode, VerifyFails
  <2>5. CASE IssueEnrollment
    BY <2>2, <2>5 DEF IssueEnrollment
  <2> QED
    BY <1>1, <2>3, <2>4, <2>5 DEF Next, SetUserEnabled, CodeExpires, ChallengeExpires, vars
<1>2. EnrollInv /\ [Next]_vars => (node.key # None => node'.key = node.key)
  BY <1>1
<1> QED
  BY <1>2, EnrollInvariant, PTL DEF Spec, KeyPinned

=============================================================================
