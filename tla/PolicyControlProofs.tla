------------------------- MODULE PolicyControlProofs -------------------------
(***************************************************************************)
(* ControlInv is inductive, for every number of revisions, sessions,       *)
(* policies in the connection and faults.  The steps fall in two groups.   *)
(* The controller's leave the node alone (lemma RowStep): they revise the  *)
(* policy, and believe an acknowledgement only if it is one the node sent  *)
(* under the present session.  The node's leave the row alone (lemma       *)
(* NodeStep): they move copies of policies about, and forget what the      *)
(* controller believes only together with the registration.                *)
(***************************************************************************)
EXTENDS PolicyControl, TLAPS

\* The parts of ControlInv, each about one thing.
Order == applied <= received /\ received <= policy.rev

Paused ==
  /\ policy.grants => enabled
  /\ nodeState = "pending" => received = 0 /\ ~policy.grants
  /\ removal # "none" => ~enabled /\ nodeState # "pending"
  /\ removal = "connected" => applied = policy.rev

Minted ==
  /\ session <= minted /\ myToken <= minted /\ post.token <= minted
  /\ \A a \in wire : a.token <= minted

Copies ==
  /\ FromDatabase(hand) /\ FromDatabase(held) /\ FromDatabase(notice) /\ FromDatabase(running)
  /\ \A k \in 1..Len(inbox) : FromDatabase(inbox[k])
  /\ status <= policy.rev

Gone ==
  /\ myToken = 0 => pc \in {"off", "left"} /\ running = NoPolicy /\ notice = NoPolicy
  /\ pc = "left" => myToken = 0 /\ post.state = "leave"

Saved ==
  /\ pc \in {"received", "apply"} => held = hand
  /\ running.rev <= held.rev

\* The acknowledgement is true of the disk and of the derper.
Backed(a) ==
  /\ a.state \in {"received", "applied"} => a.rev <= held.rev
  /\ a.state = "applied" /\ running # NoPolicy => a.rev <= running.rev

Believed ==
  myToken # 0 =>
    /\ received <= held.rev
    /\ running # NoPolicy => applied <= running.rev
    /\ \A a \in wire : a.token = session /\ a.token # 0 => Backed(a)

\* ControlInv is its parts.
LEMMA Parts ==
  ControlInv <=> /\ TypeOK /\ Order /\ Paused /\ Minted /\ Copies /\ Gone /\ Saved /\ Believed
BY DEF ControlInv, Order, Paused, Minted, Copies, Gone, Saved, Believed, Backed

\* The same of the next state.
LEMMA PartsNext ==
  ControlInv' <=> /\ TypeOK' /\ Order' /\ Paused' /\ Minted' /\ Copies' /\ Gone' /\ Saved'
                  /\ Believed'
BY DEF ControlInv, Order, Paused, Minted, Copies, Gone, Saved, Believed, Backed

\* No policy has revision 0 and no grants; every policy has a later one.
LEMMA PolicyFacts ==
  /\ NoPolicy.rev = 0 /\ NoPolicy.grants = FALSE /\ NoPolicy \in MaybePolicy
  /\ \A p \in MaybePolicy : p.rev \in 0..MaxRevision /\ p.rev \in Nat /\ p.grants \in BOOLEAN
  /\ \A p \in MaybePolicy : p.rev = 0 <=> p = NoPolicy
  /\ \A p \in Policies : p \in MaybePolicy /\ p.rev # 0
<1>1. NoPolicy.rev = 0 /\ NoPolicy.grants = FALSE /\ NoPolicy \in MaybePolicy
  BY DEF NoPolicy, MaybePolicy
<1>2. \A p \in Policies : p \in MaybePolicy /\ p.rev \in 1..MaxRevision /\ p.grants \in BOOLEAN
  BY DEF MaybePolicy, Policies
<1>3. \A p \in MaybePolicy : p \in Policies \/ p = NoPolicy
  BY DEF MaybePolicy
<1>4. \A n \in 1..MaxRevision : n \in 0..MaxRevision /\ n \in Nat /\ n # 0
  BY BoundsAssumption
<1>5. 0 \in 0..MaxRevision
  BY BoundsAssumption
<1>6. \A p \in Policies : p.rev \in 0..MaxRevision /\ p.rev \in Nat /\ p.rev # 0
  BY <1>2, <1>4
<1>7. ASSUME NEW p \in MaybePolicy
      PROVE  p.rev \in 0..MaxRevision /\ p.rev \in Nat /\ p.grants \in BOOLEAN /\ (p.rev = 0 <=> p = NoPolicy)
  <2>1. CASE p \in Policies
    <3>1. p # NoPolicy
      BY <1>1, <1>6, <2>1
    <3> QED
      BY <1>2, <1>6, <2>1, <3>1
  <2>2. CASE p = NoPolicy
    BY <1>5, <2>2 DEF NoPolicy
  <2> QED
    BY <1>3, <2>1, <2>2
<1> QED
  BY <1>1, <1>2, <1>6, <1>7

\* A node that has just enrolled (Init).
LEMMA InitInv == Init => ControlInv
<1> SUFFICES ASSUME Init PROVE ControlInv
  OBVIOUS
<1>1. [rev |-> 1, grants |-> FALSE] \in Policies /\ NoRequest \in Requests
  BY BoundsAssumption DEF Policies, NoRequest, Requests, Revisions, Tokens
<1>2. inbox \in Seq(Policies) /\ Len(inbox) = 0
  BY DEF Init
<1>3. TypeOK
  <2>1. [rev |-> 1, grants |-> FALSE] \in MaybePolicy /\ NoPolicy \in MaybePolicy
    BY <1>1, PolicyFacts
  <2>2. 0 \in Revisions /\ 0 \in Tokens /\ 1 \in Tokens /\ 0 \in 0..MaxFaults /\ 0 <= MaxInbox
    BY BoundsAssumption DEF Revisions, Tokens
  <2>3. "off" \in Places
    BY DEF Places
  <2> QED
    BY <1>1, <1>2, <2>1, <2>2, <2>3, Zenon DEF Init, TypeOK, Removals
<1>4. Order /\ Paused /\ Minted
  BY DEF Init, Order, Paused, Minted, NoRequest
<1>5. Copies /\ Gone /\ Saved /\ Believed
  BY <1>2 DEF Init, Copies, FromDatabase, NoPolicy, Gone, Saved, Believed
<1> QED
  BY <1>3, <1>4, <1>5, Parts

\* A step that leaves the node alone: it revises the policy or does not, takes requests off
\* the wire, ends the session or does not, and believes no more than the node can keep.
LEMMA RowStep ==
  ASSUME ControlInv, TypeOK', Order', Paused',
         UNCHANGED <<minted, myToken, pc, hand, post, status, host, inbox>>,
         policy' = policy \/ policy'.rev = policy.rev + 1,
         session' \in {session, 0},
         wire' \subseteq wire,
         myToken # 0 => /\ received' <= held.rev
                        /\ running # NoPolicy => applied' <= running.rev
  PROVE  ControlInv'
<1>1. TypeOK /\ Minted /\ Copies /\ Gone /\ Saved /\ Believed
  BY Parts
<1>2. UNCHANGED <<held, loadable, notice, running>>
  BY DEF host
<1>3. Minted'
  BY <1>1 DEF Minted, TypeOK, Tokens
<1>4. Copies'
  <2>1. policy.rev \in Nat /\ policy'.rev \in Nat /\ policy.rev <= policy'.rev
    BY <1>1, PolicyFacts DEF TypeOK
  <2>2. ASSUME NEW p \in MaybePolicy, FromDatabase(p)
        PROVE  p.rev <= policy'.rev /\ (p.rev = policy'.rev => p = policy')
    <3>1. p.rev \in Nat
      BY PolicyFacts
    <3> QED
      BY <2>1, <2>2, <3>1 DEF FromDatabase
  <2>3. \A k \in 1..Len(inbox) : inbox[k] \in MaybePolicy
    BY <1>1 DEF TypeOK, MaybePolicy
  <2>4. status \in Nat /\ status <= policy'.rev
    BY <1>1, <2>1, SMTT(20) DEF TypeOK, Revisions, Copies
  <2> QED
    BY <1>1, <1>2, <2>2, <2>3, <2>4 DEF Copies, FromDatabase, TypeOK
<1>5. Gone' /\ Saved'
  BY <1>1, <1>2 DEF Gone, Saved
<1>6. Believed'
  BY <1>1, <1>2 DEF Believed, Backed
<1> QED
  BY <1>3, <1>4, <1>5, <1>6, PartsNext

\* The next revision is a policy.
LEMMA Revised ==
  ASSUME TypeOK, CanRevise, NEW g \in BOOLEAN
  PROVE  /\ [rev |-> policy.rev + 1, grants |-> g] \in MaybePolicy
         /\ [rev |-> policy.rev + 1, grants |-> g].rev = policy.rev + 1
         /\ [rev |-> policy.rev + 1, grants |-> g].grants = g
<1>1. policy.rev \in Nat /\ policy.rev < MaxRevision
  BY PolicyFacts DEF TypeOK, CanRevise
<1>2. policy.rev + 1 \in 1..MaxRevision
  BY <1>1, BoundsAssumption
<1> QED
  BY <1>2 DEF MaybePolicy, Policies

\* The row's numbers are numbers.
LEMMA RowTypes ==
  ASSUME TypeOK
  PROVE  /\ received \in Nat /\ applied \in Nat /\ status \in Nat /\ sent \in Nat
         /\ session \in Nat /\ minted \in Nat /\ myToken \in Nat /\ post.token \in Nat
         /\ policy.rev \in Nat /\ held.rev \in Nat /\ running.rev \in Nat /\ hand.rev \in Nat
         /\ \A a \in wire : a \in Requests /\ a.rev \in Nat /\ a.token \in Nat
<1>1. /\ received \in Nat /\ applied \in Nat /\ status \in Nat /\ sent \in Nat
      /\ session \in Nat /\ minted \in Nat /\ myToken \in Nat
  BY BoundsAssumption DEF TypeOK, Revisions, Tokens
<1>2. policy.rev \in Nat /\ held.rev \in Nat /\ running.rev \in Nat /\ hand.rev \in Nat
  BY PolicyFacts DEF TypeOK
<1>3. \A a \in Requests : a.rev \in Nat /\ a.token \in Nat
  BY BoundsAssumption DEF Requests, Revisions, Tokens
<1>4. post \in Requests /\ wire \subseteq Requests
  BY DEF TypeOK
<1> QED
  BY <1>1, <1>2, <1>3, <1>4

\* The steps that revise the policy and leave the rest of the row alone.
LEMMA ReviseKeeps ==
  ASSUME ControlInv,
         \/ \E g \in BOOLEAN : ChangePolicy(g)
         \/ \E on, g \in BOOLEAN : SetNodeEnabled(on, g)
  PROVE  ControlInv'
<1>1. TypeOK /\ Order /\ Paused /\ Believed
  BY Parts
<1>2. /\ UNCHANGED <<nodeState, received, applied, failed, removal, tokens, link, wire, myToken,
                     client, host, faults>>
      /\ removal = "none"
  BY DEF ChangePolicy, SetNodeEnabled, DatabaseFree
<1>3. /\ policy' \in MaybePolicy /\ enabled' \in BOOLEAN
      /\ policy' = policy \/ policy'.rev = policy.rev + 1
      /\ policy'.grants => enabled'
      /\ nodeState = "pending" => ~policy'.grants
  <2>1. CASE \E g \in BOOLEAN : ChangePolicy(g)
    BY <1>1, <2>1, Revised DEF ChangePolicy, TypeOK
  <2>2. CASE \E on, g \in BOOLEAN : SetNodeEnabled(on, g)
    <3> PICK on \in BOOLEAN, g \in BOOLEAN : SetNodeEnabled(on, g)
      BY <2>2
    <3>1. CASE policy' = policy /\ nodeState = "pending"
      BY <1>1, <3>1 DEF SetNodeEnabled, Paused, TypeOK
    <3>2. CASE policy' = policy /\ ~policy.grants
      BY <1>1, <3>2 DEF SetNodeEnabled, TypeOK
    <3>3. CASE nodeState # "pending" /\ policy' = [rev |-> policy.rev + 1, grants |-> g]
      BY <1>1, <3>3, Revised DEF SetNodeEnabled, TypeOK
    <3> QED
      BY <3>1, <3>2, <3>3 DEF SetNodeEnabled, Rebuilt
  <2> QED
    BY <2>1, <2>2
<1>4. TypeOK'
  BY <1>1, <1>2, <1>3 DEF TypeOK, tokens, link, client, host
<1>5. Order'
  <2>1. policy.rev <= policy'.rev /\ policy'.rev \in Nat
    BY <1>1, <1>3, PolicyFacts DEF TypeOK
  <2> QED
    BY <1>1, <1>2, <2>1, RowTypes DEF Order
<1>6. Paused'
  BY <1>1, <1>2, <1>3 DEF Paused
<1> QED
  BY <1>1, <1>2, <1>3, <1>4, <1>5, <1>6, RowStep DEF Believed, tokens, link, client

\* A removal that looks for the stream, ends the session of the node or fails.
LEMMA RemoveKeeps ==
  ASSUME ControlInv, LookForStream \/ DeleteNode \/ ChangeNodeDomain \/ RemovalFails
  PROVE  ControlInv'
<1>1. TypeOK /\ Order /\ Paused /\ Believed
  BY Parts
<1>2. /\ UNCHANGED <<enabled, policy, received, applied, failed, minted, link, wire, myToken,
                     client, host>>
      /\ nodeState' \in {nodeState, "deleted", "domain_pending"} /\ session' \in {session, 0}
  BY DEF LookForStream, DeleteNode, ChangeNodeDomain, RemovalFails, tokens
<1>3. /\ removal' \in Removals
      /\ removal' # "none" => ~enabled /\ nodeState' # "pending"
      /\ removal' = "connected" => applied = policy.rev
  BY DEF LookForStream, DeleteNode, ChangeNodeDomain, RemovalFails, Drained, Removals
<1>4. faults' \in 0..MaxFaults
  BY <1>1, BoundsAssumption
     DEF LookForStream, DeleteNode, ChangeNodeDomain, RemovalFails, Fault, TypeOK
<1>5. TypeOK'
  BY <1>1, <1>2, <1>3, <1>4, BoundsAssumption DEF TypeOK, Tokens, link, client, host
<1>6. Order' /\ Paused'
  BY <1>1, <1>2, <1>3 DEF Order, Paused
<1> QED
  BY <1>1, <1>2, <1>5, <1>6, RowStep DEF Believed, link, client

\* A released node starts over: nothing is believed of it.
LEMMA ReleasedKeeps ==
  ASSUME ControlInv, DatabaseFree, CanRevise, Released, wire' \subseteq wire,
         UNCHANGED <<enabled, failed, removal, minted, joining, inbox, myToken, client, host,
                     faults>>
  PROVE  ControlInv'
<1>1. TypeOK /\ Order /\ Paused /\ Believed
  BY Parts
<1>2. /\ nodeState' = "pending" /\ received' = 0 /\ applied' = 0 /\ session' = 0 /\ stream' = 0
      /\ sent' = 0 /\ policy' \in MaybePolicy /\ policy'.rev = policy.rev + 1 /\ policy'.grants = FALSE
  BY <1>1, Revised, Zenon DEF Released
<1>3. TypeOK'
  BY <1>1, <1>2, BoundsAssumption DEF TypeOK, Revisions, Tokens, client, host
<1>4. Order' /\ Paused'
  BY <1>1, <1>2, RowTypes DEF Order, Paused, DatabaseFree
<1>5. held.rev >= 0 /\ running.rev >= 0
  BY <1>1, RowTypes
<1> QED
  BY <1>2, <1>3, <1>4, <1>5, RowStep DEF client

\* An acknowledgement is believed only under the present session, where it is true.
LEMMA AcknowledgeKeeps ==
  ASSUME ControlInv, NEW a \in wire, AcknowledgePolicy(a)
  PROVE  ControlInv'
<1>1. TypeOK /\ Order /\ Paused /\ Believed
  BY Parts
<1>2. /\ UNCHANGED <<nodeState, enabled, policy, removal, tokens, link, myToken, pc, hand, post,
                     receiveErr, status, host>>
      /\ removal = "none"
      /\ received' = IF a.state = "received" THEN a.rev ELSE received
      /\ applied' = IF a.state = "applied" THEN a.rev ELSE applied
      /\ failed' \in BOOLEAN
      /\ Acceptable(a) /\ a.token # 0 /\ a.token = session /\ nodeState = "registered"
  BY <1>1, Zenon DEF AcknowledgePolicy, Authenticated, DatabaseFree, TypeOK
<1>3. wire' \subseteq wire /\ reply' \in {"none", "ok", "refused"} /\ faults' \in 0..MaxFaults
  <2>1. Answer(a, "ok")
    BY DEF AcknowledgePolicy
  <2> QED
    BY <1>1, <2>1, BoundsAssumption DEF Answer, Fault, TypeOK
<1>4. a.rev \in Revisions /\ a.rev \in Nat
  BY <1>1, RowTypes DEF TypeOK, Requests
<1>5. TypeOK'
  <2>1. received' \in Revisions /\ applied' \in Revisions
    BY <1>1, <1>2, <1>4 DEF TypeOK
  <2> QED
    BY <1>1, <1>2, <1>3, <2>1 DEF TypeOK, tokens, link, host
<1>6. Order'
  BY <1>1, <1>2, <1>4, RowTypes DEF Order, Acceptable
<1>7. Paused'
  BY <1>1, <1>2 DEF Paused
<1>8. myToken # 0 => /\ received' <= held.rev
                     /\ running # NoPolicy => applied' <= running.rev
  BY <1>1, <1>2 DEF Believed, Backed
<1> QED
  BY <1>2, <1>3, <1>5, <1>6, <1>7, <1>8, RowStep DEF tokens, link

\* Requests that are refused or lost, and a stream that registers or ends, change nothing of
\* this.
LEMMA RefuseKeeps ==
  ASSUME ControlInv, (\E a \in wire : Refuse(a) \/ LoseRequest(a)) \/ Register \/ StreamEnds
  PROVE  ControlInv'
<1>1. TypeOK /\ Order /\ Paused /\ Believed
  BY Parts
<1>2. UNCHANGED <<row, tokens, inbox, myToken, pc, hand, post, receiveErr, status, host>>
  BY DEF Refuse, LoseRequest, Register, StreamEnds, link, client
<1>3. /\ wire' \subseteq wire /\ reply' \in {"none", "ok", "refused"} /\ faults' \in 0..MaxFaults
      /\ stream' \in Tokens /\ joining' \in Tokens /\ sent' \in Revisions
  <2>1. CASE \E a \in wire : Refuse(a)
    BY <1>1, <2>1, BoundsAssumption DEF Refuse, Answer, Fault, TypeOK, link
  <2>2. CASE \E a \in wire : LoseRequest(a)
    BY <1>1, <2>2, BoundsAssumption DEF LoseRequest, Fault, TypeOK, link, client
  <2>3. CASE Register \/ StreamEnds
    BY <1>1, <2>3, BoundsAssumption
       DEF Register, StreamEnds, Fault, TypeOK, client, Revisions, Tokens
  <2> QED
    BY <2>1, <2>2, <2>3
<1>4. TypeOK'
  BY <1>1, <1>2, <1>3 DEF TypeOK, row, tokens, host
<1>5. Order' /\ Paused'
  BY <1>1, <1>2 DEF Order, Paused, row
<1> QED
  BY <1>1, <1>2, <1>3, <1>4, <1>5, RowStep DEF Believed, row, tokens

\* The stream sends the policy of the database.
LEMMA PushKeeps ==
  ASSUME ControlInv, Push
  PROVE  ControlInv'
<1>1. TypeOK /\ Order /\ Paused /\ Minted /\ Copies /\ Gone /\ Saved /\ Believed
  BY Parts
<1>2. /\ UNCHANGED <<row, tokens, stream, joining, wire, myToken, client, host, faults>>
      /\ inbox' = Append(inbox, policy) /\ sent' = policy.rev
      /\ sent < policy.rev /\ Len(inbox) < MaxInbox
  BY DEF Push
<1>3. policy \in Policies /\ policy.rev \in Revisions
  <2>1. policy \in MaybePolicy /\ sent \in Nat
    BY <1>1, RowTypes DEF TypeOK
  <2>2. policy.rev \in Nat /\ policy.rev # 0 /\ policy.rev \in 0..MaxRevision
    BY <1>2, <2>1, PolicyFacts
  <2>3. policy # NoPolicy
    BY <2>1, <2>2, PolicyFacts
  <2> QED
    BY <2>1, <2>2, <2>3 DEF MaybePolicy, Revisions
<1>4. /\ inbox' \in Seq(Policies) /\ Len(inbox') = Len(inbox) + 1
      /\ \A k \in 1..Len(inbox') : (k \in 1..Len(inbox) /\ inbox'[k] = inbox[k]) \/ inbox'[k] = policy
  BY <1>1, <1>2, <1>3 DEF TypeOK
<1>5. Len(inbox') <= MaxInbox
  BY <1>1, <1>2, <1>4, BoundsAssumption DEF TypeOK
<1>6. TypeOK'
  BY <1>1, <1>2, <1>3, <1>4, <1>5 DEF TypeOK, row, tokens, client, host
<1>7. Order' /\ Paused' /\ Minted' /\ Gone' /\ Saved' /\ Believed'
  BY <1>1, <1>2
     DEF Order, Paused, Minted, Gone, Saved, Believed, Backed, row, tokens, client, host
<1>8. FromDatabase(policy)
  BY <1>1, RowTypes, SMTT(20) DEF FromDatabase
<1>9. Copies'
  BY <1>1, <1>2, <1>4, <1>8 DEF Copies, FromDatabase, row, client, host
<1> QED
  BY <1>6, <1>7, <1>9, PartsNext

-----------------------------------------------------------------------------
(* The steps of the node *)

\* While the node is registered its cache only moves forward, and its derper does too or
\* starts with what the cache holds.
Forward ==
  myToken' # 0 =>
    /\ myToken' = myToken /\ held.rev <= held'.rev
    /\ \/ running' = NoPolicy
       \/ running # NoPolicy /\ running.rev <= running'.rev
       \/ held.rev <= running'.rev

\* The acknowledgement is true of the disk and of the derper after the step.
BackedNext(a) ==
  /\ a.state \in {"received", "applied"} => a.rev <= held'.rev
  /\ a.state = "applied" /\ running' # NoPolicy => a.rev <= running'.rev

\* A step that leaves the row and the tokens alone keeps what the controller believes, if
\* the node moves forward and what it posts is true of it.
LEMMA NodeStep ==
  ASSUME ControlInv, TypeOK', UNCHANGED <<row, tokens>>, Copies', Gone', Saved', Forward,
         myToken' \in {myToken, 0}, post'.token <= minted,
         \A a \in wire' \ wire : a.token <= minted /\ BackedNext(a)
  PROVE  ControlInv'
<1>1. TypeOK /\ Order /\ Paused /\ Minted /\ Believed
  BY Parts
<1>2. UNCHANGED <<nodeState, enabled, policy, received, applied, removal, session, minted>>
  BY DEF row, tokens
<1>3. Order' /\ Paused'
  BY <1>1, <1>2 DEF Order, Paused
<1>4. Minted'
  BY <1>1, <1>2, RowTypes DEF Minted
<1>5. Believed'
  <2> SUFFICES ASSUME myToken' # 0
               PROVE  /\ received <= held'.rev
                      /\ running' # NoPolicy => applied <= running'.rev
                      /\ \A a \in wire' : a.token = session /\ a.token # 0 => BackedNext(a)
    BY <1>2 DEF Believed, Backed, BackedNext
  <2>1. /\ received <= held.rev
        /\ running # NoPolicy => applied <= running.rev
        /\ \A a \in wire : a.token = session /\ a.token # 0 => Backed(a)
    BY <1>1 DEF Believed, Forward
  <2>2. /\ received \in Nat /\ applied \in Nat /\ applied <= received
        /\ held.rev \in Nat /\ held'.rev \in Nat /\ running.rev \in Nat /\ running'.rev \in Nat
    BY <1>1, RowTypes, PolicyFacts, Zenon DEF TypeOK, Order
  <2>3. held.rev <= held'.rev
    BY DEF Forward
  <2>4. ASSUME NEW n \in Nat, n <= held.rev, running # NoPolicy => n <= running.rev,
               running' # NoPolicy
        PROVE  n <= running'.rev
    BY <2>2, <2>4 DEF Forward
  <2>5. received <= held'.rev /\ (running' # NoPolicy => applied <= running'.rev)
    BY <2>1, <2>2, <2>3, <2>4
  <2>6. ASSUME NEW a \in wire, Backed(a) PROVE BackedNext(a)
    <3>1. a.rev \in Nat
      BY <1>1, RowTypes
    <3>2. a.state \in {"received", "applied"} => a.rev <= held'.rev
      BY <2>2, <2>3, <2>6, <3>1 DEF Backed
    <3>3. a.state = "applied" /\ running' # NoPolicy => a.rev <= running'.rev
      BY <2>4, <2>6, <3>1 DEF Backed
    <3> QED
      BY <3>2, <3>3 DEF BackedNext
  <2> QED
    BY <2>1, <2>5, <2>6
<1> QED
  BY <1>3, <1>4, <1>5, PartsNext

\* What Disconnected leaves behind is empty.
LEMMA DisconnectedFacts ==
  ASSUME TypeOK, Disconnected
  PROVE  /\ inbox' \in Seq(Policies) /\ Len(inbox') = 0
         /\ post' = NoRequest /\ NoRequest \in Requests /\ NoRequest.token = 0
         /\ hand' = NoPolicy /\ pc' = "off"
BY BoundsAssumption DEF Disconnected, NoRequest, Requests, Revisions, Tokens

\* Having no policy is older than every policy.
LEMMA NoneFromDatabase ==
  ASSUME TypeOK
  PROVE  FromDatabase(NoPolicy)
BY PolicyFacts, SMTT(20) DEF FromDatabase, TypeOK

\* The request a node posts.
LEMMA PostFacts ==
  ASSUME TypeOK, NEW state \in {"received", "applied", "nack"}, NEW place \in Places,
         Post(state, place)
  PROVE  /\ post' \in Requests
         /\ post'.state = state /\ post'.rev = hand.rev /\ post'.token = myToken
         /\ wire' = wire \cup {post'} /\ reply' = "none" /\ pc' = place
BY PolicyFacts DEF Post, TypeOK, Requests, Revisions

\* The connection ends, and everything the loop had in hand is dropped.
LEMMA DisconnectKeeps ==
  ASSUME ControlInv, Disconnected, faults' \in 0..MaxFaults, wire' \subseteq wire,
         UNCHANGED <<row, tokens, stream, joining, sent, myToken, status, host>>
  PROVE  ControlInv'
<1>1. TypeOK /\ Minted /\ Copies /\ Gone /\ Saved
  BY Parts
<1>2. TypeOK'
  <2>1. pc' \in Places /\ hand' \in MaybePolicy /\ post' \in Requests /\ inbox' \in Seq(Policies)
    BY <1>1, DisconnectedFacts, PolicyFacts DEF Places
  <2>2. Len(inbox') <= MaxInbox
    BY <1>1, DisconnectedFacts, BoundsAssumption
  <2>3. reply' = "none" /\ receiveErr' = FALSE
    BY DEF Disconnected
  <2> QED
    BY <1>1, <2>1, <2>2, <2>3, Zenon DEF TypeOK, row, tokens, host
<1>3. Gone' /\ Saved'
  BY <1>1, DisconnectedFacts DEF Gone, Saved, host
<1>4. Forward
  BY <1>1, RowTypes DEF Forward, host
<1>5. post'.token <= minted
  BY <1>1, DisconnectedFacts, RowTypes, SMTT(20)
<1>6. Copies'
  BY <1>1, DisconnectedFacts, NoneFromDatabase DEF Copies, FromDatabase, host, row
<1>7. myToken' \in {myToken, 0} /\ \A a \in wire' : a \in wire
  OBVIOUS
<1>8. UNCHANGED <<row, tokens>>
  OBVIOUS
<1>9. \A a \in wire' \ wire : a.token <= minted /\ BackedNext(a)
  OBVIOUS
<1> QED
  BY <1>2, <1>3, <1>4, <1>5, <1>6, <1>7, <1>8, <1>9, NodeStep

\* The connection is opened, or a policy is taken from it.
LEMMA ReadKeeps ==
  ASSUME ControlInv, Connect \/ Receive
  PROVE  ControlInv'
<1>1. TypeOK /\ Minted /\ Copies /\ Gone /\ Saved
  BY Parts
<1>2. /\ UNCHANGED <<row, tokens, wire, myToken, post, reply, receiveErr, status, host, faults>>
      /\ pc' \in {"scan", "save"} /\ pc # "left" /\ myToken # 0
  BY <1>1 DEF Connect, Receive, Gone
<1>3. /\ stream' \in Tokens /\ joining' \in Tokens /\ sent' \in Revisions
      /\ inbox' \in Seq(Policies) /\ Len(inbox') <= MaxInbox /\ hand' \in MaybePolicy
      /\ FromDatabase(hand') /\ \A k \in 1..Len(inbox') : FromDatabase(inbox'[k])
  <2>1. CASE Connect
    <3>1. Len(inbox') = 0 /\ inbox' \in Seq(Policies)
      BY <2>1 DEF Connect
    <3>2. stream' \in Tokens /\ joining' \in Tokens /\ sent' \in Revisions /\ hand' = hand
      BY <1>1, <2>1, BoundsAssumption DEF Connect, TypeOK, Revisions
    <3> QED
      BY <1>1, <3>1, <3>2, BoundsAssumption DEF Copies, TypeOK
  <2>2. CASE Receive
    <3>1. /\ inbox \in Seq(Policies) /\ inbox # <<>> /\ Len(inbox) <= MaxInbox
          /\ hand' = Head(inbox) /\ inbox' = Tail(inbox) /\ UNCHANGED <<stream, joining, sent>>
      BY <1>1, <2>2 DEF Receive, TypeOK
    <3>2. /\ inbox' \in Seq(Policies) /\ Len(inbox') = Len(inbox) - 1 /\ 1 \in 1..Len(inbox)
          /\ \A k \in 1..Len(inbox') : k + 1 \in 1..Len(inbox) /\ inbox'[k] = inbox[k + 1]
      BY <3>1
    <3>3. hand' = inbox[1] /\ hand' \in Policies
      BY <3>1, <3>2
    <3>4. Len(inbox') <= MaxInbox
      BY <3>1, <3>2, BoundsAssumption
    <3> QED
      BY <1>1, <3>1, <3>2, <3>3, <3>4, PolicyFacts DEF Copies, TypeOK
  <2> QED
    BY <2>1, <2>2
<1>4. TypeOK'
  BY <1>1, <1>2, <1>3 DEF TypeOK, row, tokens, host, Places
<1>5. Copies'
  BY <1>1, <1>2, <1>3 DEF Copies, FromDatabase, row, host
<1>6. Gone' /\ Saved'
  BY <1>1, <1>2 DEF Gone, Saved, host
<1>7. Forward
  BY <1>1, <1>2, RowTypes DEF Forward, host
<1>8. /\ UNCHANGED <<row, tokens>> /\ myToken' \in {myToken, 0} /\ post'.token <= minted
      /\ \A a \in wire' \ wire : a.token <= minted /\ BackedNext(a)
  BY <1>1, <1>2 DEF Minted
<1> QED
  BY <1>4, <1>5, <1>6, <1>7, <1>8, NodeStep

\* The policy is on the disk before its receipt is on the wire.
LEMMA SaveKeeps ==
  ASSUME ControlInv, SaveCache \/ SaveCacheFails
  PROVE  ControlInv'
<1>1. TypeOK /\ Minted /\ Copies /\ Gone /\ Saved
  BY Parts
<1>2. PICK st \in {"received", "nack"}, place \in {"received", "ack"} :
        /\ Post(st, place)
        /\ st = "received" => held' = hand
        /\ place = "received" => held' = hand
  BY DEF SaveCache, SaveCacheFails
<1>3. /\ UNCHANGED <<row, tokens, link, myToken, hand, receiveErr, status, notice, running>>
      /\ pc = "save"
      /\ held' = held \/ (held' = hand /\ hand.rev >= held.rev)
      /\ loadable' \in BOOLEAN
  <2>1. CASE SaveCache
    BY <2>1 DEF SaveCache
  <2>2. CASE SaveCacheFails
    <3>1. \/ held' = held /\ loadable' = loadable
          \/ held' = hand /\ loadable' = FALSE /\ hand.rev >= held.rev
      BY <2>2 DEF SaveCacheFails
    <3>2. UNCHANGED <<row, tokens, link, myToken, hand, receiveErr, status, notice, running>> /\ pc = "save"
      BY <2>2 DEF SaveCacheFails
    <3>3. loadable \in BOOLEAN
      BY <1>1 DEF TypeOK
    <3>4. loadable' \in BOOLEAN
      BY <3>1, <3>3, Zenon
    <3> QED
      BY <3>1, <3>2, <3>4
  <2> QED
    BY <2>1, <2>2
<1>4. faults' \in 0..MaxFaults
  BY <1>1, BoundsAssumption DEF SaveCache, SaveCacheFails, Fault, TypeOK
<1>5. place \in Places /\ myToken # 0
  BY <1>1, <1>3 DEF Places, Gone
<1>6. /\ post' \in Requests
      /\ post'.state = st /\ post'.rev = hand.rev /\ post'.token = myToken
      /\ wire' = wire \cup {post'} /\ reply' = "none" /\ pc' = place
  BY <1>1, <1>2, <1>5, PostFacts
<1>7. held' \in MaybePolicy /\ held.rev <= held'.rev
  BY <1>1, <1>3, RowTypes DEF TypeOK
<1>8. TypeOK'
  BY <1>1, <1>3, <1>4, <1>5, <1>6, <1>7, SMTT(20) DEF TypeOK, row, tokens, link
<1>9. Copies'
  BY <1>1, <1>3, Zenon DEF Copies, FromDatabase, row, link
<1>10. Gone'
  BY <1>1, <1>3, <1>5, <1>6 DEF Gone
<1>11. Saved'
  <2>1. running.rev <= held'.rev
    BY <1>1, <1>7, RowTypes, PolicyFacts DEF Saved
  <2> QED
    BY <1>2, <1>3, <1>6, <2>1 DEF Saved
<1>12. Forward
  BY <1>1, <1>3, <1>7, RowTypes DEF Forward
<1>13. /\ UNCHANGED <<row, tokens>> /\ myToken' \in {myToken, 0} /\ post'.token <= minted
       /\ \A a \in wire' \ wire : a.token <= minted /\ BackedNext(a)
  <2>1. BackedNext(post')
    BY <1>1, <1>2, <1>6, RowTypes DEF BackedNext
  <2> QED
    BY <1>1, <1>3, <1>6, <2>1 DEF Minted
<1> QED
  BY <1>8, <1>9, <1>10, <1>11, <1>12, <1>13, NodeStep

\* The answer to the receipt, whatever it is, lets the loop go on with the same policy.
LEMMA ReceiptKeeps ==
  ASSUME ControlInv, ReceiptReturns
  PROVE  ControlInv'
<1>1. TypeOK /\ Minted /\ Copies /\ Gone /\ Saved
  BY Parts
<1>2. /\ UNCHANGED <<row, tokens, link, wire, myToken, hand, status, host>>
      /\ pc = "received" /\ pc' = "apply" /\ post' = NoRequest /\ reply' = "none"
      /\ receiveErr' \in BOOLEAN
  BY DEF ReceiptReturns
<1>3. faults' \in 0..MaxFaults
  BY <1>1, BoundsAssumption DEF ReceiptReturns, PostReturns, Fault, TypeOK
<1>4. NoRequest \in Requests /\ NoRequest.token = 0
  BY BoundsAssumption DEF NoRequest, Requests, Revisions, Tokens
<1>5. TypeOK'
  BY <1>1, <1>2, <1>3, <1>4, SMTT(20) DEF TypeOK, row, tokens, link, host, Places
<1>6. Copies'
  BY <1>1, <1>2, Zenon DEF Copies, FromDatabase, row, link, host
<1>7. Gone' /\ Saved'
  BY <1>1, <1>2 DEF Gone, Saved, host
<1>8. Forward
  BY <1>1, <1>2, RowTypes DEF Forward, host
<1>9. /\ UNCHANGED <<row, tokens>> /\ myToken' \in {myToken, 0} /\ post'.token <= minted
      /\ \A a \in wire' \ wire : a.token <= minted /\ BackedNext(a)
  BY <1>1, <1>2, <1>4, RowTypes, SMTT(20)
<1> QED
  BY <1>5, <1>6, <1>7, <1>8, <1>9, NodeStep

\* What becomes of the loop when the outcome is posted or the connection is given up.
LEMMA OutcomeFacts ==
  ASSUME TypeOK, Minted, myToken # 0, NEW st \in {"applied", "nack"}, PostOutcome(st)
  PROVE  /\ wire' \subseteq Requests /\ hand' \in {hand, NoPolicy} /\ post' \in Requests
         /\ reply' = "none" /\ receiveErr' \in BOOLEAN
         /\ inbox' \in Seq(Policies) /\ Len(inbox') <= MaxInbox
         /\ inbox' = inbox \/ Len(inbox') = 0
         /\ pc' \in {"off", "ack"} /\ post'.token <= minted
         /\ \A a \in wire' \ wire : a.state = st /\ a.rev = hand.rev /\ a.token = myToken
<1>1. CASE receiveErr
  <2>1. Disconnected /\ UNCHANGED wire
    BY <1>1 DEF PostOutcome
  <2>2. reply' = "none" /\ receiveErr' = FALSE
    BY <2>1 DEF Disconnected
  <2>3. 0 <= MaxInbox /\ 0 <= minted
    BY RowTypes, BoundsAssumption
  <2> QED
    BY <2>1, <2>2, <2>3, DisconnectedFacts, Zenon DEF TypeOK
<1>2. CASE ~receiveErr
  <2>1. Post(st, "ack") /\ UNCHANGED <<hand, receiveErr, inbox>>
    BY <1>2 DEF PostOutcome
  <2>2. "ack" \in Places
    BY DEF Places
  <2>3. /\ post' \in Requests
        /\ post'.state = st /\ post'.rev = hand.rev /\ post'.token = myToken
        /\ wire' = wire \cup {post'} /\ reply' = "none" /\ pc' = "ack"
    BY <2>1, <2>2, PostFacts
  <2> QED
    BY <2>1, <2>3 DEF TypeOK, Minted
<1> QED
  BY <1>1, <1>2 DEF TypeOK

\* The derper has the policy of the cache before the acknowledgement is on the wire; a
\* notice that stays in its socket names that policy too.
LEMMA ApplyKeeps ==
  ASSUME ControlInv, ApplyPolicy \/ ApplyFails
  PROVE  ControlInv'
<1>1. TypeOK /\ Minted /\ Copies /\ Gone /\ Saved
  BY Parts
<1>2. PICK st \in {"applied", "nack"} :
        PostOutcome(st) /\ (st = "applied" => running' = hand)
  BY DEF ApplyPolicy, ApplyFails
<1>3. /\ UNCHANGED <<row, tokens, stream, joining, sent, myToken, held, loadable>>
      /\ pc = "apply" /\ held = hand
      /\ running' = running \/ (running' = hand /\ running.rev <= hand.rev)
      /\ notice' \in {hand, notice}
      /\ status' \in {status, hand.rev}
  BY <1>1 DEF ApplyPolicy, ApplyFails, Saved
<1>4. faults' \in 0..MaxFaults
  BY <1>1, BoundsAssumption DEF ApplyPolicy, ApplyFails, Fault, TypeOK
<1>5. myToken # 0
  BY <1>1, <1>3 DEF Gone
<1>6. /\ wire' \subseteq Requests /\ hand' \in {hand, NoPolicy} /\ post' \in Requests
      /\ reply' = "none" /\ receiveErr' \in BOOLEAN
      /\ inbox' \in Seq(Policies) /\ Len(inbox') <= MaxInbox
      /\ inbox' = inbox \/ Len(inbox') = 0
      /\ pc' \in {"off", "ack"} /\ post'.token <= minted
      /\ \A a \in wire' \ wire : a.state = st /\ a.rev = hand.rev /\ a.token = myToken
  BY <1>1, <1>2, <1>5, OutcomeFacts, SMTT(20)
<1>7. TypeOK'
  <2>1. hand.rev \in Revisions /\ NoPolicy \in MaybePolicy
    BY <1>1, PolicyFacts DEF TypeOK, Revisions
  <2>2. /\ hand' \in MaybePolicy /\ running' \in MaybePolicy /\ notice' \in MaybePolicy
        /\ status' \in Revisions /\ pc' \in Places
    BY <1>1, <1>3, <1>6, <2>1, SMTT(20) DEF TypeOK, Places
  <2> QED
    BY <1>1, <1>3, <1>4, <1>6, <2>2 DEF TypeOK, row, tokens
<1>8. Copies'
  <2>1. FromDatabase(NoPolicy)
    BY <1>1, NoneFromDatabase
  <2>2. policy' = policy
    BY <1>3 DEF row
  <2>3. \A k \in 1..Len(inbox') : k \in 1..Len(inbox) /\ inbox'[k] = inbox[k]
    BY <1>6
  <2> QED
    BY <1>1, <1>3, <1>6, <2>1, <2>2, <2>3 DEF Copies, FromDatabase
<1>9. Gone' /\ Saved'
  BY <1>1, <1>3, <1>5, <1>6, RowTypes DEF Gone, Saved
<1>10. Forward
  BY <1>1, <1>3, RowTypes DEF Forward
<1>11. \A a \in wire' \ wire : a.token <= minted /\ BackedNext(a)
  BY <1>1, <1>2, <1>3, <1>6, RowTypes, SMTT(20) DEF BackedNext, Minted
<1> QED
  BY <1>3, <1>6, <1>7, <1>8, <1>9, <1>10, <1>11, NodeStep

\* A confirmed outcome lets the loop wait for the next message; any other ends it.
LEMMA OutcomeKeeps ==
  ASSUME ControlInv, OutcomeReturns
  PROVE  ControlInv'
<1>1. TypeOK /\ Minted /\ Copies /\ Gone /\ Saved
  BY Parts
<1>2. /\ UNCHANGED <<row, tokens, stream, joining, sent, wire, myToken, status, host>>
      /\ pc = "ack"
  BY DEF OutcomeReturns
<1>3. faults' \in 0..MaxFaults
  BY <1>1, BoundsAssumption DEF OutcomeReturns, PostReturns, Fault, TypeOK
<1>4. CASE reply = "ok"
  <2>1. /\ pc' = "scan" /\ hand' = NoPolicy /\ post' = NoRequest /\ reply' = "none"
        /\ UNCHANGED <<inbox, receiveErr>>
    BY <1>4 DEF OutcomeReturns
  <2>2. NoRequest \in Requests /\ NoRequest.token = 0 /\ NoPolicy \in MaybePolicy
    BY PolicyFacts, BoundsAssumption DEF NoRequest, Requests, Revisions, Tokens
  <2>3. TypeOK'
    BY <1>1, <1>2, <1>3, <2>1, <2>2, SMTT(20) DEF TypeOK, row, tokens, host, Places
  <2>4. Copies'
    BY <1>1, <1>2, <2>1, NoneFromDatabase, Zenon DEF Copies, FromDatabase, row, host
  <2>5. Gone' /\ Saved'
    BY <1>1, <1>2, <2>1 DEF Gone, Saved, host
  <2>6. Forward
    BY <1>1, <1>2, RowTypes DEF Forward, host
  <2>7. /\ UNCHANGED <<row, tokens>> /\ myToken' \in {myToken, 0} /\ post'.token <= minted
        /\ \A a \in wire' \ wire : a.token <= minted /\ BackedNext(a)
    BY <1>1, <1>2, <2>1, <2>2, RowTypes
  <2> QED
    BY <2>3, <2>4, <2>5, <2>6, <2>7, NodeStep
<1>5. CASE reply # "ok"
  <2>1. Disconnected
    BY <1>5 DEF OutcomeReturns
  <2> QED
    BY <1>2, <1>3, <2>1, DisconnectKeeps
<1> QED
  BY <1>4, <1>5

\* A connection that is read to its end, or breaks.
LEMMA CloseKeeps ==
  ASSUME ControlInv, StreamClosed \/ ConnectionLost
  PROVE  ControlInv'
<1>1. TypeOK
  BY Parts
<1>2. /\ Disconnected
      /\ UNCHANGED <<row, tokens, stream, joining, sent, wire, myToken, status, host>>
  BY DEF StreamClosed, ConnectionLost
<1>3. faults' \in 0..MaxFaults
  BY <1>1, BoundsAssumption DEF StreamClosed, ConnectionLost, Fault, TypeOK
<1> QED
  BY <1>2, <1>3, DisconnectKeeps

\* The steps of the derper by itself, and of a daemon that loads its cache: the derper takes
\* what the cache holds, stays as it is, or stops.
LEMMA DerperKeeps ==
  ASSUME ControlInv, LoadOnStart \/ DerperStart \/ LateNotice \/ DerperExit
  PROVE  ControlInv'
<1>1. TypeOK /\ Minted /\ Copies /\ Gone /\ Saved
  BY Parts
<1>2. /\ UNCHANGED <<row, tokens, link, wire, myToken, pc, hand, post, reply, receiveErr, held,
                     loadable>>
      /\ notice' \in {notice, NoPolicy} /\ status' \in {status, held.rev}
      /\ running' \in {running, held, NoPolicy}
  BY DEF LoadOnStart, DerperStart, LateNotice, DerperExit, client
<1>3. myToken = 0 => running' = NoPolicy
  BY <1>1 DEF LoadOnStart, DerperStart, LateNotice, DerperExit, Gone
<1>4. faults' \in 0..MaxFaults
  BY <1>1, BoundsAssumption DEF LoadOnStart, DerperStart, LateNotice, DerperExit, Fault, TypeOK
<1>5. /\ notice' \in MaybePolicy /\ running' \in MaybePolicy /\ status' \in Revisions
      /\ status' <= policy.rev /\ running'.rev <= held.rev
  <2>1. NoPolicy \in MaybePolicy /\ NoPolicy.rev = 0 /\ held.rev \in Revisions
    BY <1>1, PolicyFacts DEF TypeOK, Revisions
  <2>2. held.rev \in Nat /\ held.rev <= policy.rev /\ status <= policy.rev /\ running.rev <= held.rev
    BY <1>1, RowTypes DEF Copies, FromDatabase, Saved
  <2> QED
    BY <1>1, <1>2, <2>1, <2>2 DEF TypeOK
<1>6. TypeOK'
  BY <1>1, <1>2, <1>4, <1>5 DEF TypeOK, row, tokens, link
<1>7. Copies'
  <2>1. FromDatabase(NoPolicy)
    BY <1>1, NoneFromDatabase
  <2>2. UNCHANGED <<policy, inbox>>
    BY <1>2 DEF row, link
  <2> QED
    BY <1>1, <1>2, <1>5, <2>1, <2>2 DEF Copies, FromDatabase
<1>8. Gone' /\ Saved'
  BY <1>1, <1>2, <1>3, <1>5 DEF Gone, Saved
<1>9. Forward
  BY <1>1, <1>2, RowTypes DEF Forward
<1>10. /\ UNCHANGED <<row, tokens>> /\ myToken' \in {myToken, 0} /\ post'.token <= minted
       /\ \A a \in wire' \ wire : a.token <= minted /\ BackedNext(a)
  BY <1>1, <1>2 DEF Minted
<1> QED
  BY <1>6, <1>7, <1>8, <1>9, <1>10, NodeStep

\* A daemon that starts again has its cache and its registration, and nothing else.
LEMMA RestartKeeps ==
  ASSUME ControlInv, Restart
  PROVE  ControlInv'
<1>1. TypeOK /\ Minted /\ Copies /\ Gone /\ Saved
  BY Parts
<1>2. /\ UNCHANGED <<row, tokens, stream, joining, sent, wire, myToken, held>>
      /\ Disconnected /\ status' = 0 /\ notice' = NoPolicy /\ running' = NoPolicy
      /\ loadable' \in BOOLEAN
  BY <1>1 DEF Restart, TypeOK
<1>3. faults' \in 0..MaxFaults
  BY <1>1, BoundsAssumption DEF Restart, Fault, TypeOK
<1>4. TypeOK'
  <2>1. pc' \in Places /\ hand' \in MaybePolicy /\ post' \in Requests /\ inbox' \in Seq(Policies)
    BY <1>1, <1>2, DisconnectedFacts, PolicyFacts DEF Places
  <2>2. Len(inbox') <= MaxInbox /\ status' \in Revisions
    BY <1>1, <1>2, DisconnectedFacts, BoundsAssumption DEF Revisions
  <2>3. reply' = "none" /\ receiveErr' = FALSE
    BY <1>2 DEF Disconnected
  <2>4. NoPolicy \in MaybePolicy
    BY PolicyFacts
  <2> QED
    BY <1>1, <1>2, <1>3, <2>1, <2>2, <2>3, <2>4, Zenon DEF TypeOK, row, tokens
<1>5. Copies'
  <2>1. policy' = policy
    BY <1>2, SMTT(20) DEF row
  <2>2. 0 <= policy.rev /\ FromDatabase(NoPolicy) /\ FromDatabase(held)
    BY <1>1, NoneFromDatabase, RowTypes DEF Copies
  <2>3. hand' = NoPolicy /\ \A k \in 1..Len(inbox') : FALSE
    BY <1>1, <1>2, DisconnectedFacts
  <2> QED
    BY <1>2, <2>1, <2>2, <2>3 DEF Copies, FromDatabase
<1>6. Gone' /\ Saved'
  BY <1>1, <1>2, DisconnectedFacts, PolicyFacts, RowTypes DEF Gone, Saved
<1>7. Forward
  BY <1>1, <1>2, RowTypes DEF Forward
<1>8. /\ UNCHANGED <<row, tokens>> /\ myToken' \in {myToken, 0} /\ post'.token <= minted
      /\ \A a \in wire' \ wire : a.token <= minted /\ BackedNext(a)
  BY <1>1, <1>2, DisconnectedFacts, RowTypes
<1> QED
  BY <1>4, <1>5, <1>6, <1>7, <1>8, NodeStep

\* Leave stops the derper before it gives up the registration.
LEMMA LeaveKeeps ==
  ASSUME ControlInv, Leave
  PROVE  ControlInv'
<1>1. TypeOK /\ Minted /\ Copies /\ Gone /\ Saved
  BY Parts
<1>2. /\ UNCHANGED <<row, tokens, stream, joining, sent, wire, held, loadable, faults>>
      /\ pc' = "left" /\ post' = [state |-> "leave", rev |-> 0, token |-> myToken] /\ myToken' = 0
      /\ hand' = NoPolicy /\ reply' = "none" /\ receiveErr' = FALSE /\ inbox' = <<>>
      /\ status' = 0 /\ running' = NoPolicy /\ notice' = NoPolicy
  BY DEF Leave
<1>3. /\ post' \in Requests /\ post'.state = "leave" /\ post'.token = myToken
      /\ inbox' \in Seq(Policies) /\ Len(inbox') = 0
      /\ 0 \in Revisions /\ 0 \in Tokens /\ 0 <= MaxInbox
  <2>1. 0 \in Revisions /\ 0 \in Tokens /\ 0 <= MaxInbox
    BY BoundsAssumption DEF Revisions, Tokens
  <2>2. myToken \in Tokens
    BY <1>1 DEF TypeOK
  <2>3. post' \in Requests /\ post'.state = "leave" /\ post'.token = myToken
    BY <1>2, <2>1, <2>2 DEF Requests
  <2>4. inbox' \in Seq(Policies) /\ Len(inbox') = 0
    BY <1>2, SMTT(20)
  <2> QED
    BY <2>1, <2>3, <2>4
<1>4. TypeOK'
  BY <1>1, <1>2, <1>3, PolicyFacts, Zenon DEF TypeOK, row, tokens, Places
<1>5. Copies'
  <2>1. policy' = policy
    BY <1>2 DEF row
  <2>2. 0 <= policy.rev /\ FromDatabase(NoPolicy) /\ FromDatabase(held)
    BY <1>1, NoneFromDatabase, RowTypes DEF Copies
  <2>3. \A k \in 1..Len(inbox') : FALSE
    BY <1>3, SMTT(20)
  <2> QED
    BY <1>2, <2>1, <2>2, <2>3 DEF Copies, FromDatabase
<1>6. Gone' /\ Saved'
  BY <1>1, <1>2, <1>3, PolicyFacts, RowTypes DEF Gone, Saved
<1>7. Forward
  BY <1>2 DEF Forward
<1>8. /\ UNCHANGED <<row, tokens>> /\ myToken' \in {myToken, 0} /\ post'.token <= minted
      /\ \A a \in wire' \ wire : a.token <= minted /\ BackedNext(a)
  BY <1>1, <1>2, <1>3 DEF Minted
<1> QED
  BY <1>4, <1>5, <1>6, <1>7, <1>8, NodeStep

\* The cache goes with the registration, or stays behind.
LEMMA LeftKeeps ==
  ASSUME ControlInv, LeaveRemovesCache \/ LeaveFails
  PROVE  ControlInv'
<1>1. TypeOK /\ Minted /\ Copies /\ Gone /\ Saved
  BY Parts
<1>2. /\ UNCHANGED <<row, tokens, link, myToken, hand, reply, receiveErr, status, notice,
                     running>>
      /\ pc = "left" /\ pc' = "off" /\ post' = NoRequest /\ held' \in {held, NoPolicy}
      /\ wire' \subseteq wire \cup {post}
  BY Zenon DEF LeaveRemovesCache, LeaveFails
<1>3. loadable' \in BOOLEAN /\ faults' \in 0..MaxFaults
  <2>1. loadable \in BOOLEAN
    BY <1>1 DEF TypeOK
  <2>2. loadable' \in {FALSE, loadable /\ held' # NoPolicy}
    BY Zenon DEF LeaveRemovesCache, LeaveFails
  <2>3. loadable' \in BOOLEAN
    BY <2>1, <2>2, Zenon
  <2>4. faults' \in 0..MaxFaults
    <3>1. UNCHANGED faults \/ Fault
      BY ZenonT(40) DEF LeaveRemovesCache, LeaveFails
    <3> QED
      BY <1>1, <3>1, BoundsAssumption DEF Fault, TypeOK
  <2> QED
    BY <2>3, <2>4
<1>4. /\ myToken = 0 /\ post.state = "leave" /\ running = NoPolicy /\ notice = NoPolicy
      /\ NoRequest \in Requests /\ NoRequest.token = 0
  BY <1>1, <1>2, BoundsAssumption DEF Gone, NoRequest, Requests, Revisions, Tokens
<1>5. held' \in MaybePolicy /\ held'.rev \in Nat /\ wire' \subseteq Requests
  BY <1>1, <1>2, PolicyFacts DEF TypeOK
<1>6. TypeOK'
  BY <1>1, <1>2, <1>3, <1>4, <1>5, SMTT(20) DEF TypeOK, row, tokens, link, Places
<1>7. Copies'
  BY <1>1, <1>2, NoneFromDatabase, ZenonT(40) DEF Copies, FromDatabase, row, link
<1>8. Gone' /\ Saved'
  BY <1>1, <1>2, <1>4, <1>5, PolicyFacts DEF Gone, Saved
<1>9. Forward
  BY <1>2, <1>4 DEF Forward
<1>10. /\ UNCHANGED <<row, tokens>> /\ myToken' \in {myToken, 0} /\ post'.token <= minted
       /\ \A a \in wire' \ wire : a.token <= minted /\ BackedNext(a)
  BY <1>1, <1>2, <1>4, RowTypes DEF Minted, BackedNext
<1> QED
  BY <1>6, <1>7, <1>8, <1>9, <1>10, NodeStep

\* A new session has a token that no request carries, and a node that enrols again is one
\* of which nothing is believed.
LEMMA SessionKeeps ==
  ASSUME ControlInv, RenewSession \/ Enroll
  PROVE  ControlInv'
<1>1. TypeOK /\ Order /\ Paused /\ Minted /\ Copies /\ Gone /\ Saved /\ Believed
  BY Parts
<1>2. /\ UNCHANGED <<enabled, policy, received, applied, failed, removal, link, wire, client, host>>
      /\ nodeState' = "registered" /\ minted' = minted + 1 /\ session' = minted + 1
      /\ myToken' \in {myToken, minted + 1}
      /\ myToken # 0 \/ nodeState = "pending"
      /\ pc = "off" /\ minted < MaxSessions /\ removal = "none"
  BY SMTT(20) DEF RenewSession, Enroll, DatabaseFree
<1>3. faults' \in 0..MaxFaults
  BY <1>1, BoundsAssumption DEF RenewSession, Enroll, Fault, TypeOK
<1>4. minted \in Nat /\ minted + 1 \in Tokens
  BY <1>1, <1>2, RowTypes, BoundsAssumption, SMTT(20) DEF Tokens
<1>5. TypeOK'
  BY <1>1, <1>2, <1>3, <1>4 DEF TypeOK, link, client, host
<1>6. Order' /\ Paused'
  BY <1>1, <1>2 DEF Order, Paused
<1>7. Minted'
  BY <1>1, <1>2, <1>4, RowTypes, SMTT(20) DEF Minted, client
<1>8. Copies' /\ Saved'
  BY <1>1, <1>2, Zenon DEF Copies, Saved, FromDatabase, link, client, host
<1>9. Gone'
  BY <1>1, <1>2, <1>4 DEF Gone, client, host
<1>10. Believed'
  <2>1. received <= held.rev /\ (running # NoPolicy => applied <= running.rev)
    <3>1. CASE myToken # 0
      BY <1>1, <3>1 DEF Believed
    <3>2. CASE myToken = 0
      BY <1>1, <1>2, <3>2, RowTypes DEF Paused, Order, Gone
    <3> QED
      BY <3>1, <3>2
  <2>2. \A a \in wire' : a.token # session'
    BY <1>1, <1>2, <1>4, RowTypes DEF Minted
  <2> QED
    BY <1>2, <2>1, <2>2 DEF Believed, host
<1> QED
  BY <1>5, <1>6, <1>7, <1>8, <1>9, <1>10, PartsNext

-----------------------------------------------------------------------------
(* The theorems *)

\* Every step keeps the invariant.
LEMMA NextInv == ControlInv /\ [Next]_vars => ControlInv'
<1> SUFFICES ASSUME ControlInv, [Next]_vars PROVE ControlInv'
  OBVIOUS
<1>1. CASE Admin
  <2>1. CASE IssueEnrollment
    <3>1. /\ DatabaseFree /\ CanRevise /\ Released /\ wire' \subseteq wire
          /\ UNCHANGED <<enabled, failed, removal, minted, joining, inbox, myToken, client, host,
                         faults>>
      BY <2>1 DEF IssueEnrollment
    <3> QED
      BY <3>1, ReleasedKeeps
  <2> QED
    BY <1>1, <2>1, ReviseKeeps, RemoveKeeps DEF Admin
<1>2. CASE Controller
  <2>1. ASSUME NEW a \in wire, ReleaseNode(a) PROVE ControlInv'
    <3>1. /\ DatabaseFree /\ CanRevise /\ Released /\ wire' \subseteq wire
          /\ UNCHANGED <<enabled, failed, removal, minted, joining, inbox, myToken, client, host,
                         faults>>
      BY <2>1 DEF ReleaseNode
    <3> QED
      BY <3>1, ReleasedKeeps
  <2> QED
    BY <1>2, <2>1, AcknowledgeKeeps, RefuseKeeps, PushKeeps DEF Controller
<1>3. CASE Node
  BY <1>3, SessionKeeps, ReadKeeps, SaveKeeps, ReceiptKeeps, ApplyKeeps, OutcomeKeeps,
     CloseKeeps, DerperKeeps, LeftKeeps DEF Node, ControlLoop
<1>4. CASE Environment
  BY <1>4, RefuseKeeps, CloseKeeps, RestartKeeps, LeaveKeeps, DerperKeeps DEF Environment
<1>5. CASE UNCHANGED vars
  <2>1. TypeOK /\ Order /\ Paused /\ Minted /\ Copies /\ Gone /\ Saved /\ Believed
    BY Parts, SMTT(20)
  <2>2. TypeOK'
    BY <1>5, <2>1, SMTT(20) DEF vars, TypeOK
  <2>3. Order' /\ Paused' /\ Minted' /\ Gone' /\ Saved'
    BY <1>5, <2>1, SMTT(20) DEF vars, Order, Paused, Minted, Gone, Saved
  <2>4. Copies' /\ Believed'
    BY <1>5, <2>1, ZenonT(40) DEF vars, Copies, FromDatabase, Believed, Backed
  <2> QED
    BY <2>2, <2>3, <2>4, PartsNext
<1> QED
  BY <1>1, <1>2, <1>3, <1>4, <1>5 DEF Next

\* ControlInv holds in every state: what the controller believes, what is on the wire, on the
\* disk and in the derper fit together (AcknowledgePolicy, SaveCache, ApplyPolicy, Leave).
THEOREM ControlInvariant == SafetySpec => []ControlInv
BY InitInv, NextInv, PTL DEF SafetySpec

\* The controller never believes more than the node can keep (AcknowledgePolicy), for every
\* number of revisions, sessions, policies in the connection and faults.
THEOREM AcknowledgedSound == SafetySpec => []AckSound
<1>1. ControlInv => AckSound
  BY Parts DEF AckSound, Enrolled, Order, Copies, Believed
<1> QED
  BY <1>1, ControlInvariant, PTL

\* What the derper enforces only moves forward until it stops, and is never ahead of the
\* cache (ApplyPolicy, the derper's start and its late notices).
THEOREM DerperForward == SafetySpec => DerperGoesForward
<1> DEFINE Step == running' = NoPolicy \/ (running'.rev >= running.rev /\ running'.rev <= held'.rev)
<1>1. ASSUME ControlInv, ControlInv', [Next]_vars PROVE Step \/ UNCHANGED vars
  <2>1. /\ TypeOK /\ Gone /\ Saved /\ running'.rev <= held'.rev
    BY <1>1, Parts, PartsNext DEF Saved
  <2>2. running.rev \in Nat /\ held.rev \in Nat
    BY <2>1, RowTypes
  <2>3. CASE UNCHANGED running
    BY <2>1, <2>2, <2>3
  <2>4. CASE Admin \/ Controller
    BY <2>3, <2>4, Zenon
       DEF Admin, Controller, ChangePolicy, SetNodeEnabled, LookForStream, DeleteNode,
           ChangeNodeDomain, RemovalFails, IssueEnrollment, AcknowledgePolicy, ReleaseNode, Refuse,
           Register, Push, StreamEnds, host
  <2>5. CASE Node
    <3>1. \/ UNCHANGED running
          \/ running' \in {hand, held} /\ running.rev <= running'.rev
          \/ DerperStart
      BY <1>1, <2>5, Zenon
         DEF Node, ControlLoop, RenewSession, Enroll, Connect, Receive, SaveCache, SaveCacheFails,
             ReceiptReturns, ApplyPolicy, ApplyFails, OutcomeReturns, StreamClosed, LoadOnStart,
             LeaveRemovesCache, LeaveFails, LateNotice, host
    <3>2. CASE DerperStart
      BY <2>1, <2>2, <3>2, PolicyFacts, SMTT(20) DEF DerperStart
    <3> QED
      BY <2>1, <2>2, <2>3, <3>1, <3>2
  <2>6. CASE Environment
    BY <2>3, <2>6 DEF Environment, LoseRequest, ConnectionLost, Restart, Leave, DerperExit, host
  <2> QED
    BY <1>1, <2>4, <2>5, <2>6 DEF Next
<1>2. ASSUME ControlInv, ControlInv', [Next]_vars PROVE [Step]_vars
  BY <1>1, <1>2
<1> QED
  BY <1>2, ControlInvariant, PTL DEF SafetySpec, DerperGoesForward

\* From the moment DeleteNode or ChangeNodeDomain has found the node's stream in the table
\* until it commits, the derper admits nobody, and its cache holds nothing that would: the
\* revision that the look found applied is the empty one of a paused node, nothing can revise
\* it while the transaction is open, and derper and cache have it or one that is not older.
THEOREM RemovedDrained == SafetySpec => []DrainedBeforeRemoval
<1>1. ASSUME ControlInv, removal = "connected"
      PROVE  ~running.grants /\ (myToken # 0 => ~held.grants)
  <2>1. TypeOK /\ Order /\ Paused /\ Copies /\ Gone /\ Believed
    BY <1>1, Parts
  <2>2. ~policy.grants /\ applied = policy.rev
    BY <1>1, <2>1 DEF Paused
  <2>3. ASSUME myToken # 0 PROVE ~held.grants
    <3>1. policy.rev <= held.rev /\ held.rev <= policy.rev
      BY <2>1, <2>2, <2>3, RowTypes DEF Believed, Order, Copies, FromDatabase
    <3>2. held = policy
      BY <2>1, <3>1, RowTypes DEF Copies, FromDatabase
    <3> QED
      BY <2>2, <3>2
  <2>4. CASE running = NoPolicy
    BY <2>3, <2>4, PolicyFacts
  <2>5. CASE running # NoPolicy
    <3>1. policy.rev <= running.rev /\ running.rev <= policy.rev
      BY <2>1, <2>2, <2>5 DEF Gone, Believed, Copies, FromDatabase
    <3>2. running = policy
      BY <2>1, <3>1, RowTypes DEF Copies, FromDatabase
    <3> QED
      BY <2>2, <2>3, <3>2
  <2> QED
    BY <2>4, <2>5
<1>2. ControlInv => DrainedBeforeRemoval
  BY <1>1 DEF DrainedBeforeRemoval
<1> QED
  BY <1>2, ControlInvariant, PTL

=============================================================================
