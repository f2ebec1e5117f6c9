------------------------- MODULE Registration_proofs ------------------------
(***************************************************************************)
(* Proofs about Registration, for any number of requests, rows, faults and *)
(* deletions.                                                              *)
(***************************************************************************)
EXTENDS Registration, FiniteSetTheorems, TLAPS

(* Requests start in order, have a row once they have looked for one, and  *)
(* own no token before they have issued it.                                *)
ReqInv ==
    \A h \in Reqs :
        /\ h > nreq => req[h].pc = "off"
        /\ req[h].pc \in {"save", "revoke", "issue"} => req[h].row \in RowIds
        /\ req[h].pc \in {"off", "list", "save", "revoke", "issue"} => owner[h] = NoRow

RefreshInv ==
    /\ fresh.pc \in {"get", "save", "issue", "revoke"} => fresh.row \in RowIds
    /\ fresh.pc \in {"off", "get", "save", "issue"} => owner[Fresh] = NoRow
    /\ fresh.pc # "off" => MaxRefresh = 1

(* A token that was never issued is not there.                             *)
TokenInv == \A t \in Tokens : owner[t] = NoRow => tok[t] = "none"

PhaseInv ==
    /\ phase = "register" => nreq > 0
    /\ phase = "dial" => held \in Tokens

(* The handlers that may still revoke the token of another registration:   *)
(* the agent does not wait for their answers any more.                     *)
Late ==
    {h \in Reqs : /\ h <= nreq
                  /\ req[h].pc \in {"list", "save", "revoke"}
                  /\ h = nreq => phase # "register"}

(* The agent will register again, though it does not know it yet: it holds *)
(* or will be given a token that is not valid, or no token at all.         *)
Rejected ==
    \/ phase = "dial" /\ tok[held] # "valid"
    \/ /\ phase = "register"
       /\ \/ req[nreq].pc = "reply" /\ tok[nreq] # "valid"
          \/ req[nreq].pc \in {"revoke", "issue"} /\ req[nreq].row \notin rows

(* Requests due now (or once the agent is started again), due soon, and    *)
(* spent on the refresh.                                                   *)
Due   == IF phase \in {"down", "ended"} THEN 1 ELSE 0
Soon  == IF Rejected THEN 1 ELSE 0
Spent == IF fresh.pc = "done" THEN MaxRefresh ELSE 0

BudgetInv ==
    nreq + Due + Soon + Cardinality(Late) <= 1 + 2 * faults + deletes + Spent

BasicInv == TypeOK /\ ReqInv /\ RefreshInv /\ TokenInv /\ PhaseInv

IndInv == BasicInv /\ BudgetInv

-----------------------------------------------------------------------------
(* What the operators do.                                                  *)

Request == [pc : ReqPCs, row : RowIds \cup {NoRow}, again : BOOLEAN]

(* The rest of the requests stay as they are.                              *)
OthersKept(h) == \A g \in Reqs \ {h} : req'[g] = req[g]

LEMMA GotoFacts ==
    ASSUME req \in [Reqs -> Request], NEW h \in Reqs, NEW pc \in ReqPCs, Goto(h, pc)
    PROVE  /\ req' \in [Reqs -> Request]
           /\ OthersKept(h)
           /\ req'[h].pc = pc
           /\ req'[h].row = req[h].row
<1> DEFINE x == [req[h] EXCEPT !.pc = pc]
<1>1. req[h] \in Request /\ req' = [req EXCEPT ![h] = x]
  BY DEF Goto
<1>2. x \in Request /\ x.pc = pc /\ x.row = req[h].row
  BY <1>1 DEF Request
<1> HIDE DEF x
<1> QED
  BY <1>1, <1>2 DEF OthersKept

(* What TypeOK says of numbers, tokens and rows.                           *)
LEMMA TypeFacts ==
    ASSUME TypeOK
    PROVE  /\ req \in [Reqs -> Request]
           /\ nreq \in Nat /\ nreq <= MaxReqs
           /\ faults \in Nat /\ deletes \in Nat
           /\ Fresh \in Tokens /\ Fresh \notin Reqs
           /\ \A h \in Reqs : h \in Tokens /\ h \in Nat /\ h > 0
           /\ NoRow \notin RowIds
BY RegistrationAssumption DEF TypeOK, Request, Reqs, Tokens, Fresh, RowIds, NoRow

(* Late is finite, and grows with the handlers that the agent gives up.    *)
LEMMA LateFinite == IsFiniteSet(Late) /\ Cardinality(Late) \in Nat
<1>1. IsFiniteSet(Reqs)
  BY FS_Interval, RegistrationAssumption DEF Reqs
<1>2. IsFiniteSet(Late)
  BY <1>1, FS_Subset DEF Late
<1> QED
  BY <1>2, FS_CardinalityType

LEMMA LateFinitePrime == IsFiniteSet(Late') /\ Cardinality(Late') \in Nat
<1>1. IsFiniteSet(Reqs)
  BY FS_Interval, RegistrationAssumption DEF Reqs
<1>2. IsFiniteSet(Late')
  BY <1>1, FS_Subset DEF Late
<1> QED
  BY <1>2, FS_CardinalityType

LEMMA LateShrinks ==
    ASSUME Late' \subseteq Late
    PROVE  Cardinality(Late') <= Cardinality(Late)
BY LateFinite, FS_Subset

LEMMA LateLoses ==
    ASSUME NEW h \in Late, Late' \subseteq Late \ {h}
    PROVE  Cardinality(Late') <= Cardinality(Late) - 1
<1>1. IsFiniteSet(Late \ {h}) /\ Cardinality(Late \ {h}) = Cardinality(Late) - 1
  BY LateFinite, FS_RemoveElement
<1> QED
  BY <1>1, FS_Subset

LEMMA LateGains ==
    ASSUME NEW h, Late' \subseteq Late \cup {h}
    PROVE  Cardinality(Late') <= Cardinality(Late) + 1
<1>1. /\ IsFiniteSet(Late \cup {h})
      /\ Cardinality(Late \cup {h}) <= Cardinality(Late) + 1
  BY LateFinite, FS_AddElement
<1>2. Cardinality(Late') <= Cardinality(Late \cup {h}) /\ Cardinality(Late \cup {h}) \in Nat
  BY <1>1, FS_Subset, FS_CardinalityType
<1> QED
  BY <1>1, <1>2, LateFinite, LateFinitePrime

-----------------------------------------------------------------------------
(* HandleAgentRegister keeps everything in order.                          *)

(* A step of handler h that changes rows, and nothing else in the store.   *)
LEMMA HandlerKeepsBasic ==
    ASSUME BasicInv, NEW h \in Reqs,
           req' \in [Reqs -> Request], OthersKept(h),
           req[h].pc # "off",
           req'[h].pc \in {"save", "revoke", "issue"} =>
                /\ req'[h].row \in RowIds
                /\ req[h].pc \in {"list", "save", "revoke"},
           req'[h].pc \notin {"off", "list"},
           rows' \in SUBSET RowIds,
           UNCHANGED <<tok, owner, fresh, nreq, phase, held, faults, deletes>>
    PROVE  BasicInv'
<1>1. TypeOK'
  BY DEF BasicInv, TypeOK, Request
<1>2. ReqInv'
  <2> SUFFICES ASSUME NEW g \in Reqs
               PROVE  /\ g > nreq => req'[g].pc = "off"
                      /\ req'[g].pc \in {"save", "revoke", "issue"} => req'[g].row \in RowIds
                      /\ req'[g].pc \in {"off", "list", "save", "revoke", "issue"}
                            => owner[g] = NoRow
    BY DEF ReqInv
  <2>1. CASE g # h
    BY <2>1 DEF BasicInv, ReqInv, OthersKept
  <2>2. CASE g = h
    BY <2>2 DEF BasicInv, ReqInv
  <2> QED
    BY <2>1, <2>2
<1>3. RefreshInv' /\ TokenInv' /\ PhaseInv'
  BY DEF BasicInv, RefreshInv, TokenInv, PhaseInv
<1> QED
  BY <1>1, <1>2, <1>3 DEF BasicInv

LEMMA ListAgentsFacts ==
    ASSUME BasicInv, NEW h \in Reqs, ListAgents(h)
    PROVE  /\ req[h].pc = "list"
           /\ req' \in [Reqs -> Request]
           /\ OthersKept(h)
           /\ req'[h].pc = "save"
           /\ req'[h].row \in RowIds
           /\ UNCHANGED <<rows, tok, owner, fresh, nreq, phase, held, faults, deletes>>
<1>1. PICK i \in RowIds, again \in BOOLEAN :
        req' = [req EXCEPT ![h] = [pc |-> "save", row |-> i, again |-> again]]
  BY DEF ListAgents, BasicInv, TypeOK
<1>2. [pc |-> "save", row |-> i, again |-> again] \in Request
  BY DEF Request, ReqPCs
<1>3. req \in [Reqs -> Request]
  BY TypeFacts DEF BasicInv
<1> QED
  BY <1>1, <1>2, <1>3 DEF ListAgents, storeVars, agentVars, OthersKept

LEMMA SaveAgentFacts ==
    ASSUME BasicInv, NEW h \in Reqs, SaveAgent(h)
    PROVE  /\ req[h].pc = "save"
           /\ req' \in [Reqs -> Request]
           /\ OthersKept(h)
           /\ req'[h].pc \in {"revoke", "issue"}
           /\ req'[h].row = req[h].row
           /\ req'[h].row \in rows'
           /\ rows \subseteq rows' /\ rows' \in SUBSET RowIds
           /\ UNCHANGED <<tok, owner, fresh, nreq, phase, held, faults, deletes>>
<1>1. PICK pc \in {"revoke", "issue"} : Goto(h, pc)
  BY DEF SaveAgent
<1>2. pc \in ReqPCs /\ req \in [Reqs -> Request]
  BY TypeFacts DEF ReqPCs, BasicInv
<1>3. req[h].row \in RowIds
  BY DEF SaveAgent, BasicInv, ReqInv
<1> QED
  BY <1>1, <1>2, <1>3, GotoFacts DEF SaveAgent, agentVars, BasicInv, TypeOK

LEMMA RevokeFacts ==
    ASSUME BasicInv, NEW h \in Reqs, RevokeAllAgentTokens(h)
    PROVE  /\ req[h].pc = "revoke"
           /\ req' \in [Reqs -> Request]
           /\ OthersKept(h)
           /\ req'[h].pc = "issue"
           /\ req'[h].row = req[h].row
           /\ tok' \in [Tokens -> {"none", "valid", "revoked"}]
           /\ \A t \in Tokens : tok'[t] # tok[t] => tok[t] = "valid" /\ tok'[t] = "revoked"
           /\ UNCHANGED <<rows, owner, fresh, nreq, phase, held, faults, deletes>>
<1>1. "issue" \in ReqPCs /\ req \in [Reqs -> Request] /\ Goto(h, "issue")
  BY TypeFacts DEF ReqPCs, BasicInv, RevokeAllAgentTokens
<1>2. /\ req' \in [Reqs -> Request]
      /\ OthersKept(h)
      /\ req'[h].pc = "issue"
      /\ req'[h].row = req[h].row
  BY <1>1, GotoFacts
<1> QED
  BY <1>2 DEF RevokeAllAgentTokens, agentVars, BasicInv, TypeOK

LEMMA IssueFacts ==
    ASSUME BasicInv, NEW h \in Reqs, IssueAgentToken(h)
    PROVE  /\ req[h].pc = "issue"
           /\ req' \in [Reqs -> Request]
           /\ OthersKept(h)
           /\ req'[h].pc = "reply"
           /\ req'[h].row = req[h].row
           /\ tok' \in [Tokens -> {"none", "valid", "revoked"}]
           /\ owner' \in [Tokens -> RowIds \cup {NoRow}]
           /\ \A t \in Tokens \ {h} : tok'[t] = tok[t] /\ owner'[t] = owner[t]
           /\ \/ /\ req[h].row \in rows
                 /\ tok'[h] = "valid" /\ owner'[h] \in RowIds
              \/ /\ req[h].row \notin rows
                 /\ tok' = tok /\ owner' = owner
           /\ UNCHANGED <<rows, fresh, nreq, phase, held, faults, deletes>>
<1>1. "reply" \in ReqPCs /\ req \in [Reqs -> Request] /\ Goto(h, "reply")
  BY TypeFacts DEF ReqPCs, BasicInv, IssueAgentToken
<1>2. /\ req' \in [Reqs -> Request]
      /\ OthersKept(h)
      /\ req'[h].pc = "reply"
      /\ req'[h].row = req[h].row
  BY <1>1, GotoFacts
<1>3. h \in Tokens /\ req[h].row \in RowIds
  BY TypeFacts DEF BasicInv, ReqInv, IssueAgentToken
<1> QED
  BY <1>2, <1>3 DEF IssueAgentToken, agentVars, BasicInv, TypeOK

LEMMA ReplyFacts ==
    ASSUME BasicInv, NEW h \in Reqs, Reply(h)
    PROVE  /\ req[h].pc = "reply"
           /\ req' \in [Reqs -> Request]
           /\ OthersKept(h)
           /\ req'[h].pc = "done"
           /\ \/ phase = "register" /\ nreq = h /\ owner[h] # NoRow
                    /\ phase' = "dial" /\ held' = h
              \/ phase = "register" /\ nreq = h /\ owner[h] = NoRow
                    /\ phase' = "ended" /\ held' = held
              \/ ~(phase = "register" /\ nreq = h) /\ phase' = phase /\ held' = held
           /\ UNCHANGED <<rows, tok, owner, fresh, nreq, faults, deletes>>
<1>1. "done" \in ReqPCs /\ req \in [Reqs -> Request] /\ Goto(h, "done")
  BY TypeFacts DEF ReqPCs, BasicInv, Reply
<1>2. /\ req' \in [Reqs -> Request]
      /\ OthersKept(h)
      /\ req'[h].pc = "done"
  BY <1>1, GotoFacts
<1> QED
  BY <1>2 DEF Reply, storeVars

LEMMA HandleKeepsBasic ==
    ASSUME BasicInv, NEW h \in Reqs, Handle(h)
    PROVE  BasicInv'
<1>1. CASE ListAgents(h)
  BY <1>1, ListAgentsFacts, HandlerKeepsBasic DEF BasicInv, TypeOK
<1>2. CASE SaveAgent(h)
  <2>1. req[h].row \in RowIds
    BY <1>2, SaveAgentFacts DEF BasicInv, ReqInv
  <2> QED
    BY <1>2, <2>1, SaveAgentFacts, HandlerKeepsBasic
<1>3. CASE RevokeAllAgentTokens(h)
  <2>1. TypeOK'
    BY <1>3, RevokeFacts DEF BasicInv, TypeOK, Request
  <2>2. ReqInv'
    BY <1>3, RevokeFacts DEF BasicInv, ReqInv, OthersKept
  <2>3. TokenInv'
    BY <1>3, RevokeFacts DEF BasicInv, TokenInv, TypeOK
  <2>4. RefreshInv' /\ PhaseInv'
    BY <1>3, RevokeFacts DEF BasicInv, RefreshInv, PhaseInv
  <2> QED
    BY <2>1, <2>2, <2>3, <2>4 DEF BasicInv
<1>4. CASE IssueAgentToken(h)
  <2>1. TypeOK'
    BY <1>4, IssueFacts DEF BasicInv, TypeOK, Request
  <2>2. ReqInv'
    <3> SUFFICES ASSUME NEW g \in Reqs
                 PROVE  /\ g > nreq => req'[g].pc = "off"
                        /\ req'[g].pc \in {"save", "revoke", "issue"} => req'[g].row \in RowIds
                        /\ req'[g].pc \in {"off", "list", "save", "revoke", "issue"}
                              => owner'[g] = NoRow
      BY <1>4, IssueFacts DEF ReqInv
    <3>1. CASE g # h
      <4>1. g \in Tokens
        BY TypeFacts DEF BasicInv
      <4> QED
        BY <1>4, <3>1, <4>1, IssueFacts DEF BasicInv, ReqInv, OthersKept
    <3>2. CASE g = h
      BY <1>4, <3>2, IssueFacts DEF BasicInv, ReqInv
    <3> QED
      BY <3>1, <3>2
  <2>3. TokenInv'
    BY <1>4, IssueFacts, TypeFacts DEF BasicInv, TokenInv, TypeOK
  <2>4. RefreshInv' /\ PhaseInv'
    BY <1>4, IssueFacts, TypeFacts DEF BasicInv, RefreshInv, PhaseInv
  <2> QED
    BY <2>1, <2>2, <2>3, <2>4 DEF BasicInv
<1>5. CASE Reply(h)
  <2>1. h \in Tokens /\ phase' \in Phases
        /\ held' \in Tokens \cup {NoToken}
    BY <1>5, ReplyFacts, TypeFacts DEF BasicInv, TypeOK, Phases
  <2>2. TypeOK'
    BY <1>5, <2>1, ReplyFacts DEF BasicInv, TypeOK, Request
  <2>3. ReqInv'
    BY <1>5, ReplyFacts DEF BasicInv, ReqInv, OthersKept
  <2>4. RefreshInv' /\ TokenInv'
    BY <1>5, ReplyFacts DEF BasicInv, RefreshInv, TokenInv
  <2>5. PhaseInv'
    BY <1>5, <2>1, ReplyFacts DEF BasicInv, PhaseInv
  <2> QED
    BY <2>2, <2>3, <2>4, <2>5 DEF BasicInv
<1> QED
  BY <1>1, <1>2, <1>3, <1>4, <1>5 DEF Handle

-----------------------------------------------------------------------------
(* HandleTokenRefresh, the agent's loop and deletions.                     *)

Refresher == [pc : FreshPCs, row : RowIds \cup {NoRow}, old : Tokens \cup {NoToken}]

LEMMA RefreshAuthKeepsBasic ==
    ASSUME BasicInv, RefreshAuth
    PROVE  BasicInv'
<1>1. /\ fresh.pc = "off" /\ MaxRefresh = 1 /\ held # NoToken /\ tok[held] = "valid"
      /\ fresh' = [pc |-> "get", row |-> owner[held], old |-> held]
      /\ UNCHANGED <<rows, tok, owner, req, nreq, phase, held, faults, deletes>>
  BY DEF RefreshAuth, storeVars, agentVars
<1>2. held \in Tokens /\ owner[held] \in RowIds
  BY <1>1 DEF BasicInv, TypeOK, TokenInv
<1>3. fresh' \in Refresher
  BY <1>1, <1>2 DEF Refresher, FreshPCs
<1>4. TypeOK'
  BY <1>1, <1>3 DEF BasicInv, TypeOK, Refresher
<1>5. RefreshInv'
  BY <1>1, <1>2 DEF BasicInv, RefreshInv
<1>6. ReqInv' /\ TokenInv' /\ PhaseInv'
  BY <1>1 DEF BasicInv, ReqInv, TokenInv, PhaseInv
<1> QED
  BY <1>4, <1>5, <1>6 DEF BasicInv

LEMMA RefreshFacts ==
    ASSUME BasicInv, Refresh
    PROVE  /\ fresh' \in Refresher
           /\ fresh'.row = fresh.row
           /\ fresh.pc \in {"get", "save", "issue", "revoke"}
           /\ fresh'.pc \in {"save", "issue", "revoke", "done"}
           /\ fresh.pc = "revoke" => fresh'.pc = "done"
           /\ fresh'.pc \in {"save", "issue"} => fresh.pc \in {"get", "save"}
           /\ rows \subseteq rows' /\ rows' \in SUBSET RowIds
           /\ tok' \in [Tokens -> {"none", "valid", "revoked"}]
           /\ owner' \in [Tokens -> RowIds \cup {NoRow}]
           /\ \A t \in Tokens : owner'[t] # owner[t] =>
                t = Fresh /\ fresh.pc = "issue" /\ owner'[t] \in RowIds
           /\ \A t \in Tokens : tok'[t] = "valid" /\ tok[t] # "valid" =>
                t = Fresh /\ fresh.pc = "issue"
           /\ \A t \in Tokens : tok'[t] # tok[t] /\ tok'[t] # "valid" =>
                fresh.pc = "revoke" /\ tok[t] # "none"
           /\ owner'[Fresh] = NoRow => tok'[Fresh] = tok[Fresh]
           /\ UNCHANGED <<req, nreq, phase, held, faults, deletes>>
<1>1. fresh \in Refresher /\ Fresh \in Tokens
  BY TypeFacts DEF BasicInv, TypeOK, Refresher
<1>2. ASSUME NEW pc \in {"save", "issue", "revoke", "done"}, fresh' = [fresh EXCEPT !.pc = pc]
      PROVE  fresh' \in Refresher /\ fresh'.row = fresh.row /\ fresh'.pc = pc
  BY <1>1, <1>2 DEF Refresher, FreshPCs
<1>3. CASE RefreshSave
  BY <1>2, <1>3 DEF RefreshSave, agentVars, BasicInv, TypeOK, RefreshInv
<1>4. CASE RefreshIssue
  <2>1. fresh.row \in RowIds
    BY <1>4 DEF RefreshIssue, BasicInv, RefreshInv
  <2>2. fresh' \in Refresher /\ fresh'.row = fresh.row /\ fresh'.pc \in {"revoke", "done"}
    BY <1>2, <1>4 DEF RefreshIssue
  <2>3. CASE fresh.row \in rows
    BY <1>1, <1>4, <2>1, <2>2, <2>3, TypeFacts
       DEF RefreshIssue, agentVars, BasicInv, TypeOK, RowIds, NoRow
  <2>4. CASE fresh.row \notin rows
    BY <1>4, <2>2, <2>4 DEF RefreshIssue, agentVars, BasicInv, TypeOK
  <2> QED
    BY <2>3, <2>4
<1>5. CASE RefreshRevoke
  <2>1. fresh' \in Refresher /\ fresh'.row = fresh.row /\ fresh'.pc = "done"
    BY <1>2, <1>5 DEF RefreshRevoke
  <2>2. tok' = [tok EXCEPT ![fresh.old] = IF @ = "none" THEN @ ELSE "revoked"]
    BY <1>5 DEF RefreshRevoke
  <2>3. /\ tok' \in [Tokens -> {"none", "valid", "revoked"}]
        /\ \A t \in Tokens : tok'[t] # tok[t] => tok[t] # "none" /\ tok'[t] = "revoked"
    BY <2>2 DEF BasicInv, TypeOK
  <2>4. owner'[Fresh] = NoRow => tok'[Fresh] = tok[Fresh]
    BY <1>1, <1>5, <2>3 DEF RefreshRevoke, BasicInv, TokenInv
  <2> QED
    BY <1>5, <2>1, <2>3, <2>4 DEF RefreshRevoke, agentVars, BasicInv, TypeOK
<1>6. CASE RefreshGet
  <2>1. fresh' \in Refresher /\ fresh'.row = fresh.row /\ fresh'.pc \in {"save", "issue"}
    BY <1>2, <1>6 DEF RefreshGet
  <2> QED
    BY <1>6, <2>1 DEF RefreshGet, storeVars, agentVars, BasicInv, TypeOK
<1> QED
  BY <1>3, <1>4, <1>5, <1>6 DEF Refresh

LEMMA RefreshKeepsBasic ==
    ASSUME BasicInv, Refresh
    PROVE  BasicInv'
<1>1. TypeOK'
  BY RefreshFacts DEF BasicInv, TypeOK, Refresher
<1>2. ReqInv'
  <2>1. \A h \in Reqs : owner'[h] = owner[h]
    BY RefreshFacts, TypeFacts DEF BasicInv
  <2> QED
    BY <2>1, RefreshFacts DEF BasicInv, ReqInv
<1>3. RefreshInv'
  BY RefreshFacts, TypeFacts DEF BasicInv, RefreshInv
<1>4. TokenInv'
  <2> SUFFICES ASSUME NEW t \in Tokens, owner'[t] = NoRow PROVE tok'[t] = "none"
    BY DEF TokenInv
  <2>1. owner[t] = NoRow /\ tok[t] = "none"
    BY RefreshFacts, TypeFacts DEF BasicInv, TokenInv
  <2> QED
    BY <2>1, RefreshFacts
<1>5. PhaseInv'
  BY RefreshFacts DEF BasicInv, PhaseInv
<1> QED
  BY <1>1, <1>2, <1>3, <1>4, <1>5 DEF BasicInv

LEMMA RegisterFacts ==
    ASSUME BasicInv, Register
    PROVE  /\ nreq + 1 \in Reqs
           /\ phase = "down" /\ phase' = "register" /\ nreq' = nreq + 1
           /\ req' \in [Reqs -> Request]
           /\ OthersKept(nreq + 1)
           /\ req[nreq + 1].pc = "off"
           /\ req'[nreq + 1].pc = "list"
           /\ UNCHANGED <<rows, tok, owner, fresh, held, faults, deletes>>
<1>1. nreq + 1 \in Reqs
  BY TypeFacts, RegistrationAssumption DEF Register, BasicInv, Reqs
<1>2. req \in [Reqs -> Request] /\ nreq + 1 > nreq
  BY TypeFacts DEF BasicInv
<1>3. Goto(nreq + 1, "list") /\ "list" \in ReqPCs
  BY DEF Register, Goto, ReqPCs
<1>4. /\ req' \in [Reqs -> Request]
      /\ OthersKept(nreq + 1)
      /\ req'[nreq + 1].pc = "list"
  BY <1>1, <1>2, <1>3, GotoFacts
<1> QED
  BY <1>1, <1>2, <1>4 DEF Register, storeVars, BasicInv, ReqInv

LEMMA RegisterKeepsBasic ==
    ASSUME BasicInv, Register
    PROVE  BasicInv'
<1>1. nreq \in Nat /\ nreq' \in 0..MaxReqs
  BY RegisterFacts, TypeFacts, RegistrationAssumption DEF BasicInv, Reqs
<1>2. TypeOK'
  BY <1>1, RegisterFacts DEF BasicInv, TypeOK, Request, Phases
<1>3. ReqInv'
  <2> SUFFICES ASSUME NEW g \in Reqs
               PROVE  /\ g > nreq' => req'[g].pc = "off"
                      /\ req'[g].pc \in {"save", "revoke", "issue"} => req'[g].row \in RowIds
                      /\ req'[g].pc \in {"off", "list", "save", "revoke", "issue"}
                            => owner'[g] = NoRow
    BY DEF ReqInv
  <2>1. CASE g # nreq + 1
    <3>1. g \in Nat /\ (g > nreq' => g > nreq)
      BY <1>1, RegisterFacts, TypeFacts DEF BasicInv
    <3> QED
      BY <2>1, <3>1, RegisterFacts DEF BasicInv, ReqInv, OthersKept
  <2>2. CASE g = nreq + 1
    BY <1>1, <2>2, RegisterFacts DEF BasicInv, ReqInv
  <2> QED
    BY <2>1, <2>2
<1>4. RefreshInv' /\ TokenInv'
  BY RegisterFacts DEF BasicInv, RefreshInv, TokenInv
<1>5. PhaseInv'
  BY <1>1, RegisterFacts DEF PhaseInv
<1> QED
  BY <1>2, <1>3, <1>4, <1>5 DEF BasicInv

(* What may go wrong with the agent, and that it is started again.         *)
Fault == RegisterFails \/ ConnectionLost \/ AgentKilled

LEMMA LoopKeepsBasic ==
    ASSUME BasicInv, Dial \/ Fault \/ AgentStart
    PROVE  BasicInv'
<1>1. /\ UNCHANGED <<rows, tok, owner, req, fresh, nreq, deletes>>
      /\ phase' \in {"online", "down", "ended"}
      /\ held' \in {held, NoToken}
      /\ faults' \in 0..MaxFaults
  BY RegistrationAssumption DEF Dial, Fault, RegisterFails, ConnectionLost, AgentKilled,
     AgentStart, Ends, storeVars, BasicInv, TypeOK
<1>2. TypeOK'
  BY <1>1 DEF BasicInv, TypeOK, Phases
<1>3. ReqInv' /\ RefreshInv' /\ TokenInv' /\ PhaseInv'
  BY <1>1 DEF BasicInv, ReqInv, RefreshInv, TokenInv, PhaseInv
<1> QED
  BY <1>2, <1>3 DEF BasicInv

LEMMA DeleteFacts ==
    ASSUME BasicInv, DeleteAgent
    PROVE  /\ deletes' = deletes + 1 /\ deletes' \in 0..MaxDeletes
           /\ rows' \in SUBSET RowIds
           /\ tok' \in [Tokens -> {"none", "valid", "revoked"}]
           /\ \A t \in Tokens : tok'[t] \in {tok[t], "none"}
           /\ UNCHANGED <<owner, req, fresh, nreq, phase, held, faults>>
<1>1. deletes' = deletes + 1 /\ deletes' \in 0..MaxDeletes
  BY RegistrationAssumption DEF DeleteAgent, BasicInv, TypeOK
<1>2. PICK i \in rows :
        /\ rows' = rows \ {i}
        /\ tok' = [t \in Tokens |-> IF owner[t] = i THEN "none" ELSE tok[t]]
  BY DEF DeleteAgent
<1> QED
  BY <1>1, <1>2 DEF DeleteAgent, agentVars, BasicInv, TypeOK

LEMMA DeleteKeepsBasic ==
    ASSUME BasicInv, DeleteAgent
    PROVE  BasicInv'
<1>1. TypeOK'
  BY DeleteFacts DEF BasicInv, TypeOK
<1>2. ReqInv' /\ RefreshInv' /\ PhaseInv'
  BY DeleteFacts DEF BasicInv, ReqInv, RefreshInv, PhaseInv
<1>3. TokenInv'
  BY DeleteFacts DEF BasicInv, TokenInv
<1> QED
  BY <1>1, <1>2, <1>3 DEF BasicInv

LEMMA BasicPreserved == BasicInv /\ [Next]_vars => BasicInv'
<1> SUFFICES ASSUME BasicInv, [Next]_vars PROVE BasicInv'
  OBVIOUS
<1>1. CASE UNCHANGED vars
  BY <1>1 DEF vars, BasicInv, TypeOK, ReqInv, RefreshInv, TokenInv, PhaseInv
<1> QED
  BY <1>1, HandleKeepsBasic, RefreshAuthKeepsBasic, RefreshKeepsBasic, RegisterKeepsBasic,
     LoopKeepsBasic, DeleteKeepsBasic DEF Next, Fault

-----------------------------------------------------------------------------
(* The budget of requests.                                                 *)

LEMMA BudgetTypes ==
    ASSUME BasicInv
    PROVE  /\ nreq \in Nat /\ faults \in Nat /\ deletes \in Nat
           /\ Due \in 0..1 /\ Soon \in 0..1 /\ Spent \in 0..1
           /\ (phase = "register" => nreq \in Reqs)
           /\ (phase = "dial" => held \in Tokens)
<1>1. nreq \in Nat /\ nreq <= MaxReqs /\ faults \in Nat /\ deletes \in Nat
  BY TypeFacts DEF BasicInv
<1>2. Due \in 0..1 /\ Soon \in 0..1 /\ Spent \in 0..1
  BY RegistrationAssumption DEF Due, Soon, Spent
<1>3. phase = "register" => nreq \in Reqs
  BY <1>1, RegistrationAssumption DEF BasicInv, PhaseInv, Reqs
<1> QED
  BY <1>1, <1>2, <1>3 DEF BasicInv, PhaseInv

(* A step that causes no request and brings none forward.                  *)
LEMMA NothingDue ==
    ASSUME BasicInv, BasicInv', BudgetInv,
           UNCHANGED <<nreq, faults, deletes, phase>>,
           Late' \subseteq Late, Rejected' => Rejected, Spent <= Spent'
    PROVE  BudgetInv'
<1>1. Due' = Due /\ Soon' <= Soon
  BY DEF Due, Soon
<1>2. Cardinality(Late') <= Cardinality(Late)
  BY LateShrinks
<1>3. nreq' + Due' + Soon' + Cardinality(Late') <= 1 + 2 * faults' + deletes' + Spent'
  <2>1. /\ nreq \in Nat /\ faults \in Nat /\ deletes \in Nat
        /\ Due \in 0..1 /\ Soon \in 0..1 /\ Spent \in 0..1
    BY BudgetTypes
  <2>2. Soon' \in 0..1 /\ Spent' \in 0..1
    BY BudgetTypes, RegistrationAssumption DEF Soon, Spent
  <2> QED
    BY <1>1, <1>2, <2>1, <2>2, LateFinite, LateFinitePrime DEF BudgetInv
<1> QED
  BY <1>3 DEF BudgetInv

(* Handlers: one that the agent no longer waits for may revoke its token,  *)
(* and is then late no more.                                               *)
LEMMA HandleKeepsBudget ==
    ASSUME IndInv, NEW h \in Reqs, Handle(h)
    PROVE  BudgetInv'
<1>0. BasicInv /\ BudgetInv /\ BasicInv'
  BY HandleKeepsBasic DEF IndInv
<1>1. CASE ListAgents(h)
  <2>1. Late' \subseteq Late
    BY <1>0, <1>1, ListAgentsFacts DEF Late, OthersKept
  <2>2. Rejected' => Rejected
    BY <1>0, <1>1, ListAgentsFacts, BudgetTypes DEF Rejected, OthersKept
  <2>3. Spent' = Spent
    BY <1>0, <1>1, ListAgentsFacts DEF Spent
  <2> QED
    BY <1>0, <1>1, <2>1, <2>2, <2>3, ListAgentsFacts, NothingDue, BudgetTypes
<1>2. CASE SaveAgent(h)
  <2>1. Late' \subseteq Late
    BY <1>0, <1>2, SaveAgentFacts DEF Late, OthersKept
  <2>2. Rejected' => Rejected
    BY <1>0, <1>2, SaveAgentFacts, BudgetTypes DEF Rejected, OthersKept
  <2>3. Spent' = Spent
    BY <1>0, <1>2, SaveAgentFacts DEF Spent
  <2> QED
    BY <1>0, <1>2, <2>1, <2>2, <2>3, SaveAgentFacts, NothingDue, BudgetTypes
<1>3. CASE RevokeAllAgentTokens(h)
  <2>1. Spent' = Spent /\ Due' = Due
    BY <1>0, <1>3, RevokeFacts DEF Spent, Due
  <2>2. CASE phase = "register" /\ h = nreq
    <3>1. Late' \subseteq Late
      BY <1>0, <1>3, <2>2, RevokeFacts DEF Late, OthersKept
    <3>2. Rejected' => Rejected
      BY <1>0, <1>3, <2>2, RevokeFacts DEF Rejected
    <3> QED
      BY <1>0, <1>3, <2>1, <3>1, <3>2, RevokeFacts, NothingDue, BudgetTypes
  <2>3. CASE ~(phase = "register" /\ h = nreq)
    <3>1. h \in Late
      <4>1. h <= nreq
        BY <1>0, <1>3, RevokeFacts, TypeFacts DEF BasicInv, ReqInv
      <4> QED
        BY <1>0, <1>3, <2>3, <4>1, RevokeFacts DEF Late
    <3>2. Late' \subseteq Late \ {h}
      BY <1>0, <1>3, RevokeFacts DEF Late, OthersKept
    <3>3. Cardinality(Late') <= Cardinality(Late) - 1
      BY <3>1, <3>2, LateLoses
    <3>4. /\ nreq \in Nat /\ faults \in Nat /\ deletes \in Nat
          /\ Due \in 0..1 /\ Soon \in 0..1 /\ Spent \in 0..1 /\ Soon' \in 0..1
      BY <1>0, BudgetTypes DEF Soon
    <3>5. nreq' = nreq /\ faults' = faults /\ deletes' = deletes
      BY <1>0, <1>3, RevokeFacts
    <3>6. nreq + Due + Soon + Cardinality(Late) <= 1 + 2 * faults + deletes + Spent
      BY <1>0 DEF BudgetInv
    <3>7. nreq + Due + Soon' + Cardinality(Late') <= 1 + 2 * faults + deletes + Spent
      BY <3>3, <3>4, <3>6, LateFinite, LateFinitePrime
    <3> QED
      BY <2>1, <3>5, <3>7 DEF BudgetInv
  <2> QED
    BY <2>2, <2>3
<1>4. CASE IssueAgentToken(h)
  <2>1. Late' \subseteq Late
    BY <1>0, <1>4, IssueFacts DEF Late, OthersKept
  <2>2. Rejected' => Rejected
    <3>1. CASE phase = "dial"
      BY <1>0, <1>4, <3>1, IssueFacts, BudgetTypes DEF Rejected
    <3>2. CASE phase = "register"
      <4>1. nreq \in Reqs /\ nreq \in Tokens
        BY <1>0, <3>2, BudgetTypes, TypeFacts DEF BasicInv
      <4>2. CASE nreq = h
        BY <1>0, <1>4, <3>2, <4>2, IssueFacts DEF Rejected
      <4>3. CASE nreq # h
        BY <1>0, <1>4, <3>2, <4>1, <4>3, IssueFacts DEF Rejected, OthersKept
      <4> QED
        BY <4>2, <4>3
    <3> QED
      BY <1>0, <1>4, <3>1, <3>2, IssueFacts DEF Rejected
  <2>3. Spent' = Spent
    BY <1>0, <1>4, IssueFacts DEF Spent
  <2> QED
    BY <1>0, <1>4, <2>1, <2>2, <2>3, IssueFacts, NothingDue, BudgetTypes
<1>5. CASE Reply(h)
  <2>1. Late' \subseteq Late
    BY <1>0, <1>5, ReplyFacts DEF Late, OthersKept
  <2>2. CASE ~(phase = "register" /\ nreq = h)
    <3>1. Rejected' => Rejected
      BY <1>0, <1>5, <2>2, ReplyFacts, BudgetTypes DEF Rejected, OthersKept
    <3>2. Spent' = Spent
      BY <1>0, <1>5, ReplyFacts DEF Spent
    <3> QED
      BY <1>0, <1>5, <2>1, <2>2, <3>1, <3>2, ReplyFacts, NothingDue, BudgetTypes
  <2>3. CASE phase = "register" /\ nreq = h
    <3>1. Due = 0 /\ Spent' = Spent
      BY <1>0, <1>5, <2>3, ReplyFacts DEF Due, Spent
    <3>2. Due' + Soon' <= Soon
      <4>1. CASE owner[h] # NoRow
        <5>1. Due' = 0
          BY <1>0, <1>5, <2>3, <4>1, ReplyFacts DEF Due
        <5>2. Rejected' => Rejected
          BY <1>0, <1>5, <2>3, <4>1, ReplyFacts DEF Rejected
        <5> QED
          BY <5>1, <5>2 DEF Soon
      <4>2. CASE owner[h] = NoRow
        <5>1. tok[h] # "valid"
          BY <1>0, <4>2, TypeFacts DEF BasicInv, TokenInv
        <5>2. Rejected
          BY <1>0, <1>5, <2>3, <5>1, ReplyFacts DEF Rejected
        <5>3. phase' = "ended" /\ ~Rejected'
          BY <1>0, <1>5, <2>3, <4>2, ReplyFacts DEF Rejected
        <5> QED
          BY <5>2, <5>3 DEF Due, Soon
      <4> QED
        BY <4>1, <4>2
    <3>3. Cardinality(Late') <= Cardinality(Late)
      BY <2>1, LateShrinks
    <3>4. /\ nreq \in Nat /\ faults \in Nat /\ deletes \in Nat
          /\ Soon \in 0..1 /\ Spent \in 0..1 /\ Soon' \in 0..1 /\ Due' \in 0..1
      BY <1>0, BudgetTypes DEF Soon, Due
    <3>5. nreq' = nreq /\ faults' = faults /\ deletes' = deletes
      BY <1>0, <1>5, ReplyFacts
    <3>6. nreq + 0 + Soon + Cardinality(Late) <= 1 + 2 * faults + deletes + Spent
      BY <1>0, <3>1 DEF BudgetInv
    <3>7. nreq + Due' + Soon' + Cardinality(Late') <= 1 + 2 * faults + deletes + Spent
      <4>1. PICK d \in 0..1, s \in 0..1 : d = Due' /\ s = Soon'
        BY <3>4
      <4>2. d + s <= Soon
        BY <3>2, <4>1
      <4>3. nreq + d + s + Cardinality(Late') <= 1 + 2 * faults + deletes + Spent
        BY <3>3, <3>4, <3>6, <4>2, LateFinite, LateFinitePrime
      <4> QED
        BY <4>1, <4>3
    <3> QED
      BY <3>1, <3>5, <3>7 DEF BudgetInv
  <2> QED
    BY <2>2, <2>3
<1> QED
  BY <1>1, <1>2, <1>3, <1>4, <1>5 DEF Handle

(* Otherwise what a step owes is paid for by a fault, a deletion or the    *)
(* refresh: p requests due or soon due, and c more late handlers.          *)
LEMMA Paid ==
    ASSUME BasicInv, BasicInv', BudgetInv, NEW p \in Nat, NEW c \in Nat,
           nreq' + Due' + Soon' <= nreq + Due + Soon + p,
           Cardinality(Late') <= Cardinality(Late) + c,
           2 * faults + deletes + Spent + p + c <= 2 * faults' + deletes' + Spent'
    PROVE  BudgetInv'
<1>1. nreq' \in Nat /\ faults' \in Nat /\ deletes' \in Nat
  BY RegistrationAssumption DEF BasicInv, TypeOK
<1>2. Due' \in 0..1 /\ Soon' \in 0..1 /\ Spent' \in 0..1
  BY RegistrationAssumption DEF Due, Soon, Spent
<1>3. PICK n \in Nat, d \in 0..1, s \in 0..1 : n = nreq' /\ d = Due' /\ s = Soon'
  BY <1>1, <1>2
<1>4. PICK f \in Nat, e \in Nat, q \in 0..1 : f = faults' /\ e = deletes' /\ q = Spent'
  BY <1>1, <1>2
<1>5. /\ nreq \in Nat /\ faults \in Nat /\ deletes \in Nat
      /\ Due \in 0..1 /\ Soon \in 0..1 /\ Spent \in 0..1
  BY BudgetTypes
<1>6. nreq + Due + Soon + Cardinality(Late) <= 1 + 2 * faults + deletes + Spent
  BY DEF BudgetInv
<1>7. n + d + s <= nreq + Due + Soon + p /\ 2 * faults + deletes + Spent + p + c <= 2 * f + e + q
  BY <1>3, <1>4
<1>8. n + d + s + Cardinality(Late') <= 1 + 2 * f + e + q
  BY <1>5, <1>6, <1>7, LateFinite, LateFinitePrime
<1>9. nreq' + Due' + Soon' + Cardinality(Late') <= 1 + 2 * faults' + deletes' + Spent'
  BY <1>3, <1>4, <1>8
<1> QED
  BY <1>9 DEF BudgetInv

LEMMA RefreshAuthKeepsBudget ==
    ASSUME IndInv, RefreshAuth
    PROVE  BudgetInv'
<1>0. BasicInv /\ BudgetInv /\ BasicInv'
  BY RefreshAuthKeepsBasic DEF IndInv
<1>1. /\ fresh.pc = "off"
      /\ fresh' = [pc |-> "get", row |-> owner[held], old |-> held]
      /\ UNCHANGED <<rows, tok, req, nreq, phase, held, faults, deletes>>
  BY DEF RefreshAuth, storeVars, agentVars
<1>2. Late' \subseteq Late /\ (Rejected' => Rejected)
  BY <1>1 DEF Late, Rejected
<1>3. Spent = 0 /\ Spent' = 0
  BY <1>1 DEF Spent
<1> QED
  BY <1>0, <1>1, <1>2, <1>3, NothingDue

(* The refresh may take the agent's token away, once.                      *)
LEMMA RefreshKeepsBudget ==
    ASSUME IndInv, Refresh
    PROVE  BudgetInv'
<1>0. BasicInv /\ BudgetInv /\ BasicInv'
  BY RefreshKeepsBasic DEF IndInv
<1>1. UNCHANGED <<req, nreq, phase, faults, deletes, held>>
  BY <1>0, RefreshFacts
<1>2. Late' \subseteq Late
  BY <1>1 DEF Late
<1>3. Spent = 0 /\ Spent' \in 0..1
  BY <1>0, RefreshFacts, RegistrationAssumption DEF Spent
<1>4. CASE fresh.pc # "revoke"
  <2>1. \A t \in Tokens : tok[t] = "valid" => tok'[t] = "valid"
    BY <1>0, <1>4, RefreshFacts
  <2>2. phase = "register" => nreq \in Tokens
    BY <1>0, BudgetTypes, TypeFacts DEF BasicInv
  <2>3. rows \subseteq rows' /\ (phase = "dial" => held \in Tokens)
    BY <1>0, RefreshFacts, BudgetTypes
  <2>4. Rejected' => Rejected
    BY <1>1, <2>1, <2>2, <2>3 DEF Rejected
  <2> QED
    BY <1>0, <1>1, <1>2, <1>3, <2>4, NothingDue
<1>5. CASE fresh.pc = "revoke"
  <2>1. Spent' = 1
    BY <1>0, <1>5, RefreshFacts DEF Spent, BasicInv, RefreshInv
  <2>2. Due' = Due /\ Soon' <= Soon + 1
    BY <1>1 DEF Due, Soon
  <2>3. nreq' + Due' + Soon' <= nreq + Due + Soon + 1
    <3>1. PICK s \in 0..1 : s = Soon'
      BY DEF Soon
    <3> QED
      BY <1>0, <1>1, <2>2, <3>1, BudgetTypes
  <2>4. Cardinality(Late') <= Cardinality(Late) + 0
    BY <1>2, LateShrinks, LateFinite
  <2>5. 2 * faults + deletes + Spent + 1 + 0 <= 2 * faults' + deletes' + Spent'
    BY <1>0, <1>1, <1>3, <2>1, BudgetTypes
  <2> QED
    BY <1>0, <2>3, <2>4, <2>5, Paid
<1> QED
  BY <1>4, <1>5

(* The request that was due is made.                                       *)
LEMMA RegisterKeepsBudget ==
    ASSUME IndInv, Register
    PROVE  BudgetInv'
<1>0. BasicInv /\ BudgetInv /\ BasicInv'
  BY RegisterKeepsBasic DEF IndInv
<1>1. Due = 1 /\ Due' = 0 /\ Soon' = 0 /\ Spent' = Spent
  BY <1>0, RegisterFacts DEF Due, Soon, Spent, Rejected
<1>2. Late' \subseteq Late
  <2> SUFFICES ASSUME NEW g \in Late' PROVE g \in Late
    OBVIOUS
  <2>1. /\ g \in Reqs /\ g \in Nat /\ nreq \in Nat /\ g <= nreq + 1 /\ g # nreq + 1
        /\ req'[g].pc \in {"list", "save", "revoke"}
    BY <1>0, RegisterFacts, TypeFacts DEF Late, BasicInv
  <2>2. g <= nreq /\ req[g].pc \in {"list", "save", "revoke"} /\ phase # "register"
    BY <1>0, <2>1, RegisterFacts DEF OthersKept
  <2> QED
    BY <2>1, <2>2 DEF Late
<1>3. Cardinality(Late') <= Cardinality(Late) + 0
  BY <1>2, LateShrinks, LateFinite
<1>4. nreq' + Due' + Soon' <= nreq + Due + Soon + 0
  BY <1>0, <1>1, RegisterFacts, BudgetTypes
<1>5. 2 * faults + deletes + Spent + 0 + 0 <= 2 * faults' + deletes' + Spent'
  BY <1>0, <1>1, RegisterFacts, BudgetTypes
<1> QED
  BY <1>0, <1>3, <1>4, <1>5, Paid

(* A rejection makes due what was soon due.                                *)
LEMMA DialKeepsBudget ==
    ASSUME IndInv, Dial
    PROVE  BudgetInv'
<1>0. BasicInv /\ BudgetInv /\ BasicInv'
  BY LoopKeepsBasic DEF IndInv
<1>1. UNCHANGED <<rows, tok, owner, req, fresh, nreq, faults, deletes>> /\ phase = "dial"
  BY DEF Dial, storeVars
<1>2. Late' \subseteq Late /\ Spent' = Spent
  BY <1>1 DEF Late, Spent
<1>3. Due' + Soon' <= Due + Soon
  <2>1. CASE tok[held] = "valid"
    BY <1>1, <2>1 DEF Dial, Due, Soon, Rejected
  <2>2. CASE tok[held] # "valid"
    BY <1>1, <2>2 DEF Dial, Due, Soon, Rejected
  <2> QED
    BY <2>1, <2>2
<1>4. nreq' + Due' + Soon' <= nreq + Due + Soon + 0
  <2>1. PICK d \in 0..1, s \in 0..1 : d = Due' /\ s = Soon'
    BY DEF Due, Soon
  <2>2. d + s <= Due + Soon
    BY <1>3, <2>1
  <2>3. nreq + d + s <= nreq + Due + Soon + 0
    BY <1>0, <2>2, BudgetTypes
  <2> QED
    BY <1>1, <2>1, <2>3
<1>5. Cardinality(Late') <= Cardinality(Late) + 0
  BY <1>2, LateShrinks, LateFinite
<1>6. 2 * faults + deletes + Spent + 0 + 0 <= 2 * faults' + deletes' + Spent'
  BY <1>0, <1>1, <1>2, BudgetTypes
<1> QED
  BY <1>0, <1>4, <1>5, <1>6, Paid

(* A new start makes nothing due that was not.                             *)
LEMMA StartKeepsBudget ==
    ASSUME IndInv, AgentStart
    PROVE  BudgetInv'
<1>0. BasicInv /\ BudgetInv /\ BasicInv'
  BY LoopKeepsBasic DEF IndInv
<1>1. /\ UNCHANGED <<rows, tok, owner, req, fresh, nreq, held, faults, deletes>>
      /\ phase = "ended" /\ phase' = "down"
  BY DEF AgentStart, storeVars
<1>2. Late' \subseteq Late /\ Spent' = Spent
  BY <1>1 DEF Late, Spent
<1>3. Due = 1 /\ Due' = 1 /\ Soon' = 0
  BY <1>1 DEF Due, Soon, Rejected
<1>4. nreq' + Due' + Soon' <= nreq + Due + Soon + 0
  BY <1>0, <1>1, <1>3, BudgetTypes
<1>5. Cardinality(Late') <= Cardinality(Late) + 0
  BY <1>2, LateShrinks, LateFinite
<1>6. 2 * faults + deletes + Spent + 0 + 0 <= 2 * faults' + deletes' + Spent'
  BY <1>0, <1>1, <1>2, BudgetTypes
<1> QED
  BY <1>0, <1>4, <1>5, <1>6, Paid

(* A fault makes a request due and may leave a handler behind.             *)
LEMMA FaultKeepsBudget ==
    ASSUME IndInv, Fault
    PROVE  BudgetInv'
<1>0. BasicInv /\ BudgetInv /\ BasicInv'
  BY LoopKeepsBasic DEF IndInv
<1>1. /\ UNCHANGED <<rows, tok, owner, req, fresh, nreq, held, deletes>>
      /\ phase # "ended" /\ phase' \in {"down", "ended"} /\ faults' = faults + 1
  BY DEF Fault, RegisterFails, ConnectionLost, AgentKilled, Ends, storeVars
<1>2. Late' \subseteq Late \cup {nreq} /\ Spent' = Spent
  BY <1>1 DEF Late, Spent
<1>3. Due' = 1 /\ Soon' = 0
  BY <1>1 DEF Due, Soon, Rejected
<1>4. nreq' + Due' + Soon' <= nreq + Due + Soon + 1
  BY <1>0, <1>1, <1>3, BudgetTypes
<1>5. Cardinality(Late') <= Cardinality(Late) + 1
  BY <1>2, LateGains
<1>6. 2 * faults + deletes + Spent + 1 + 1 <= 2 * faults' + deletes' + Spent'
  BY <1>0, <1>1, <1>2, BudgetTypes
<1> QED
  BY <1>0, <1>4, <1>5, <1>6, Paid

(* A deletion may take the agent's token away.                             *)
LEMMA DeleteKeepsBudget ==
    ASSUME IndInv, DeleteAgent
    PROVE  BudgetInv'
<1>0. BasicInv /\ BudgetInv /\ BasicInv'
  BY DeleteKeepsBasic DEF IndInv
<1>1. UNCHANGED <<req, fresh, nreq, phase, held, faults>> /\ deletes' = deletes + 1
  BY <1>0, DeleteFacts
<1>2. Late' \subseteq Late /\ Spent' = Spent /\ Due' = Due
  BY <1>1 DEF Late, Spent, Due
<1>3. nreq' + Due' + Soon' <= nreq + Due + Soon + 1
  <2>1. PICK s \in 0..1 : s = Soon'
    BY DEF Soon
  <2> QED
    BY <1>0, <1>1, <1>2, <2>1, BudgetTypes
<1>4. Cardinality(Late') <= Cardinality(Late) + 0
  BY <1>2, LateShrinks, LateFinite
<1>5. 2 * faults + deletes + Spent + 1 + 0 <= 2 * faults' + deletes' + Spent'
  BY <1>0, <1>1, <1>2, BudgetTypes
<1> QED
  BY <1>0, <1>3, <1>4, <1>5, Paid

-----------------------------------------------------------------------------
(* The theorems.                                                           *)

LEMMA InitInv == Init => IndInv
<1> SUFFICES ASSUME Init PROVE IndInv
  OBVIOUS
<1>1. BasicInv
  <2>1. rows \in SUBSET RowIds /\ nreq \in 0..MaxReqs /\ faults \in 0..MaxFaults
        /\ deletes \in 0..MaxDeletes /\ phase \in Phases
        /\ held \in Tokens \cup {NoToken}
    BY RegistrationAssumption DEF Init, Phases
  <2>2. /\ tok \in [Tokens -> {"none", "valid", "revoked"}]
        /\ owner \in [Tokens -> RowIds \cup {NoRow}]
    BY DEF Init
  <2>3. req \in [Reqs -> Request] /\ fresh \in Refresher
    BY DEF Init, Request, Refresher, ReqPCs, FreshPCs
  <2>4. TypeOK
    BY <2>1, <2>2, <2>3 DEF TypeOK, Request, Refresher
  <2>5. Fresh \in Tokens /\ (\A h \in Reqs : h \in Tokens)
    BY <2>4, TypeFacts
  <2>6. ReqInv /\ RefreshInv /\ TokenInv /\ PhaseInv
    BY <2>5 DEF Init, ReqInv, RefreshInv, TokenInv, PhaseInv
  <2> QED
    BY <2>4, <2>6 DEF BasicInv
<1>2. Late = {}
  BY DEF Init, Late, Reqs
<1>3. nreq = 0 /\ Due = 1 /\ Soon = 0 /\ faults = 0 /\ deletes = 0 /\ Spent = 0
  BY DEF Init, Due, Soon, Rejected, Spent
<1>4. BudgetInv
  BY <1>2, <1>3, FS_EmptySet DEF BudgetInv
<1> QED
  BY <1>1, <1>4 DEF IndInv

LEMMA NextPreserves == IndInv /\ [Next]_vars => IndInv'
<1> SUFFICES ASSUME IndInv, [Next]_vars PROVE IndInv'
  OBVIOUS
<1>1. BasicInv'
  BY BasicPreserved DEF IndInv
<1>2. CASE UNCHANGED vars
  BY <1>1, <1>2 DEF IndInv, BudgetInv, vars, Due, Soon, Spent, Late, Rejected
<1>3. CASE Next
  BY <1>1, <1>3, HandleKeepsBudget, RefreshAuthKeepsBudget, RefreshKeepsBudget,
     RegisterKeepsBudget, DialKeepsBudget, FaultKeepsBudget, StartKeepsBudget,
     DeleteKeepsBudget DEF Next, Fault, IndInv
<1> QED
  BY <1>2, <1>3

(* The requests that the agent has made, will make, or that late handlers  *)
(* of HandleAgentRegister can still cause by revoking its token are paid   *)
(* for by faults, deletions and refreshes, in every reachable state.       *)
THEOREM IndInvariant == Spec => []IndInv
BY InitInv, NextPreserves, PTL DEF Spec

(* Every variable keeps its type, whatever the handlers interleave.        *)
THEOREM TypeCorrect == Spec => []TypeOK
<1>1. IndInv => TypeOK
  BY DEF IndInv, BasicInv
<1> QED
  BY <1>1, IndInvariant, PTL

(* Registering again at once (agent.go:106) never becomes a storm: every   *)
(* request but the first is paid for by a fault, a deletion or a refresh.  *)
THEOREM RequestsAreBounded == Spec => []RequestsBounded
<1>1. IndInv => RequestsBounded
  <2> SUFFICES ASSUME IndInv PROVE RequestsBounded
    OBVIOUS
  <2>1. /\ nreq \in Nat /\ faults \in Nat /\ deletes \in Nat
        /\ Due \in 0..1 /\ Soon \in 0..1 /\ Spent \in 0..1
    BY BudgetTypes DEF IndInv
  <2>2. Spent <= MaxRefresh
    BY RegistrationAssumption DEF Spent
  <2>3. nreq + Due + Soon + Cardinality(Late) <= 1 + 2 * faults + deletes + Spent
    BY DEF IndInv, BudgetInv
  <2>4. nreq <= 1 + 2 * faults + deletes + MaxRefresh
    BY <2>1, <2>2, <2>3, LateFinite, RegistrationAssumption
  <2> QED
    BY <2>4 DEF RequestsBounded
<1> QED
  BY <1>1, IndInvariant, PTL

(* Only a token that was never issued becomes valid.                       *)
LEMMA NextKeepsRevoked ==
    ASSUME IndInv, [Next]_vars, NEW t \in Tokens, owner[t] # NoRow, tok[t] # "valid"
    PROVE  tok'[t] # "valid"
<1>0. BasicInv
  BY DEF IndInv
<1>1. ASSUME NEW h \in Reqs, Handle(h)
      PROVE  tok'[t] # "valid"
  <2>1. CASE IssueAgentToken(h)
    <3>1. owner[h] = NoRow
      BY <1>0, <2>1, IssueFacts DEF BasicInv, ReqInv
    <3> QED
      BY <1>0, <2>1, <3>1, IssueFacts
  <2>2. CASE RevokeAllAgentTokens(h)
    BY <1>0, <2>2, RevokeFacts
  <2>3. CASE ListAgents(h) \/ SaveAgent(h) \/ Reply(h)
    BY <1>0, <2>3, ListAgentsFacts, SaveAgentFacts, ReplyFacts
  <2> QED
    BY <1>1, <2>1, <2>2, <2>3 DEF Handle
<1>2. ASSUME Refresh
      PROVE  tok'[t] # "valid"
  BY <1>0, <1>2, RefreshFacts DEF BasicInv, RefreshInv
<1>3. CASE DeleteAgent
  BY <1>0, <1>3, DeleteFacts
<1>4. CASE RefreshAuth \/ Register \/ Dial \/ Fault \/ AgentStart \/ UNCHANGED vars
  BY <1>4 DEF RefreshAuth, Register, Dial, Fault, RegisterFails, ConnectionLost,
     AgentKilled, AgentStart, Ends, vars, storeVars
<1> QED
  BY <1>1, <1>2, <1>3, <1>4 DEF Next, Fault

(* A token that was revoked or deleted is never accepted again.            *)
THEOREM RevokedStaysRevoked == Spec => StaysRevoked
<1>1. IndInv /\ [Next]_vars =>
        [\A t \in Tokens : (owner[t] # NoRow /\ tok[t] # "valid") => tok'[t] # "valid"]_vars
  BY NextKeepsRevoked
<1> QED
  BY <1>1, IndInvariant, PTL DEF Spec, StaysRevoked
=============================================================================
