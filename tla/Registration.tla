---------------------------- MODULE Registration ----------------------------
(***************************************************************************)
(* Registration and agent tokens: HandleAgentRegister and                  *)
(* HandleTokenRefresh (internal/server/handlers/auth.go, token.go) against *)
(* the agents and agent_tokens rows of one machine, and the agent's loop   *)
(* of registering, dialling and registering again when the connection is   *)
(* lost or the token is rejected.  A registration that fails is not tried  *)
(* again: it ends the agent's process.                                     *)
(*                                                                         *)
(* A registration that the agent has given up on goes on in the server:    *)
(* net/http runs the handler to its end whether or not the client waits.   *)
(* Each SQL statement is one step; nothing holds them together.            *)
(***************************************************************************)
EXTENDS Naturals, FiniteSets

CONSTANTS
    MaxReqs,        \* bound: registration requests
    MaxRows,        \* bound: IDs made for agents
    MaxFaults,      \* bound: requests given up, connections lost, agents killed
    MaxDeletes,     \* bound: DELETE /api/v1/agents/{id} requests
    MaxRefresh      \* bound: 1 if a token refresh may happen, else 0

ASSUME RegistrationAssumption ==
    /\ MaxReqs \in Nat
    /\ MaxRows \in Nat
    /\ MaxFaults \in Nat
    /\ MaxDeletes \in Nat
    /\ MaxRefresh \in {0, 1}

Reqs   == 1..MaxReqs
RowIds == 1..MaxRows            \* the IDs that NewID returns for agents
NoRow  == 0
NoReq  == 0

(* Request h issues token h; the refresh issues a token of its own.        *)
Fresh   == MaxReqs + 1
Tokens  == Reqs \cup {Fresh}
NoToken == 0

VARIABLES
    rows,       \* the agents rows that carry this machine's machine_id
    tok,        \* the state of each agent_tokens row
    owner,      \* its agent_id
    req,        \* the HandleAgentRegister goroutines
    fresh,      \* the HandleTokenRefresh goroutine
    nreq,       \* requests so far
    phase,      \* the agent's connect loop
    held,       \* the token in the agent's state
    faults,     \* requests given up, connections lost, agents killed so far
    deletes     \* agents deleted so far

vars == <<rows, tok, owner, req, fresh, nreq, phase, held, faults, deletes>>

storeVars == <<rows, tok, owner>>
agentVars == <<nreq, phase, held, faults>>

ReqPCs   == {"off", "list", "save", "revoke", "issue", "reply", "done"}
FreshPCs == {"off", "get", "save", "issue", "revoke", "done"}

(* "down": about to register.  "ended": there is no process.               *)
Phases == {"ended", "down", "register", "dial", "online"}

TypeOK ==
    /\ rows \in SUBSET RowIds
    /\ tok \in [Tokens -> {"none", "valid", "revoked"}]
    /\ owner \in [Tokens -> RowIds \cup {NoRow}]
    /\ req \in [Reqs -> [pc : ReqPCs, row : RowIds \cup {NoRow}, again : BOOLEAN]]
    /\ fresh \in [pc : FreshPCs, row : RowIds \cup {NoRow}, old : Tokens \cup {NoToken}]
    /\ nreq \in 0..MaxReqs
    /\ phase \in Phases
    /\ held \in Tokens \cup {NoToken}
    /\ faults \in 0..MaxFaults
    /\ deletes \in 0..MaxDeletes

Init ==
    /\ rows = {}
    /\ tok = [t \in Tokens |-> "none"]
    /\ owner = [t \in Tokens |-> NoRow]
    /\ req = [h \in Reqs |-> [pc |-> "off", row |-> NoRow, again |-> FALSE]]
    /\ fresh = [pc |-> "off", row |-> NoRow, old |-> NoToken]
    /\ nreq = 0
    /\ phase = "down"
    /\ held = NoToken
    /\ faults = 0
    /\ deletes = 0

-----------------------------------------------------------------------------
(* HandleAgentRegister.                                                    *)

Goto(h, pc) == req' = [req EXCEPT ![h].pc = pc]

(* Mutant of ListAgents: no ID is made for a new agent.                    *)
ListAgents_NoID(h) ==
    /\ req[h].pc = "list"
    /\ req' = [req EXCEPT ![h].pc = "save", ![h].again = (rows # {})]
    /\ UNCHANGED <<storeVars, fresh, agentVars, deletes>>

(* ListAgents finds the machine's first row, or a new ID is made.  The     *)
(* rows are ordered by ID, and the ID of a new row is random.              *)
ListAgents(h) ==
    /\ req[h].pc = "list"
    /\ \/ \E i \in rows :
            /\ \A j \in rows : i <= j
            /\ req' = [req EXCEPT ![h] = [pc |-> "save", row |-> i, again |-> TRUE]]
       \/ /\ rows = {}
          /\ \E i \in RowIds \ {req[g].row : g \in Reqs} :
                req' = [req EXCEPT ![h] = [pc |-> "save", row |-> i, again |-> FALSE]]
    /\ UNCHANGED <<storeVars, fresh, agentVars, deletes>>

(* SaveAgent inserts the row or updates it.                                *)
SaveAgent(h) ==
    /\ req[h].pc = "save"
    /\ rows' = rows \cup {req[h].row}
    /\ Goto(h, IF req[h].again THEN "revoke" ELSE "issue")
    /\ UNCHANGED <<tok, owner, fresh, agentVars, deletes>>

RevokeAllAgentTokens(h) ==
    /\ req[h].pc = "revoke"
    /\ tok' = [t \in Tokens |->
                IF tok[t] = "valid" /\ owner[t] = req[h].row THEN "revoked" ELSE tok[t]]
    /\ Goto(h, "issue")
    /\ UNCHANGED <<rows, owner, fresh, agentVars, deletes>>

(* Mutant of IssueAgentToken: the old tokens are revoked after the new one *)
(* is issued, by agent ID.                                                 *)
IssueAgentToken_ThenRevoke(h) ==
    /\ req[h].pc = "issue"
    /\ owner' = [owner EXCEPT ![h] = req[h].row]
    /\ tok' = [t \in Tokens |->
                IF owner'[t] = req[h].row /\ req[h].again THEN "revoked"
                ELSE IF t = h THEN "valid" ELSE tok[t]]
    /\ Goto(h, "reply")
    /\ UNCHANGED <<rows, fresh, agentVars, deletes>>

(* CreateAgentToken.  The foreign key makes it fail when the row has been  *)
(* deleted in the meantime, and the reply is then an error.                *)
IssueAgentToken(h) ==
    /\ req[h].pc = "issue"
    /\ IF req[h].row \in rows
       THEN /\ tok' = [tok EXCEPT ![h] = "valid"]
            /\ owner' = [owner EXCEPT ![h] = req[h].row]
       ELSE UNCHANGED <<tok, owner>>
    /\ Goto(h, "reply")
    /\ UNCHANGED <<rows, fresh, agentVars, deletes>>

(* The reply.  An agent that still waits saves the token and dials; if it  *)
(* gets an error, Run returns it and the process ends.                     *)
Reply(h) ==
    /\ req[h].pc = "reply"
    /\ Goto(h, "done")
    /\ IF phase = "register" /\ nreq = h
       THEN IF owner[h] # NoRow
            THEN phase' = "dial" /\ held' = h
            ELSE phase' = "ended" /\ UNCHANGED held
       ELSE UNCHANGED <<phase, held>>
    /\ UNCHANGED <<storeVars, fresh, nreq, faults, deletes>>

-----------------------------------------------------------------------------
(* HandleTokenRefresh, for a caller that has the agent's current token.    *)

(* RequireAgentAuth: agentIDFromToken finds the token.                     *)
RefreshAuth ==
    /\ fresh.pc = "off"
    /\ MaxRefresh = 1
    /\ held # NoToken
    /\ tok[held] = "valid"
    /\ fresh' = [pc |-> "get", row |-> owner[held], old |-> held]
    /\ UNCHANGED <<storeVars, req, agentVars, deletes>>

(* GetAgent: without a row there is nothing to save.                       *)
RefreshGet ==
    /\ fresh.pc = "get"
    /\ fresh' = [fresh EXCEPT !.pc = IF fresh.row \in rows THEN "save" ELSE "issue"]
    /\ UNCHANGED <<storeVars, req, agentVars, deletes>>

(* RequireAgentAuth writes the row back, whether or not it is still there. *)
RefreshSave ==
    /\ fresh.pc = "save"
    /\ rows' = rows \cup {fresh.row}
    /\ fresh' = [fresh EXCEPT !.pc = "issue"]
    /\ UNCHANGED <<tok, owner, req, agentVars, deletes>>

(* The new token; if it cannot be stored the old one is not touched.       *)
RefreshIssue ==
    /\ fresh.pc = "issue"
    /\ \/ /\ fresh.row \in rows
          /\ tok' = [tok EXCEPT ![Fresh] = "valid"]
          /\ owner' = [owner EXCEPT ![Fresh] = fresh.row]
          /\ fresh' = [fresh EXCEPT !.pc = "revoke"]
       \/ /\ fresh.row \notin rows
          /\ fresh' = [fresh EXCEPT !.pc = "done"]
          /\ UNCHANGED <<tok, owner>>
    /\ UNCHANGED <<rows, req, agentVars, deletes>>

(* Mutant of RefreshRevoke: both tokens are saved from the copies at hand. *)
RefreshRevoke_StaleCopy ==
    /\ fresh.pc = "revoke"
    /\ tok' = [tok EXCEPT ![fresh.old] = "revoked", ![Fresh] = "valid"]
    /\ fresh' = [fresh EXCEPT !.pc = "done"]
    /\ UNCHANGED <<rows, owner, req, agentVars, deletes>>

(* RevokeAgentToken, if the old token is still there.                      *)
RefreshRevoke ==
    /\ fresh.pc = "revoke"
    /\ tok' = [tok EXCEPT ![fresh.old] = IF @ = "none" THEN @ ELSE "revoked"]
    /\ fresh' = [fresh EXCEPT !.pc = "done"]
    /\ UNCHANGED <<rows, owner, req, agentVars, deletes>>

-----------------------------------------------------------------------------
(* The agent's loop, and what may go wrong.                                *)

(* register, at every turn of the loop: a request is sent.                 *)
Register ==
    /\ phase = "down"
    /\ nreq < MaxReqs
    /\ nreq' = nreq + 1
    /\ phase' = "register"
    /\ req' = [req EXCEPT ![nreq + 1].pc = "list"]
    /\ UNCHANGED <<storeVars, fresh, held, faults, deletes>>

(* Mutant of Dial: a rejected token is tried again.                        *)
Dial_KeepsToken ==
    /\ phase = "dial"
    /\ phase' = IF tok[held] = "valid" THEN "online" ELSE "dial"
    /\ UNCHANGED <<storeVars, req, fresh, nreq, held, faults, deletes>>

(* connect: the token is accepted, or rejected and cleared, which makes    *)
(* Run register again at once.                                             *)
Dial ==
    /\ phase = "dial"
    /\ IF tok[held] = "valid"
       THEN phase' = "online" /\ UNCHANGED held
       ELSE phase' = "down" /\ held' = NoToken
    /\ UNCHANGED <<storeVars, req, fresh, nreq, faults, deletes>>

(* The agent's process ends; its state file, with the token, is kept.      *)
Ends ==
    /\ faults < MaxFaults
    /\ faults' = faults + 1
    /\ phase' = "ended"
    /\ UNCHANGED <<storeVars, req, fresh, nreq, held, deletes>>

(* The request times out or its connection breaks: Run returns the error,  *)
(* and with it the process ends.  The handler goes on in the server.       *)
RegisterFails ==
    /\ phase = "register"
    /\ Ends

(* The dial fails without an answer, or the connection is lost: Run waits  *)
(* and then registers again.                                               *)
ConnectionLost ==
    /\ phase \in {"dial", "online"}
    /\ faults < MaxFaults
    /\ faults' = faults + 1
    /\ phase' = "down"
    /\ UNCHANGED <<storeVars, req, fresh, nreq, held, deletes>>

(* The agent is killed, or its machine goes down.                          *)
AgentKilled ==
    /\ phase # "ended"
    /\ Ends

(* Somebody starts the agent again: no code of the agent's does.           *)
AgentStart ==
    /\ phase = "ended"
    /\ phase' = "down"
    /\ UNCHANGED <<storeVars, req, fresh, nreq, held, faults, deletes>>

(* DELETE /api/v1/agents/{id}: the tokens go with the row (ON DELETE       *)
(* CASCADE).  An open WebSocket is not closed.                             *)
DeleteAgent ==
    /\ deletes < MaxDeletes
    /\ deletes' = deletes + 1
    /\ \E i \in rows :
        /\ rows' = rows \ {i}
        /\ tok' = [t \in Tokens |-> IF owner[t] = i THEN "none" ELSE tok[t]]
    /\ UNCHANGED <<owner, req, fresh, agentVars>>

Handle(h) ==
    \/ ListAgents(h)
    \/ SaveAgent(h)
    \/ RevokeAllAgentTokens(h)
    \/ IssueAgentToken(h)
    \/ Reply(h)

Refresh == RefreshGet \/ RefreshSave \/ RefreshIssue \/ RefreshRevoke

Next ==
    \/ \E h \in Reqs : Handle(h)
    \/ RefreshAuth
    \/ Refresh
    \/ Register
    \/ Dial
    \/ RegisterFails
    \/ ConnectionLost
    \/ AgentKilled
    \/ AgentStart
    \/ DeleteAgent

Spec == Init /\ [][Next]_vars

(* Handlers run to their end, and the loop of an agent that runs goes on:  *)
(* Run waits for an interval and every dial has a timeout.  Faults,        *)
(* deletions and refreshes happen or not, and so does a new start of an    *)
(* agent that has ended.                                                   *)
Fairness ==
    /\ \A h \in Reqs : WF_vars(Handle(h))
    /\ WF_vars(Refresh)
    /\ WF_vars(Register)
    /\ WF_vars(Dial)

FairSpec == Spec /\ Fairness

-----------------------------------------------------------------------------
(* Correctness.                                                            *)

(* A late handler may revoke the token of a newer registration, and the    *)
(* agent answers a rejection by registering again without a pause          *)
(* (agent.go:106).  That cannot go on for ever, or become a storm: every   *)
(* request but the first is paid for by a fault, a deletion or a refresh,  *)
(* and a fault pays for at most two.                                       *)
RequestsBounded == nreq <= 1 + 2 * faults + deletes + MaxRefresh

(* However handlers, refreshes and deletions interleave, an agent that     *)
(* stays up on a network that has become reliable ends up connected, and   *)
(* with a token that the server had accepted (agent.go:94-118, 178-187).   *)
(* Staying up is a condition and not a consequence: a registration that    *)
(* fails once ends the process (agent.go:98-100), and the agent is then    *)
(* down until somebody starts it.                                          *)
EventuallyOnline == <>[](phase # "ended") => <>[](phase = "online")

(* A token revoked or deleted is never accepted again, although a token is *)
(* revoked by row ID, by agent ID and by cascade, from copies read earlier *)
(* (store.go:745-757).                                                     *)
StaysRevoked ==
    [][\A t \in Tokens : (owner[t] # NoRow /\ tok[t] # "valid") => tok'[t] # "valid"]_vars

(* "revoke all existing tokens so only the new one is valid" (auth.go:285):*)
(* as every re-registration revokes before it issues, an agent never has   *)
(* two valid tokens (the run that checks this leaves the refresh out).     *)
OnlyNewTokenValid ==
    \A s, t \in Tokens :
        (tok[s] = "valid" /\ tok[t] = "valid" /\ owner[s] = owner[t]) => s = t
=============================================================================
