--------------------------------- MODULE Registry ---------------------------------
(***************************************************************************)
(* Who serves which function: RpcServers that offer functions to a         *)
(* registry, and RpcCLients that look there for servers to call. The       *)
(* registry is one RpcRegister, or a cluster of RaftNodes of which each    *)
(* takes itself for the leader and writes a registration to its log, or    *)
(* redirects it to some other node. What becomes of the log is in RaftNode *)
(* and how connections to the registry end in RpcRegister: here each node  *)
(* applies the registrations at any time and in an order of its own, or    *)
(* never, and a request or an answer takes any time. Every wait has a      *)
(* timer and may end by it.                                                *)
(*                                                                         *)
(* A request that times out may still be handled later; its answer finds   *)
(* no channel then (RpcSession).                                           *)
(***************************************************************************)
EXTENDS Naturals, Sequences, FiniteSets

CONSTANTS Register,    \* the nodes of the registry
          Default,     \* the one in the configuration of each process
          Server,      \* addresses of RpcServers
          Client, Func,
          Offers,      \* the functions each server registers
          Deletes,     \* those that it may delete again
          Crashing,    \* the servers that may crash
          MaxLife,     \* bound: how often each server is started
          Nil

ASSUME RegistryAssumption ==
    /\ Default \in [Server \cup Client -> Register]
    /\ Offers \in [Server -> SUBSET Func]
    /\ Deletes \in [Server -> SUBSET Func]
    /\ Crashing \subseteq Server
    /\ MaxLife \in [Server -> Nat]
    /\ Nil \notin Register \cup Server \cup Func

VARIABLES entered,        \* how often each server was written to a log, for each function
          m_addresses,    \* each node's addresses of a function, oldest first
          sAt,            \* each server process: down, start() over, in run(), terminated
          life,           \* how often it was started
          m_funcs,
          raftRegister,   \* its session "raft register" in the pool, if there is one
          job,            \* the coroutine that registers and deletes functions
          outcome,        \* history: how registerFunc came back in this life, or deleted
          late,           \* registrations whose sender has given up
          cAt, calling,   \* each client: where it is, the function it calls
          m_pool,         \* its pool's m_addresses
          m_servers,      \* its pool's sessions: server and life it is connected with
          requests        \* RPC_REQUESTs under way

regVars == <<entered, m_addresses>>
serverVars == <<sAt, life, m_funcs, raftRegister, job, outcome>>
clientVars == <<cAt, calling, m_pool, m_servers>>
vars == <<regVars, serverVars, late, clientVars, requests>>

Session == [server : Server, life : Nat]
Request == [from : Client, func : Func, on : Session, late : BOOLEAN]
Job == [pc : {"idle", "register", "redirect", "delete", "spin"},
        func : Func \cup {Nil}, to : Register \cup {Nil}]
NoJob == [pc |-> "idle", func |-> Nil, to |-> Nil]

Outcome == {"none", "registered", "redirected", "timeout", "deleted"}

\* And a request that is not late is the one of the call that waits for its answer.
TypeOK ==
    /\ entered \in [Func -> [Server -> Nat]]
    /\ m_addresses \in [Register -> [Func -> Seq(Server)]]
    /\ sAt \in [Server -> {"down", "up", "running", "terminated"}]
    /\ life \in [Server -> Nat]
    /\ m_funcs \in [Server -> SUBSET Func]
    /\ raftRegister \in [Server -> Register \cup {Nil}]
    /\ job \in [Server -> Job]
    /\ outcome \in [Server -> [Func -> Outcome]]
    /\ late \subseteq Server \X Func \X Register
    /\ cAt \in [Client -> {"new", "init", "ready", "discover", "call"}]
    /\ calling \in [Client -> Func \cup {Nil}]
    /\ m_pool \in [Client -> [Func -> Seq(Server)]]
    /\ m_servers \in [Client -> [Func -> Session \cup {Nil}]]
    /\ requests \subseteq Request
    /\ \A r \in requests : ~r.late => cAt[r.from] = "call" /\ calling[r.from] = r.func

Init ==
    /\ entered = [f \in Func |-> [s \in Server |-> 0]]
    /\ m_addresses = [r \in Register |-> [f \in Func |-> <<>>]]
    /\ sAt = [s \in Server |-> "down"]
    /\ life = [s \in Server |-> 0]
    /\ m_funcs = [s \in Server |-> {}]
    /\ raftRegister = [s \in Server |-> Nil]
    /\ job = [s \in Server |-> NoJob]
    /\ outcome = [s \in Server |-> [f \in Func |-> "none"]]
    /\ late = {}
    /\ cAt = [c \in Client |-> "new"]
    /\ calling = [c \in Client |-> Nil]
    /\ m_pool = [c \in Client |-> [f \in Func |-> <<>>]]
    /\ m_servers = [c \in Client |-> [f \in Func |-> Nil]]
    /\ requests = {}

IsUp(s) == sAt[s] \in {"up", "running"}

\* The coroutine of s that registers is at pc.
Waits(s, pc) == IsUp(s) /\ job[s].pc = pc

-----------------------------------------------------------------------------
(* The registry.                                                           *)

\* How often s is in a list of addresses.
Times(s, addresses) == Cardinality({k \in DOMAIN addresses : addresses[k] = s})

\* The applier of node r comes to a registration: once at most to each, and never to one
\* that is overwritten before.
Apply(r, f, s) ==
    /\ Times(s, m_addresses[r][f]) < entered[f][s]
    /\ m_addresses' = [m_addresses EXCEPT ![r][f] = Append(@, s)]
    /\ UNCHANGED <<entered, serverVars, late, clientVars, requests>>

\* handleServiceRegister answers when the entry is in its log. It is meant to wait until
\* that is applied, but the comparison is the wrong way round (raft_node.cpp:722).
Enter(f, s) == entered' = [entered EXCEPT ![f][s] = @ + 1]

\* A registration that nobody waits for any more.
HandleLate(s, f, r) ==
    /\ <<s, f, r>> \in late
    /\ late' = late \ {<<s, f, r>>}
    /\ Enter(f, s) \/ UNCHANGED entered
    /\ UNCHANGED <<m_addresses, serverVars, clientVars, requests>>

-----------------------------------------------------------------------------
(* RpcServer.                                                              *)

\* A process begins and has called start(). The functions are registered after it, so
\* RPC_SERVER_INIT names none, and its answer is not looked at.
Start(s) ==
    /\ ~IsUp(s)
    /\ life[s] < MaxLife[s]
    /\ sAt' = [sAt EXCEPT ![s] = "up"]
    /\ life' = [life EXCEPT ![s] = @ + 1]
    /\ m_funcs' = [m_funcs EXCEPT ![s] = {}]
    /\ raftRegister' = [raftRegister EXCEPT ![s] = Nil]
    /\ job' = [job EXCEPT ![s] = NoJob]
    /\ outcome' = [outcome EXCEPT ![s] = [f \in Func |-> "none"]]
    /\ UNCHANGED <<regVars, late, clientVars, requests>>

Run(s) ==
    /\ sAt[s] = "up"
    /\ sAt' = [sAt EXCEPT ![s] = "running"]
    /\ UNCHANGED <<regVars, life, m_funcs, raftRegister, job, outcome, late, clientVars, requests>>

\* The registry may still handle what the server has asked for.
GivesUp(s) ==
    late' = IF Waits(s, "register") THEN late \cup {<<s, job[s].func, job[s].to>>} ELSE late

\* What was sent to the server is lost.
Crash(s) ==
    /\ s \in Crashing
    /\ IsUp(s)
    /\ sAt' = [sAt EXCEPT ![s] = "down"]
    /\ requests' = {r \in requests : r.on.server # s}
    /\ GivesUp(s)
    /\ UNCHANGED <<regVars, life, m_funcs, raftRegister, job, outcome, clientVars>>

\* m_connection_pool.getAllRegister()[0]
getRegister(s) == IF raftRegister[s] # Nil THEN raftRegister[s] ELSE Default[s]

Asks(s, pc, f, r) == job' = [job EXCEPT ![s] = [pc |-> pc, func |-> f, to |-> r]]

\* registerFunc2Reg comes back.
Returns(s, result) ==
    /\ job' = [job EXCEPT ![s] = NoJob]
    /\ outcome' = [outcome EXCEPT ![s][job[s].func] = result]

\* Wrong: only the registry learns of the function.
registerFuncAway(s, f) ==
    /\ Waits(s, "idle")
    /\ f \in Offers[s]
    /\ outcome[s][f] = "none"
    /\ Asks(s, "register", f, getRegister(s))
    /\ UNCHANGED <<regVars, sAt, life, m_funcs, raftRegister, outcome, late, clientVars, requests>>

registerFunc(s, f) ==
    /\ Waits(s, "idle")
    /\ f \in Offers[s]
    /\ outcome[s][f] = "none"
    /\ m_funcs' = [m_funcs EXCEPT ![s] = @ \cup {f}]
    /\ Asks(s, "register", f, getRegister(s))
    /\ UNCHANGED <<regVars, sAt, life, raftRegister, outcome, late, clientVars, requests>>

Registered(s) ==
    /\ Waits(s, "register")
    /\ Enter(job[s].func, s)
    /\ Returns(s, "registered")
    /\ UNCHANGED <<m_addresses, sAt, life, m_funcs, raftRegister, late, clientVars, requests>>

\* addRegister emplaces: a second redirect leaves the session of the first one in the
\* pool.
Follows(s) ==
    \E r \in Register \ {job[s].to} :
        /\ Asks(s, "redirect", job[s].func, r)
        /\ raftRegister' =
               [raftRegister EXCEPT ![s] = IF raftRegister[s] = Nil THEN r ELSE @]

\* Wrong: the node registers as well.
RedirectedAndEntered(s) ==
    /\ Waits(s, "register")
    /\ Follows(s)
    /\ Enter(job[s].func, s)
    /\ UNCHANGED <<m_addresses, sAt, life, m_funcs, outcome, late, clientVars, requests>>

\* The node that is asked takes any other for the leader.
Redirected(s) ==
    /\ Waits(s, "register")
    /\ Follows(s)
    /\ UNCHANGED <<regVars, sAt, life, m_funcs, outcome, late, clientVars, requests>>

RegisterTimeout(s) ==
    /\ Waits(s, "register")
    /\ GivesUp(s)
    /\ Returns(s, "timeout")
    /\ UNCHANGED <<regVars, sAt, life, m_funcs, raftRegister, clientVars, requests>>

\* RedirectRegister has sent a registration without functions. An answer of any type
\* makes it return true, a timeout whatever is in the register; true ends
\* registerFunc2Reg, with the function registered nowhere.
RedirectReturns(s) ==
    /\ Waits(s, "redirect")
    /\ Returns(s, "redirected")
    /\ UNCHANGED <<regVars, sAt, life, m_funcs, raftRegister, late, clientVars, requests>>

\* goto Redirect
RedirectAgain(s) ==
    /\ Waits(s, "redirect")
    /\ Asks(s, "register", job[s].func, getRegister(s))
    /\ UNCHANGED <<regVars, sAt, life, m_funcs, raftRegister, outcome, late, clientVars, requests>>

deleteFunc(s, f) ==
    /\ Waits(s, "idle")
    /\ f \in m_funcs[s] \cap Deletes[s]
    /\ m_funcs' = [m_funcs EXCEPT ![s] = @ \ {f}]
    /\ Asks(s, "delete", f, getRegister(s))
    /\ outcome' = [outcome EXCEPT ![s][f] = "deleted"]
    /\ UNCHANGED <<regVars, sAt, life, raftRegister, late, clientVars, requests>>

\* No node handles RPC_SERVICE_DELETE: the addresses stay.
DeleteTimeout(s) ==
    /\ Waits(s, "delete")
    /\ job' = [job EXCEPT ![s] = NoJob]
    /\ UNCHANGED <<regVars, sAt, life, m_funcs, raftRegister, outcome, late, clientVars, requests>>

\* But one that takes another for the leader redirects it, and deleteFunc2Reg waits for the
\* end of an answer that it does not read.
DeleteSpins(s) ==
    /\ Waits(s, "delete")
    /\ Register # {job[s].to}
    /\ Asks(s, "spin", job[s].func, job[s].to)
    /\ UNCHANGED <<regVars, sAt, life, m_funcs, raftRegister, outcome, late, clientVars, requests>>

-----------------------------------------------------------------------------
(* RpcCLient.                                                              *)

ClientStart(c) ==
    /\ cAt[c] = "new"
    /\ cAt' = [cAt EXCEPT ![c] = "init"]
    /\ UNCHANGED <<regVars, serverVars, late, calling, m_pool, m_servers, requests>>

\* handleCLientInit answers with all addresses that the node has.
InitAnswered(c) ==
    /\ cAt[c] = "init"
    /\ cAt' = [cAt EXCEPT ![c] = "ready"]
    /\ m_pool' = [m_pool EXCEPT ![c] = m_addresses[Default[c]]]
    /\ UNCHANGED <<regVars, serverVars, late, calling, m_servers, requests>>

InitTimeout(c) ==
    /\ cAt[c] = "init"
    /\ cAt' = [cAt EXCEPT ![c] = "ready"]
    /\ UNCHANGED <<regVars, serverVars, late, calling, m_pool, m_servers, requests>>

getAllAddress(c, f) == m_pool[c][f]

\* Wrong: the newest address.
NewestAddress(addresses) == addresses[Len(addresses)]

\* addresses[0]
FirstAddress(addresses) == addresses[1]

\* The session that getRpcSession makes: it needs a server that listens.
Connected(c, f) ==
    LET addresses == getAllAddress(c, f) IN
    IF addresses # <<>> /\ IsUp(FirstAddress(addresses))
    THEN [server |-> FirstAddress(addresses), life |-> life[FirstAddress(addresses)]]
    ELSE Nil

\* getRpcSession. A session stays in m_servers when its server is gone, and no other is
\* made for the function; m_addr_to_session is always empty.
getRpcSession(c, f) == IF m_servers[c][f] # Nil THEN m_servers[c][f] ELSE Connected(c, f)

Call(c, f) ==
    LET session == getRpcSession(c, f) IN
    /\ cAt[c] = "ready"
    /\ session # Nil
    /\ cAt' = [cAt EXCEPT ![c] = "call"]
    /\ calling' = [calling EXCEPT ![c] = f]
    /\ m_servers' = [m_servers EXCEPT ![c][f] = session]
    /\ requests' = requests \cup {[from |-> c, func |-> f, on |-> session, late |-> FALSE]}
    /\ UNCHANGED <<regVars, serverVars, late, m_pool>>

\* No session: RPC_SERVICE_DISCOVER, which no node handles.
Discover(c, f) ==
    /\ cAt[c] = "ready"
    /\ getRpcSession(c, f) = Nil
    /\ cAt' = [cAt EXCEPT ![c] = "discover"]
    /\ calling' = [calling EXCEPT ![c] = f]
    /\ UNCHANGED <<regVars, serverVars, late, m_pool, m_servers, requests>>

Back(c) ==
    /\ cAt' = [cAt EXCEPT ![c] = "ready"]
    /\ calling' = [calling EXCEPT ![c] = Nil]

\* call() returns Ret{}.
DiscoverTimeout(c) ==
    /\ cAt[c] = "discover"
    /\ Back(c)
    /\ UNCHANGED <<regVars, serverVars, late, m_pool, m_servers, requests>>

IsLive(session) == IsUp(session.server) /\ life[session.server] = session.life

Current(c) == {r \in requests : r.from = c /\ ~r.late}

\* call() flows off its end.
CallTimeout(c) ==
    /\ cAt[c] = "call"
    /\ Back(c)
    /\ requests' = {IF r \in Current(c) THEN [r EXCEPT !.late = TRUE] ELSE r : r \in requests}
    /\ UNCHANGED <<regVars, serverVars, late, m_pool, m_servers>>

-----------------------------------------------------------------------------
(* A request at its server: RpcServer::handleCLientRequest and call().     *)

Reaches(r, s) ==
    /\ r \in requests
    /\ r.on.server = s
    /\ sAt[s] = "running"
    /\ IsLive(r.on)

Serve(r, s) ==
    /\ Reaches(r, s)
    /\ r.func \in m_funcs[s]
    /\ requests' = requests \ {r}
    /\ IF r.late THEN UNCHANGED <<cAt, calling>> ELSE Back(r.from)
    /\ UNCHANGED <<regVars, serverVars, late, m_pool, m_servers>>

\* "Function not found" is thrown in a coroutine and caught nowhere.
Terminate(r, s) ==
    /\ Reaches(r, s)
    /\ r.func \notin m_funcs[s]
    /\ sAt' = [sAt EXCEPT ![s] = "terminated"]
    /\ requests' = {q \in requests : q.on.server # s}
    /\ GivesUp(s)
    /\ UNCHANGED <<regVars, life, m_funcs, raftRegister, job, outcome, clientVars>>

-----------------------------------------------------------------------------
Registrations ==
    \E s \in Server, f \in Func, r \in Register : Apply(r, f, s) \/ HandleLate(s, f, r)

Servers ==
    \E s \in Server :
       \/ Start(s) \/ Run(s) \/ Crash(s)
       \/ \E f \in Func : registerFunc(s, f) \/ deleteFunc(s, f)
       \/ Registered(s) \/ Redirected(s) \/ RegisterTimeout(s)
       \/ RedirectReturns(s) \/ RedirectAgain(s)
       \/ DeleteTimeout(s) \/ DeleteSpins(s)
       \/ \E r \in requests : Serve(r, s) \/ Terminate(r, s)

Clients ==
    \E c \in Client :
       \/ ClientStart(c) \/ InitAnswered(c) \/ InitTimeout(c)
       \/ \E f \in Func : Call(c, f) \/ Discover(c, f)
       \/ DiscoverTimeout(c) \/ CallTimeout(c)

Next == Registrations \/ Servers \/ Clients

Spec == Init /\ [][Next]_vars

-----------------------------------------------------------------------------
(* Properties.                                                             *)

\* When registerFunc comes back after a redirect, to log "success" (rpc_server.cpp:188), no
\* node has the function of that server nor will it have it: it was only registered with
\* itself. Here of a server that was started once; another's former life may have
\* registered it.
RedirectedIsNowhere ==
    \A s \in Server, f \in Func :
        life[s] = 1 /\ outcome[s][f] = "redirected" =>
            entered[f][s] = 0 /\ \A r \in Register : <<s, f, r>> \notin late

\* A server that was started once is asked for functions only that it has registered
\* with itself, or deleted: call() throws for any other, and that ends the process
\* (rpc_server.h:51). A server that was started anew is asked at once for what its former
\* life had registered.
FunctionIsThere ==
    \A r \in requests :
        life[r.on.server] = 1 => \/ r.func \in m_funcs[r.on.server]
                                 \/ outcome[r.on.server][r.func] = "deleted"

\* Every client calls a function at the server that its configured node applied first, for
\* as long as the client runs and whether that server runs or not, whatever else the
\* registry or the client knows: the pool's choice at random is one among one
\* (rpc_connection_pool.cpp:154, 173). Nodes that apply in different orders send their
\* clients to different servers for good.
EveryoneCallsTheFirst ==
    \A c \in Client, f \in Func :
        m_servers[c][f] # Nil =>
            /\ m_addresses[Default[c]][f] # <<>>
            /\ m_servers[c][f].server = FirstAddress(m_addresses[Default[c]][f])

=============================================================================
