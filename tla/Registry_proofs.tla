----------------------------- MODULE Registry_proofs -----------------------------
(***************************************************************************)
(* Who serves what, for every number of registry nodes, servers, clients   *)
(* and functions: a client calls the server that its node applied first, a *)
(* server in its first life is asked only for what it has had, and none is *)
(* known for a function whose registration ended with a redirect.          *)
(*                                                                         *)
(* The lists of every node only grow at their ends, and what a client has  *)
(* begins like those of its node. What is under way anywhere - in a log, a *)
(* list, a session, a request or a late registration - names a function    *)
(* that its server has known in this life.                                 *)
(***************************************************************************)
EXTENDS Registry, FiniteSetTheorems, TLAPS

\* A list of addresses that begins like another.
StartsLike(list, addresses) ==
    list # <<>> => addresses # <<>> /\ list[1] = addresses[1]

FirstInv ==
    \A c \in Client, f \in Func :
        /\ StartsLike(m_pool[c][f], m_addresses[Default[c]][f])
        /\ m_servers[c][f] # Nil =>
              StartsLike(<<m_servers[c][f].server>>, m_addresses[Default[c]][f])

\* In its first life s has f, or had it and has deleted it.
Known(f, s) ==
    /\ life[s] >= 1
    /\ life[s] = 1 => f \in m_funcs[s] \/ outcome[s][f] = "deleted"

AllKnown(list, f) == \A k \in 1..Len(list) : Known(f, list[k])

KnownInv ==
    /\ \A f \in Func, s \in Server : entered[f][s] > 0 => Known(f, s)
    /\ \A r \in Register, f \in Func : AllKnown(m_addresses[r][f], f)
    /\ \A c \in Client, f \in Func : AllKnown(m_pool[c][f], f)
    /\ \A c \in Client, f \in Func :
          m_servers[c][f] # Nil => Known(f, m_servers[c][f].server)
    /\ \A q \in requests : Known(q.func, q.on.server)
    /\ \A s \in Server, f \in Func, r \in Register : <<s, f, r>> \in late => Known(f, s)

\* A server registers a function that it has.
JobInv ==
    \A s \in Server :
        /\ IsUp(s) => life[s] >= 1
        /\ job[s].pc # "idle" => /\ life[s] >= 1
                                 /\ job[s].func \in Func /\ job[s].to \in Register
        /\ job[s].pc \in {"register", "redirect"} => /\ job[s].func \in m_funcs[s]
                                                   /\ outcome[s][job[s].func] = "none"

\* The registration of f has not left s for good in its first life, or came back from a
\* redirect.
Open(s, f) ==
    /\ life[s] <= 1
    /\ \/ life[s] = 0
       \/ outcome[s][f] = "none" /\ IsUp(s)
       \/ outcome[s][f] = "redirected"

NowhereInv ==
    \A s \in Server, f \in Func :
        Open(s, f) => entered[f][s] = 0 /\ \A r \in Register : <<s, f, r>> \notin late

\* A client waits for one answer at a time.
OneRequest ==
    \A q \in requests, r \in requests :
        q.from = r.from /\ ~q.late /\ ~r.late => q = r

IInv == TypeOK /\ FirstInv /\ KnownInv /\ JobInv /\ NowhereInv /\ OneRequest

-----------------------------------------------------------------------------
(* What the steps do to logs and addresses.                                *)

\* A server that registers waits with a function it knows, at a node of the registry.
LEMMA JobFacts ==
    ASSUME IInv, NEW s \in Server, Waits(s, "register")
    PROVE  /\ job[s].func \in Func /\ job[s].to \in Register
           /\ Known(job[s].func, s)
BY DEF IInv, JobInv, Waits, Known

\* How often a server is in a list is a number.
LEMMA TimesType ==
    ASSUME NEW list \in Seq(Server), NEW s \in Server
    PROVE  Times(s, list) \in Nat
<1> DEFINE At == {k \in DOMAIN list : list[k] = s}
<1>1. IsFiniteSet(1..Len(list))
  BY FS_Interval
<1>2. At \in SUBSET (1..Len(list))
  OBVIOUS
<1>3. IsFiniteSet(At)
  BY <1>1, <1>2, FS_Subset
<1> QED BY <1>3, FS_CardinalityType DEF Times

\* A step writes nothing to a log, or a registration that has waited or was late.
LEMMA EnterStep ==
    ASSUME IInv, [Next]_vars
    PROVE  \/ UNCHANGED entered
           \/ \E s \in Server, f \in Func :
                 /\ Enter(f, s)
                 /\ \/ /\ UNCHANGED serverVars
                       /\ \E r \in Register : <<s, f, r>> \in late
                    \/ Registered(s) /\ job[s].func = f
<1>1. CASE \E s \in Server, f \in Func, r \in Register : HandleLate(s, f, r)
  BY <1>1 DEF HandleLate, serverVars
<1>2. CASE \E s \in Server : Registered(s)
  BY <1>2, JobFacts DEF Registered
<1>3. CASE UNCHANGED entered
  BY <1>3
<1> QED
  BY <1>1, <1>2, <1>3
     DEF Next, Registrations, Servers, Clients, Apply, Start, Run, Crash,
         registerFunc, deleteFunc, Redirected, RegisterTimeout, RedirectReturns,
         RedirectAgain, DeleteTimeout, DeleteSpins, Serve, Terminate, ClientStart,
         InitAnswered, InitTimeout, Call, Discover, DiscoverTimeout, CallTimeout, vars,
         regVars

\* A step applies at most one registration, of a server that knows the function.
LEMMA AddressStep ==
    ASSUME IInv, [Next]_vars
    PROVE  \/ UNCHANGED m_addresses
           \/ \E r \in Register, f \in Func, s \in Server :
                 /\ Known(f, s)
                 /\ m_addresses' = [m_addresses EXCEPT ![r][f] = Append(@, s)]
<1>1. ASSUME NEW r \in Register, NEW f \in Func, NEW s \in Server, Apply(r, f, s)
      PROVE  /\ Known(f, s)
             /\ m_addresses' = [m_addresses EXCEPT ![r][f] = Append(@, s)]
  <2>1. m_addresses[r][f] \in Seq(Server) /\ entered[f][s] \in Nat
    BY DEF IInv, TypeOK
  <2>2. Times(s, m_addresses[r][f]) \in Nat
    BY <2>1, TimesType
  <2>3. entered[f][s] > 0
    BY <1>1, <2>1, <2>2 DEF Apply
  <2> QED BY <1>1, <2>3 DEF Apply, IInv, KnownInv
<1>2. CASE UNCHANGED m_addresses
  BY <1>2
<1>3. CASE Registrations
  BY <1>1, <1>2, <1>3 DEF Registrations, HandleLate
<1>4. CASE Servers
  BY <1>2, <1>4
     DEF Servers, Start, Run, Crash, registerFunc, deleteFunc, Registered, Redirected,
         RegisterTimeout, RedirectReturns, RedirectAgain, DeleteTimeout, DeleteSpins, Serve,
         Terminate, regVars
<1>5. CASE Clients \/ UNCHANGED vars
  BY <1>2, <1>5
     DEF Clients, ClientStart, InitAnswered, InitTimeout, Call, Discover, DiscoverTimeout,
         CallTimeout, vars, regVars
<1> QED BY <1>3, <1>4, <1>5 DEF Next

\* Every step keeps the types of what nodes write and apply.
LEMMA AddressTypes ==
    ASSUME IInv, [Next]_vars
    PROVE  /\ entered' \in [Func -> [Server -> Nat]]
           /\ m_addresses' \in [Register -> [Func -> Seq(Server)]]
<1>1. /\ entered \in [Func -> [Server -> Nat]]
      /\ m_addresses \in [Register -> [Func -> Seq(Server)]]
  BY DEF IInv, TypeOK
<1>2. ASSUME NEW r \in Register, NEW f \in Func, NEW s \in Server,
             m_addresses' = [m_addresses EXCEPT ![r][f] = Append(@, s)]
      PROVE  m_addresses' \in [Register -> [Func -> Seq(Server)]]
  <2>1. Append(m_addresses[r][f], s) \in Seq(Server)
    BY <1>1
  <2> QED BY <1>1, <1>2, <2>1
<1>3. ASSUME NEW f \in Func, NEW s \in Server, Enter(f, s)
      PROVE  entered' \in [Func -> [Server -> Nat]]
  <2>1. entered[f][s] + 1 \in Nat
    BY <1>1
  <2> QED BY <1>1, <1>3, <2>1 DEF Enter
<1> QED BY <1>1, <1>2, <1>3, AddressStep, EnterStep

\* The lists of every node grow at their ends.
LEMMA AddressesGrow ==
    ASSUME IInv, [Next]_vars, NEW r \in Register, NEW f \in Func
    PROVE  \/ m_addresses'[r][f] = m_addresses[r][f]
           \/ \E s \in Server : /\ Known(f, s)
                                /\ m_addresses'[r][f] = Append(m_addresses[r][f], s)
<1>1. m_addresses \in [Register -> [Func -> Seq(Server)]]
  BY DEF IInv, TypeOK
<1>2. ASSUME NEW u \in Register, NEW g \in Func, NEW s \in Server, Known(g, s),
             m_addresses' = [m_addresses EXCEPT ![u][g] = Append(@, s)]
      PROVE  \/ m_addresses'[r][f] = m_addresses[r][f]
             \/ Known(f, s) /\ m_addresses'[r][f] = Append(m_addresses[r][f], s)
  <2>1. CASE u = r /\ g = f
    BY <1>1, <1>2, <2>1
  <2>2. CASE ~(u = r /\ g = f)
    BY <1>1, <1>2, <2>2
  <2> QED BY <2>1, <2>2
<1> QED BY <1>2, AddressStep

\* So what begins like them goes on to do so.
LEMMA StartsLikeStable ==
    ASSUME IInv, [Next]_vars, NEW r \in Register, NEW f \in Func, NEW list,
           StartsLike(list, m_addresses[r][f])
    PROVE  StartsLike(list, m_addresses'[r][f])
<1>1. m_addresses[r][f] \in Seq(Server)
  BY DEF IInv, TypeOK
<1>2. ASSUME NEW s \in Server, m_addresses'[r][f] = Append(m_addresses[r][f], s)
      PROVE  StartsLike(list, m_addresses'[r][f])
  <2> SUFFICES ASSUME list # <<>>
               PROVE  m_addresses'[r][f] # <<>> /\ list[1] = m_addresses'[r][f][1]
    BY DEF StartsLike
  <2>1. m_addresses[r][f] # <<>> /\ list[1] = m_addresses[r][f][1]
    BY DEF StartsLike
  <2>2. Len(m_addresses[r][f]) \in Nat /\ Len(m_addresses[r][f]) >= 1
    BY <1>1, <2>1
  <2>3. /\ Append(m_addresses[r][f], s)[1] = m_addresses[r][f][1]
        /\ Append(m_addresses[r][f], s) # <<>>
    BY <1>1, <2>2
  <2> QED BY <1>2, <2>1, <2>3
<1> QED BY <1>2, AddressesGrow

-----------------------------------------------------------------------------
(* What the steps do to the servers.                                       *)

\* What a server has known it has known until it starts anew.
LEMMA KnownStable ==
    ASSUME IInv, [Next]_vars, NEW s \in Server, NEW f \in Func, Known(f, s)
    PROVE  Known(f, s)'
<1> USE DEF IInv
<1>0. /\ life \in [Server -> Nat]
      /\ m_funcs \in [Server -> SUBSET Func]
      /\ outcome \in [Server -> [Func -> Outcome]]
  BY DEF TypeOK
<1>1. CASE UNCHANGED <<life, m_funcs, outcome>>
  BY <1>1 DEF Known
<1>2. ASSUME NEW u \in Server, Start(u) PROVE Known(f, s)'
  BY <1>0, <1>2 DEF Start, Known
<1>3. ASSUME NEW u \in Server, NEW g \in Func, registerFunc(u, g) PROVE Known(f, s)'
  BY <1>0, <1>3 DEF registerFunc, Known
<1>4. ASSUME NEW u \in Server, NEW g \in Func, deleteFunc(u, g) PROVE Known(f, s)'
  BY <1>0, <1>4 DEF deleteFunc, Known
<1>5. ASSUME NEW u \in Server, Registered(u) \/ RegisterTimeout(u) \/ RedirectReturns(u)
      PROVE  Known(f, s)'
  <2>1. UNCHANGED <<life, m_funcs>>
    BY <1>5 DEF Registered, RegisterTimeout, RedirectReturns
  <2>2. job[u].func \in m_funcs[u]
    BY <1>5 DEF Registered, RegisterTimeout, RedirectReturns, Waits, JobInv
  <2>3. \E result \in Outcome : outcome' = [outcome EXCEPT ![u][job[u].func] = result]
    BY <1>5 DEF Registered, RegisterTimeout, RedirectReturns, Returns, Outcome
  <2> QED BY <1>0, <2>1, <2>2, <2>3 DEF Known
<1>6. CASE Registrations \/ Clients
  BY <1>1, <1>6
     DEF Registrations, Clients, Apply, HandleLate, ClientStart,
         InitAnswered, InitTimeout, Call, Discover, DiscoverTimeout, CallTimeout, serverVars
<1>7. ASSUME NEW u \in Server,
             \/ Run(u) \/ Crash(u) \/ Redirected(u) \/ RedirectAgain(u) \/ DeleteTimeout(u)
             \/ DeleteSpins(u) \/ \E q \in requests : Serve(q, u) \/ Terminate(q, u)
      PROVE  Known(f, s)'
  BY <1>1, <1>7
     DEF Run, Crash, Redirected, RedirectAgain, DeleteTimeout, DeleteSpins, Serve, Terminate,
         serverVars
<1>8. CASE UNCHANGED vars
  BY <1>1, <1>8 DEF vars, serverVars
<1> QED BY <1>2, <1>3, <1>4, <1>5, <1>6, <1>7, <1>8 DEF Next, Servers

\* The types of what a server keeps, and what its coroutine is at.
LEMMA ServerKeeps ==
    ASSUME IInv, [Next]_vars
    PROVE  /\ sAt' \in [Server -> {"down", "up", "running", "terminated"}]
           /\ life' \in [Server -> Nat]
           /\ m_funcs' \in [Server -> SUBSET Func]
           /\ raftRegister' \in [Server -> Register \cup {Nil}]
           /\ job' \in [Server -> Job]
           /\ outcome' \in [Server -> [Func -> Outcome]]
           /\ JobInv'
<1> USE DEF IInv
<1>0. /\ sAt \in [Server -> {"down", "up", "running", "terminated"}]
      /\ life \in [Server -> Nat]
      /\ m_funcs \in [Server -> SUBSET Func]
      /\ raftRegister \in [Server -> Register \cup {Nil}]
      /\ job \in [Server -> Job]
      /\ outcome \in [Server -> [Func -> Outcome]]
  BY DEF TypeOK
<1>1. CASE UNCHANGED serverVars
  BY <1>0, <1>1 DEF serverVars, JobInv, IsUp
<1>2. CASE Registrations \/ Clients \/ UNCHANGED vars
  BY <1>1, <1>2
     DEF Registrations, Clients, Apply, HandleLate, ClientStart,
         InitAnswered, InitTimeout, Call, Discover, DiscoverTimeout, CallTimeout, vars
<1>3. ASSUME NEW s \in Server, Start(s) \/ Run(s) \/ Crash(s)
      PROVE  /\ sAt' \in [Server -> {"down", "up", "running", "terminated"}]
             /\ life' \in [Server -> Nat]
             /\ m_funcs' \in [Server -> SUBSET Func]
             /\ raftRegister' \in [Server -> Register \cup {Nil}]
             /\ job' \in [Server -> Job]
             /\ outcome' \in [Server -> [Func -> Outcome]]
             /\ JobInv'
  <2>1. CASE Start(s)
    <3>1. NoJob \in Job /\ [f \in Func |-> "none"] \in [Func -> Outcome]
      BY DEF NoJob, Job, Outcome
    <3>2. JobInv'
      BY <1>0, <2>1 DEF Start, JobInv, IsUp, NoJob
    <3> QED BY <1>0, <2>1, <3>1, <3>2 DEF Start
  <2>2. CASE Run(s)
    BY <1>0, <2>2 DEF Run, JobInv, IsUp
  <2>3. CASE Crash(s)
    BY <1>0, <2>3 DEF Crash, JobInv, IsUp
  <2> QED BY <1>3, <2>1, <2>2, <2>3
<1>4. ASSUME NEW s \in Server, NEW f \in Func, registerFunc(s, f) \/ deleteFunc(s, f)
      PROVE  /\ UNCHANGED <<sAt, life, raftRegister>>
             /\ m_funcs' \in [Server -> SUBSET Func]
             /\ job' \in [Server -> Job]
             /\ outcome' \in [Server -> [Func -> Outcome]]
             /\ JobInv'
  <2>0. getRegister(s) \in Register
    BY <1>0, RegistryAssumption DEF getRegister
  <2>1. PICK pc \in {"register", "delete"} :
            /\ job' = [job EXCEPT ![s] = [pc |-> pc, func |-> f, to |-> getRegister(s)]]
            /\ pc = "register" => f \in m_funcs'[s]
    BY <1>0, <1>4 DEF registerFunc, deleteFunc, Asks
  <2>2. /\ UNCHANGED <<sAt, life, raftRegister>>
        /\ m_funcs' \in [Server -> SUBSET Func]
        /\ \A u \in Server \ {s} : m_funcs'[u] = m_funcs[u]
        /\ outcome' \in [Server -> [Func -> Outcome]]
    <3>1. CASE registerFunc(s, f)
      BY <1>0, <3>1 DEF registerFunc
    <3>2. CASE deleteFunc(s, f)
      BY <1>0, <3>2 DEF deleteFunc, Outcome
    <3> QED BY <1>4, <3>1, <3>2
  <2>3. [pc |-> pc, func |-> f, to |-> getRegister(s)] \in Job
    BY <2>0 DEF Job
  <2>4. job' \in [Server -> Job] /\ \A u \in Server \ {s} : job'[u] = job[u]
    BY <1>0, <2>1, <2>3
  <2>5. IsUp(s)
    BY <1>4 DEF registerFunc, deleteFunc, Waits
  <2>6. /\ pc = "register" => outcome'[s][f] = "none"
        /\ \A u \in Server \ {s} : outcome'[u] = outcome[u]
    BY <1>0, <1>4, <2>1 DEF registerFunc, deleteFunc, Asks
  <2>7. ASSUME NEW u \in Server, u # s
        PROVE  /\ IsUp(u)' <=> IsUp(u)
               /\ UNCHANGED <<life[u], job[u], m_funcs[u], outcome[u]>>
    BY <2>2, <2>4, <2>6, <2>7 DEF IsUp
  <2>8. job'[s] = [pc |-> pc, func |-> f, to |-> getRegister(s)] /\ life'[s] >= 1
    BY <1>0, <2>1, <2>2, <2>5 DEF JobInv
  <2>9. JobInv'
    BY <2>0, <2>1, <2>6, <2>7, <2>8 DEF JobInv
  <2> QED BY <2>2, <2>4, <2>9
<1>5. ASSUME NEW s \in Server,
             \/ Registered(s) \/ RegisterTimeout(s) \/ RedirectReturns(s) \/ DeleteTimeout(s)
      PROVE  /\ UNCHANGED <<sAt, life, raftRegister, m_funcs>>
             /\ job' \in [Server -> Job]
             /\ outcome' \in [Server -> [Func -> Outcome]]
             /\ JobInv'
  <2>1. /\ UNCHANGED <<sAt, life, raftRegister, m_funcs>>
        /\ job' = [job EXCEPT ![s] = NoJob]
    BY <1>5 DEF Registered, RegisterTimeout, RedirectReturns, DeleteTimeout, Returns
  <2>2. outcome' \in [Server -> [Func -> Outcome]]
    BY <1>0, <1>5
       DEF Registered, RegisterTimeout, RedirectReturns, DeleteTimeout, Returns, Outcome
  <2>3. NoJob \in Job
    BY DEF NoJob, Job
  <2>4. \A u \in Server \ {s} : outcome'[u] = outcome[u]
    BY <1>0, <1>5 DEF Registered, RegisterTimeout, RedirectReturns, DeleteTimeout, Returns
  <2>5. JobInv'
    BY <1>0, <2>1, <2>4 DEF JobInv, IsUp, NoJob
  <2> QED BY <1>0, <2>1, <2>2, <2>3, <2>5
<1>6. ASSUME NEW s \in Server, Redirected(s) \/ RedirectAgain(s) \/ DeleteSpins(s)
      PROVE  /\ UNCHANGED <<sAt, life, m_funcs, outcome>>
             /\ raftRegister' \in [Server -> Register \cup {Nil}]
             /\ job' \in [Server -> Job]
             /\ JobInv'
  <2>0. getRegister(s) \in Register
    BY <1>0, RegistryAssumption DEF getRegister
  <2>1. /\ UNCHANGED <<sAt, life, m_funcs, outcome>>
        /\ raftRegister' \in [Server -> Register \cup {Nil}]
    BY <1>0, <1>6 DEF Redirected, Follows, RedirectAgain, DeleteSpins
  <2>2. /\ job[s].func \in Func /\ job[s].to \in Register /\ life[s] >= 1
        /\ job[s].pc \in {"register", "redirect"} => /\ job[s].func \in m_funcs[s]
                                                      /\ outcome[s][job[s].func] = "none"
        /\ job[s].pc \in {"register", "redirect", "delete"}
    BY <1>6 DEF Redirected, RedirectAgain, DeleteSpins, Waits, JobInv
  <2>3. PICK pc \in {"register", "redirect", "spin"}, r \in Register :
            /\ job' = [job EXCEPT ![s] = [pc |-> pc, func |-> job[s].func, to |-> r]]
            /\ pc # "spin" => job[s].pc \in {"register", "redirect"}
    BY <1>6, <2>0, <2>2 DEF Redirected, Follows, RedirectAgain, DeleteSpins, Asks, Waits
  <2>4. [pc |-> pc, func |-> job[s].func, to |-> r] \in Job
    BY <2>2 DEF Job
  <2>5. job' \in [Server -> Job] /\ \A u \in Server \ {s} : job'[u] = job[u]
    BY <1>0, <2>3, <2>4
  <2>6. JobInv'
    BY <1>0, <2>1, <2>2, <2>3, <2>5 DEF JobInv, IsUp
  <2> QED BY <2>1, <2>5, <2>6
<1>7. ASSUME NEW s \in Server, NEW q \in requests, Terminate(q, s)
      PROVE  /\ sAt' \in [Server -> {"down", "up", "running", "terminated"}]
             /\ UNCHANGED <<life, m_funcs, raftRegister, job, outcome>>
             /\ JobInv'
  BY <1>0, <1>7 DEF Terminate, JobInv, IsUp
<1>8. CASE \E s \in Server, q \in requests : Serve(q, s)
  BY <1>1, <1>8 DEF Serve
<1> QED
  BY <1>0, <1>2, <1>3, <1>4, <1>5, <1>6, <1>7, <1>8 DEF Next, Servers

\* A registration gets late when its sender gives up.
LEMMA LateKeeps ==
    ASSUME IInv, [Next]_vars
    PROVE  /\ late' \subseteq Server \X Func \X Register
           /\ \A s \in Server, f \in Func, r \in Register :
                 <<s, f, r>> \in late' =>
                     <<s, f, r>> \in late \/ (Waits(s, "register") /\ f = job[s].func)
<1>0. late \subseteq Server \X Func \X Register
  BY DEF IInv, TypeOK
<1>1. CASE late' \subseteq late
  BY <1>0, <1>1
<1>2. ASSUME NEW s \in Server, GivesUp(s)
      PROVE  /\ late' \subseteq Server \X Func \X Register
             /\ \A u \in Server, f \in Func, r \in Register :
                   <<u, f, r>> \in late' =>
                       <<u, f, r>> \in late \/ (Waits(u, "register") /\ f = job[u].func)
  BY <1>0, <1>2, JobFacts DEF GivesUp
<1>3. CASE \E s \in Server : GivesUp(s)
  BY <1>2, <1>3
<1>4. CASE Registrations
  BY <1>1, <1>4 DEF Registrations, Apply, HandleLate
<1>5. CASE Servers
  BY <1>1, <1>3, <1>5
     DEF Servers, Start, Run, Crash, registerFunc, deleteFunc, Registered, Redirected,
         RegisterTimeout, RedirectReturns, RedirectAgain, DeleteTimeout, DeleteSpins, Serve,
         Terminate
<1>6. CASE Clients \/ UNCHANGED vars
  BY <1>1, <1>6
     DEF Clients, ClientStart, InitAnswered, InitTimeout, Call, Discover, DiscoverTimeout,
         CallTimeout, vars
<1> QED BY <1>4, <1>5, <1>6 DEF Next

-----------------------------------------------------------------------------
(* What the steps do to the clients.                                       *)

\* The session a client gets for a call is one it had, or goes to its first address.
LEMMA SessionFacts ==
    ASSUME IInv, NEW c \in Client, NEW f \in Func, getRpcSession(c, f) # Nil
    PROVE  /\ getRpcSession(c, f) \in Session
           /\ \/ /\ m_servers[c][f] # Nil
                 /\ getRpcSession(c, f) = m_servers[c][f]
              \/ /\ m_pool[c][f] # <<>>
                 /\ getRpcSession(c, f).server = m_pool[c][f][1]
<1>0. /\ m_servers \in [Client -> [Func -> Session \cup {Nil}]]
      /\ m_pool[c][f] \in Seq(Server)
      /\ life \in [Server -> Nat]
  BY DEF IInv, TypeOK
<1>1. CASE m_servers[c][f] # Nil
  BY <1>0, <1>1 DEF getRpcSession
<1>2. CASE m_servers[c][f] = Nil
  <2>1. getRpcSession(c, f) = Connected(c, f)
    BY <1>2 DEF getRpcSession
  <2>2. m_pool[c][f] # <<>> /\ m_pool[c][f][1] \in Server
    BY <1>0, <2>1 DEF Connected, getAllAddress
  <2>3. getRpcSession(c, f) = [server |-> m_pool[c][f][1], life |-> life[m_pool[c][f][1]]]
    BY <2>1 DEF Connected, getAllAddress, FirstAddress
  <2> QED BY <1>0, <2>2, <2>3 DEF Session
<1> QED BY <1>1, <1>2

\* So a new session goes to a known server, the first of the list of the client's node.
LEMMA SessionIsFirst ==
    ASSUME IInv, NEW c \in Client, NEW f \in Func, getRpcSession(c, f) # Nil
    PROVE  /\ StartsLike(<<getRpcSession(c, f).server>>, m_addresses[Default[c]][f])
           /\ Known(f, getRpcSession(c, f).server)
           /\ getRpcSession(c, f).server \in Server
<1>1. CASE m_servers[c][f] # Nil /\ getRpcSession(c, f) = m_servers[c][f]
  BY <1>1, SessionFacts DEF IInv, FirstInv, KnownInv, Session
<1>2. CASE m_pool[c][f] # <<>> /\ getRpcSession(c, f).server = m_pool[c][f][1]
  <2>1. m_pool[c][f] \in Seq(Server)
    BY DEF IInv, TypeOK
  <2>2. 1 \in 1..Len(m_pool[c][f])
    BY <1>2, <2>1
  <2>3. Known(f, m_pool[c][f][1])
    BY <2>2 DEF IInv, KnownInv, AllKnown
  <2>4. StartsLike(<<m_pool[c][f][1]>>, m_addresses[Default[c]][f])
    BY <1>2 DEF IInv, FirstInv, StartsLike
  <2> QED BY <1>2, <2>1, <2>2, <2>3, <2>4
<1> QED BY <1>1, <1>2, SessionFacts

\* The pools and sessions of the clients.
LEMMA PoolStep ==
    ASSUME IInv, [Next]_vars
    PROVE  \/ UNCHANGED <<m_pool, m_servers>>
           \/ \E c \in Client : /\ m_pool' = [m_pool EXCEPT ![c] = m_addresses[Default[c]]]
                                /\ UNCHANGED m_servers
           \/ \E c \in Client, f \in Func :
                 /\ getRpcSession(c, f) # Nil
                 /\ m_servers' = [m_servers EXCEPT ![c][f] = getRpcSession(c, f)]
                 /\ UNCHANGED m_pool
<1>1. CASE Clients
  BY <1>1 DEF Clients, ClientStart, InitAnswered, InitTimeout, Call, Discover,
              DiscoverTimeout, CallTimeout
<1>2. CASE Registrations \/ UNCHANGED vars
  BY <1>2 DEF Registrations, Apply, HandleLate, vars, clientVars
<1>3. CASE Servers
  BY <1>3 DEF Servers, Start, Run, Crash, registerFunc, deleteFunc, Registered, Redirected,
              RegisterTimeout, RedirectReturns, RedirectAgain, DeleteTimeout, DeleteSpins,
              Serve, Terminate, clientVars
<1> QED BY <1>1, <1>2, <1>3 DEF Next

\* Every step keeps the pool of every client: addresses of servers, and sessions or none.
LEMMA PoolTypes ==
    ASSUME IInv, [Next]_vars
    PROVE  /\ m_pool' \in [Client -> [Func -> Seq(Server)]]
           /\ m_servers' \in [Client -> [Func -> Session \cup {Nil}]]
<1>0. /\ m_pool \in [Client -> [Func -> Seq(Server)]]
      /\ m_servers \in [Client -> [Func -> Session \cup {Nil}]]
      /\ \A c \in Client : m_addresses[Default[c]] \in [Func -> Seq(Server)]
  BY RegistryAssumption DEF IInv, TypeOK
<1>1. ASSUME NEW c \in Client, NEW f \in Func, getRpcSession(c, f) # Nil,
             m_servers' = [m_servers EXCEPT ![c][f] = getRpcSession(c, f)]
      PROVE  m_servers' \in [Client -> [Func -> Session \cup {Nil}]]
  <2>1. getRpcSession(c, f) \in Session
    BY <1>1, SessionFacts
  <2> QED BY <1>0, <1>1, <2>1
<1> QED BY <1>0, <1>1, PoolStep

\* Each session is the one it was, or one that was got for a call.
LEMMA ServersStep ==
    ASSUME IInv, [Next]_vars, NEW c \in Client, NEW f \in Func
    PROVE  \/ m_servers'[c][f] = m_servers[c][f]
           \/ getRpcSession(c, f) # Nil /\ m_servers'[c][f] = getRpcSession(c, f)
<1>0. m_servers \in [Client -> [Func -> Session \cup {Nil}]]
  BY DEF IInv, TypeOK
<1>1. CASE UNCHANGED m_servers
  BY <1>1
<1>2. ASSUME NEW d \in Client, NEW g \in Func, getRpcSession(d, g) # Nil,
             m_servers' = [m_servers EXCEPT ![d][g] = getRpcSession(d, g)]
      PROVE  \/ m_servers'[c][f] = m_servers[c][f]
             \/ getRpcSession(c, f) # Nil /\ m_servers'[c][f] = getRpcSession(c, f)
  <2>1. CASE d = c /\ g = f
    BY <1>0, <1>2, <2>1
  <2>2. CASE ~(d = c /\ g = f)
    BY <1>0, <1>2, <2>2
  <2> QED BY <2>1, <2>2
<1> QED BY <1>1, <1>2, PoolStep

\* A call adds the request that its client waits for; a timeout makes it late.
LEMMA RequestStep ==
    ASSUME IInv, [Next]_vars
    PROVE  /\ requests' \subseteq Request
           /\ \A q \in requests' : ~q.late => cAt'[q.from] = "call" /\ calling'[q.from] = q.func
           /\ OneRequest'
           /\ \A q \in requests' :
                 \/ \E p \in requests : q.func = p.func /\ q.on = p.on
                 \/ Known(q.func, q.on.server)
           /\ cAt' \in [Client -> {"new", "init", "ready", "discover", "call"}]
           /\ calling' \in [Client -> Func \cup {Nil}]
<1> USE DEF IInv
<1>0. /\ requests \subseteq Request
      /\ \A q \in requests : ~q.late => cAt[q.from] = "call" /\ calling[q.from] = q.func
      /\ \A q \in requests : q.from \in Client /\ q.late \in BOOLEAN
      /\ cAt \in [Client -> {"new", "init", "ready", "discover", "call"}]
      /\ calling \in [Client -> Func \cup {Nil}]
  BY DEF TypeOK, Request
<1> DEFINE Goal == /\ requests' \subseteq Request
                   /\ \A q \in requests' :
                         ~q.late => cAt'[q.from] = "call" /\ calling'[q.from] = q.func
                   /\ OneRequest'
                   /\ \A q \in requests' :
                         \/ \E p \in requests : q.func = p.func /\ q.on = p.on
                         \/ Known(q.func, q.on.server)
                   /\ cAt' \in [Client -> {"new", "init", "ready", "discover", "call"}]
                   /\ calling' \in [Client -> Func \cup {Nil}]
<1>1. CASE requests' \subseteq requests /\ UNCHANGED <<cAt, calling>>
  BY <1>0, <1>1 DEF OneRequest
<1>2. ASSUME NEW c \in Client, UNCHANGED requests, cAt[c] # "call",
             \/ /\ cAt' = [cAt EXCEPT ![c] = "init"] /\ UNCHANGED calling
             \/ /\ cAt' = [cAt EXCEPT ![c] = "ready"] /\ UNCHANGED calling
             \/ Back(c)
             \/ \E f \in Func : /\ cAt' = [cAt EXCEPT ![c] = "discover"]
                                /\ calling' = [calling EXCEPT ![c] = f]
      PROVE  Goal
  <2>1. \A q \in requests : ~q.late => q.from # c
    BY <1>0, <1>2
  <2>2. \A d \in Client \ {c} : cAt'[d] = cAt[d] /\ calling'[d] = calling[d]
    BY <1>0, <1>2 DEF Back
  <2>3. /\ cAt' \in [Client -> {"new", "init", "ready", "discover", "call"}]
        /\ calling' \in [Client -> Func \cup {Nil}]
    BY <1>0, <1>2 DEF Back
  <2>4. OneRequest'
    BY <1>2 DEF OneRequest
  <2> QED BY <1>0, <1>2, <2>1, <2>2, <2>3, <2>4
<1>3. ASSUME NEW c \in Client, NEW f \in Func, Call(c, f) PROVE Goal
  <2> DEFINE session == getRpcSession(c, f)
             new == [from |-> c, func |-> f, on |-> session, late |-> FALSE]
  <2>1. session # Nil /\ cAt[c] = "ready"
    BY <1>3 DEF Call
  <2>2. session \in Session /\ Known(f, session.server)
    BY <2>1, SessionFacts, SessionIsFirst
  <2> HIDE DEF session
  <2>3. /\ requests' = requests \cup {new}
        /\ cAt' = [cAt EXCEPT ![c] = "call"]
        /\ calling' = [calling EXCEPT ![c] = f]
    BY <1>3 DEF Call, session
  <2>4. new \in Request
    BY <2>2 DEF Request
  <2>5. \A q \in requests : ~q.late => q.from # c
    BY <1>0, <2>1
  <2>6. OneRequest'
    <3>1. \A q \in requests' : q \in requests \/ q = new
      BY <2>3
    <3>2. new.from = c
      OBVIOUS
    <3> QED BY <2>5, <3>1, <3>2 DEF OneRequest
  <2>7. \A q \in requests' : ~q.late => cAt'[q.from] = "call" /\ calling'[q.from] = q.func
    BY <1>0, <2>3, <2>5
  <2>8. /\ cAt' \in [Client -> {"new", "init", "ready", "discover", "call"}]
        /\ calling' \in [Client -> Func \cup {Nil}]
    BY <1>0, <2>3
  <2>9. \A q \in requests' : \/ \E p \in requests : q.func = p.func /\ q.on = p.on
                             \/ Known(q.func, q.on.server)
    BY <2>2, <2>3
  <2> QED BY <1>0, <2>3, <2>4, <2>6, <2>7, <2>8, <2>9
<1>4. ASSUME NEW c \in Client, CallTimeout(c) PROVE Goal
  <2>1. /\ requests' = {IF q \in Current(c) THEN [q EXCEPT !.late = TRUE] ELSE q : q \in requests}
        /\ Back(c)
    BY <1>4 DEF CallTimeout
  <2>2. \A q \in requests' :
           \E p \in requests : \/ q = p /\ (q.late \/ q.from # c)
                               \/ q = [p EXCEPT !.late = TRUE]
    BY <1>0, <2>1 DEF Current
  <2>3. \A p \in requests : LET q == [p EXCEPT !.late = TRUE] IN
           /\ q \in Request /\ q.late /\ q.func = p.func /\ q.on = p.on
    BY <1>0 DEF Request
  <2>4. \A q \in requests' : /\ q \in Request
                             /\ ~q.late => q \in requests /\ q.from # c
                             /\ \E p \in requests : q.func = p.func /\ q.on = p.on
    <3> SUFFICES ASSUME NEW q \in requests'
                 PROVE  /\ q \in Request
                        /\ ~q.late => q \in requests /\ q.from # c
                        /\ \E p \in requests : q.func = p.func /\ q.on = p.on
      OBVIOUS
    <3>1. PICK p \in requests : \/ q = p /\ (q.late \/ q.from # c)
                               \/ q = [p EXCEPT !.late = TRUE]
      BY <2>2
    <3>2. CASE q = p /\ (q.late \/ q.from # c)
      BY <1>0, <3>2
    <3>3. CASE q = [p EXCEPT !.late = TRUE]
      <4>1. q \in Request /\ q.late /\ q.func = p.func /\ q.on = p.on
        BY <2>3, <3>3
      <4> QED BY <4>1
    <3> QED BY <3>1, <3>2, <3>3
  <2>5. /\ cAt' \in [Client -> {"new", "init", "ready", "discover", "call"}]
        /\ calling' \in [Client -> Func \cup {Nil}]
        /\ \A d \in Client \ {c} : cAt'[d] = cAt[d] /\ calling'[d] = calling[d]
    BY <1>0, <2>1 DEF Back
  <2>6. OneRequest'
    BY <2>4 DEF OneRequest
  <2> QED BY <1>0, <2>4, <2>5, <2>6
<1>5. ASSUME NEW q \in requests, NEW s \in Server, Serve(q, s) PROVE Goal
  <2>1. requests' = requests \ {q}
    BY <1>5 DEF Serve
  <2>2. CASE q.late
    BY <1>1, <1>5, <2>1, <2>2 DEF Serve
  <2>3. CASE ~q.late
    <3>1. Back(q.from)
      BY <1>5, <2>3 DEF Serve
    <3>2. \A p \in requests' : p \in requests /\ (~p.late => p.from # q.from)
      BY <2>1, <2>3 DEF OneRequest
    <3>3. /\ cAt' \in [Client -> {"new", "init", "ready", "discover", "call"}]
          /\ calling' \in [Client -> Func \cup {Nil}]
          /\ \A d \in Client \ {q.from} : cAt'[d] = cAt[d] /\ calling'[d] = calling[d]
      BY <1>0, <3>1 DEF Back
    <3>4. OneRequest'
      BY <2>1 DEF OneRequest
    <3> QED BY <1>0, <3>2, <3>3, <3>4
  <2> QED BY <2>2, <2>3
<1>6. CASE Clients
  BY <1>2, <1>3, <1>4, <1>6
     DEF Clients, ClientStart, InitAnswered, InitTimeout, Discover, DiscoverTimeout
<1>7. CASE Registrations \/ UNCHANGED vars
  BY <1>1, <1>7 DEF Registrations, Apply, HandleLate, vars, clientVars
<1>8. CASE Servers
  BY <1>1, <1>5, <1>8
     DEF Servers, Start, Run, Crash, registerFunc, deleteFunc, Registered, Redirected,
         RegisterTimeout, RedirectReturns, RedirectAgain, DeleteTimeout, DeleteSpins,
         Terminate, clientVars
<1> QED BY <1>6, <1>7, <1>8 DEF Next

-----------------------------------------------------------------------------
(* The invariants.                                                         *)

\* No step breaks a type.
LEMMA TypeKeeps == ASSUME IInv, [Next]_vars PROVE TypeOK'
BY AddressTypes, ServerKeeps, LateKeeps, PoolTypes, RequestStep DEF TypeOK

\* No step puts a server in front of the first one of a function.
LEMMA FirstKeeps == ASSUME IInv, [Next]_vars PROVE FirstInv'
<1> USE DEF IInv
<1> SUFFICES ASSUME NEW c \in Client, NEW f \in Func
             PROVE  /\ StartsLike(m_pool'[c][f], m_addresses'[Default[c]][f])
                    /\ m_servers'[c][f] # Nil =>
                          StartsLike(<<m_servers'[c][f].server>>, m_addresses'[Default[c]][f])
  BY DEF FirstInv, StartsLike
<1>0. Default[c] \in Register /\ m_pool \in [Client -> [Func -> Seq(Server)]]
  BY RegistryAssumption DEF TypeOK
<1>1. StartsLike(m_pool'[c][f], m_addresses[Default[c]][f])
  <2>1. m_pool'[c][f] = m_pool[c][f] \/ m_pool'[c][f] = m_addresses[Default[c]][f]
    BY <1>0, PoolStep
  <2>2. StartsLike(m_pool[c][f], m_addresses[Default[c]][f])
    BY DEF FirstInv
  <2> QED BY <2>1, <2>2 DEF StartsLike
<1>2. ASSUME m_servers'[c][f] # Nil
      PROVE  StartsLike(<<m_servers'[c][f].server>>, m_addresses[Default[c]][f])
  <2>1. CASE m_servers'[c][f] = m_servers[c][f]
    BY <1>2, <2>1 DEF FirstInv
  <2>2. CASE getRpcSession(c, f) # Nil /\ m_servers'[c][f] = getRpcSession(c, f)
    BY <2>2, SessionIsFirst
  <2> QED BY <2>1, <2>2, ServersStep
<1> QED BY <1>0, <1>1, <1>2, StartsLikeStable

\* No step puts a server anywhere among those of a function that it has never had.
LEMMA KnownKeeps == ASSUME IInv, [Next]_vars PROVE KnownInv'
<1> USE DEF IInv
<1>0. /\ entered \in [Func -> [Server -> Nat]]
      /\ \A c \in Client : Default[c] \in Register
      /\ m_addresses \in [Register -> [Func -> Seq(Server)]]
      /\ m_pool \in [Client -> [Func -> Seq(Server)]]
      /\ m_servers \in [Client -> [Func -> Session \cup {Nil}]]
      /\ requests \subseteq Request
  BY RegistryAssumption DEF TypeOK
<1>1. ASSUME NEW list \in Seq(Server), NEW f \in Func, AllKnown(list, f)
      PROVE  \A k \in 1..Len(list) : Known(f, list[k])'
  <2> SUFFICES ASSUME NEW k \in 1..Len(list), NEW s, s = list[k] PROVE Known(f, s)'
    BY DEF Known
  <2>1. s \in Server /\ Known(f, s)
    BY <1>1 DEF AllKnown
  <2> QED BY <2>1, KnownStable
<1>2. \A r \in Register, f \in Func : AllKnown(m_addresses[r][f], f)'
  <2> SUFFICES ASSUME NEW r \in Register, NEW f \in Func
               PROVE  AllKnown(m_addresses[r][f], f)'
    OBVIOUS
  <2>2. AllKnown(m_addresses[r][f], f) /\ m_addresses[r][f] \in Seq(Server)
    BY <1>0 DEF KnownInv
  <2>3. CASE m_addresses'[r][f] = m_addresses[r][f]
    BY <1>1, <2>2, <2>3 DEF AllKnown
  <2>4. ASSUME NEW s \in Server, Known(f, s),
               m_addresses'[r][f] = Append(m_addresses[r][f], s)
        PROVE  AllKnown(m_addresses[r][f], f)'
    <3>1. AllKnown(Append(m_addresses[r][f], s), f)
      BY <2>2, <2>4 DEF AllKnown
    <3>2. Append(m_addresses[r][f], s) \in Seq(Server)
      BY <2>2
    <3> QED BY <1>1, <2>4, <3>1, <3>2 DEF AllKnown
  <2> QED BY <2>3, <2>4, AddressesGrow
<1>3. \A c \in Client, f \in Func : AllKnown(m_pool[c][f], f)'
  <2> SUFFICES ASSUME NEW c \in Client, NEW f \in Func PROVE AllKnown(m_pool[c][f], f)'
    OBVIOUS
  <2>1. m_pool'[c][f] = m_pool[c][f] \/ m_pool'[c][f] = m_addresses[Default[c]][f]
    BY <1>0, PoolStep
  <2>2. AllKnown(m_pool[c][f], f) /\ AllKnown(m_addresses[Default[c]][f], f)
    BY <1>0 DEF KnownInv
  <2> QED BY <1>0, <1>1, <2>1, <2>2 DEF AllKnown
<1>4. ASSUME NEW c \in Client, NEW f \in Func, m_servers'[c][f] # Nil
      PROVE  Known(f, m_servers[c][f].server)'
  <2>1. PICK s \in Server : s = m_servers'[c][f].server /\ Known(f, s)
    <3>1. CASE m_servers'[c][f] = m_servers[c][f]
      BY <1>0, <1>4, <3>1 DEF KnownInv, Session
    <3>2. CASE getRpcSession(c, f) # Nil /\ m_servers'[c][f] = getRpcSession(c, f)
      BY <3>2, SessionIsFirst
    <3> QED BY <3>1, <3>2, ServersStep
  <2>2. Known(f, s)'
    BY <2>1, KnownStable
  <2> QED BY <2>1, <2>2 DEF Known
<1>5. ASSUME NEW q \in requests' PROVE Known(q.func, q.on.server)'
  <2>1. q \in Request
    BY RequestStep
  <2>2. q.func \in Func /\ q.on.server \in Server
    BY <2>1 DEF Request, Session
  <2>3. Known(q.func, q.on.server)
    BY RequestStep DEF KnownInv
  <2> QED BY <2>2, <2>3, KnownStable
<1>6. ASSUME NEW s \in Server, NEW f \in Func, NEW r \in Register, <<s, f, r>> \in late'
      PROVE  Known(f, s)'
  <2>1. Known(f, s)
    BY <1>6, LateKeeps, JobFacts DEF KnownInv
  <2> QED BY <2>1, KnownStable
<1>7. ASSUME NEW s \in Server, NEW f \in Func, entered'[f][s] > 0 PROVE Known(f, s)'
  <2>0. entered[f][s] > 0 => Known(f, s)
    BY DEF KnownInv
  <2>1. CASE UNCHANGED entered
    BY <1>7, <2>0, <2>1, KnownStable
  <2>2. CASE ~UNCHANGED entered
    <3>1. PICK u \in Server, g \in Func :
              /\ Enter(g, u)
              /\ \/ \E r \in Register : <<u, g, r>> \in late
                 \/ Registered(u) /\ job[u].func = g
      BY <2>2, EnterStep
    <3>2. Known(g, u)
      BY <3>1, JobFacts DEF Registered, KnownInv
    <3>3. CASE u = s /\ g = f
      BY <3>2, <3>3, KnownStable
    <3>4. CASE ~(u = s /\ g = f)
      <4>1. entered'[f][s] = entered[f][s]
        BY <1>0, <3>1, <3>4 DEF Enter
      <4> QED BY <1>7, <2>0, <4>1, KnownStable
    <3> QED BY <3>3, <3>4
  <2> QED BY <2>1, <2>2
<1> QED BY <1>2, <1>3, <1>4, <1>5, <1>6, <1>7 DEF KnownInv

\* A registration that is open was open before, and is not sent off or written.
LEMMA OpenStep ==
    ASSUME IInv, [Next]_vars, NEW s \in Server, NEW f \in Func, Open(s, f)'
    PROVE  /\ Open(s, f)
           /\ ~(Registered(s) /\ job[s].func = f)
           /\ \A r \in Register : <<s, f, r>> \in late' => <<s, f, r>> \in late
<1> USE DEF IInv
<1>0. /\ life \in [Server -> Nat]
      /\ sAt \in [Server -> {"down", "up", "running", "terminated"}]
      /\ outcome \in [Server -> [Func -> Outcome]]
      /\ late \subseteq Server \X Func \X Register
  BY DEF TypeOK
<1>1. ~(Registered(s) /\ job[s].func = f)
  BY <1>0, JobFacts DEF Registered, Returns, Waits, JobInv, Open
<1> DEFINE Goal == /\ Open(s, f)
                   /\ \A r \in Register : <<s, f, r>> \in late' => <<s, f, r>> \in late
<1>2. ASSUME UNCHANGED <<sAt, life, outcome>>, late' \subseteq late PROVE Goal
  BY <1>2 DEF Open, IsUp
<1>3. ASSUME NEW u \in Server, Start(u) \/ Run(u) PROVE Goal
  <2>1. CASE Start(u)
    <3>1. CASE u = s
      <4>1. late' = late /\ life[s] = 0
        BY <1>0, <2>1, <3>1 DEF Start, Open
      <4> QED BY <4>1 DEF Open
    <3>2. CASE u # s
      <4>1. UNCHANGED <<late, life[s], outcome[s], sAt[s]>>
        BY <1>0, <2>1, <3>2 DEF Start
      <4> QED BY <4>1 DEF Open, IsUp
    <3> QED BY <3>1, <3>2
  <2>2. CASE Run(u)
    <3>1. UNCHANGED <<late, life, outcome>> /\ (IsUp(s)' => IsUp(s))
      BY <1>0, <2>2 DEF Run, IsUp
    <3> QED BY <3>1 DEF Open
  <2> QED BY <1>3, <2>1, <2>2
<1>4. ASSUME NEW u \in Server, Crash(u) \/ \E q \in requests : Terminate(q, u) PROVE Goal
  <2>1. /\ UNCHANGED <<life, outcome>> /\ GivesUp(u)
        /\ \/ sAt' = [sAt EXCEPT ![u] = "down"]
           \/ sAt' = [sAt EXCEPT ![u] = "terminated"]
    BY <1>4 DEF Crash, Terminate
  <2>2. CASE u = s
    <3>1. ~IsUp(s)'
      BY <1>0, <2>1, <2>2 DEF IsUp
    <3>2. Open(s, f)
      BY <2>1, <3>1 DEF Open
    <3>3. ~(Waits(s, "register") /\ job[s].func = f)
      BY <1>0, <2>1, <3>1 DEF Open, Waits, JobInv
    <3> QED BY <2>1, <2>2, <3>2, <3>3 DEF GivesUp
  <2>3. CASE u # s
    <3>1. IsUp(s)' <=> IsUp(s)
      BY <1>0, <2>1, <2>3 DEF IsUp
    <3> QED BY <2>1, <2>3, <3>1 DEF Open, GivesUp
  <2> QED BY <2>2, <2>3
<1>5. ASSUME NEW u \in Server, Registered(u) \/ RegisterTimeout(u) \/ RedirectReturns(u)
      PROVE  Goal
  <2>1. /\ UNCHANGED <<sAt, life>>
        /\ job[u].func \in Func /\ outcome[u][job[u].func] = "none" /\ IsUp(u)
        /\ \E result \in {"registered", "timeout", "redirected"} :
              /\ outcome' = [outcome EXCEPT ![u][job[u].func] = result]
              /\ RegisterTimeout(u) => result = "timeout"
        /\ late' \subseteq late \/ (RegisterTimeout(u) /\ GivesUp(u))
    BY <1>5 DEF Registered, RegisterTimeout, RedirectReturns, Returns, Waits, JobInv
  <2>2. CASE u = s /\ job[u].func = f
    <3>1. ~RegisterTimeout(u)
      BY <1>0, <2>1, <2>2, JobFacts DEF Open, RegisterTimeout, Waits, JobInv
    <3> QED BY <1>0, <2>1, <2>2, <3>1 DEF Open
  <2>3. CASE ~(u = s /\ job[u].func = f)
    <3>1. outcome'[s][f] = outcome[s][f]
      BY <1>0, <2>1, <2>3
    <3> QED BY <2>1, <2>3, <3>1 DEF Open, IsUp, GivesUp
  <2> QED BY <2>2, <2>3
<1>6. ASSUME NEW u \in Server, NEW g \in Func, deleteFunc(u, g) PROVE Goal
  BY <1>0, <1>6 DEF deleteFunc, Open, IsUp
<1>7. CASE Registrations \/ Clients \/ UNCHANGED vars
  <2>1. UNCHANGED serverVars
    BY <1>7
       DEF Registrations, Clients, Apply, HandleLate, ClientStart, InitAnswered,
           InitTimeout, Call, Discover, DiscoverTimeout, CallTimeout, vars
  <2>2. late' \subseteq late
    BY <1>7
       DEF Registrations, Clients, Apply, HandleLate, ClientStart, InitAnswered,
           InitTimeout, Call, Discover, DiscoverTimeout, CallTimeout, vars
  <2>3. UNCHANGED <<sAt, life, outcome>>
    BY <2>1 DEF serverVars
  <2> QED BY <1>1, <1>2, <2>2, <2>3
<1>8. ASSUME NEW u \in Server,
             \/ Redirected(u) \/ RedirectAgain(u) \/ DeleteTimeout(u) \/ DeleteSpins(u)
             \/ \E g \in Func : registerFunc(u, g)
             \/ \E q \in requests : Serve(q, u)
      PROVE  Goal
  BY <1>2, <1>8
     DEF Redirected, RedirectAgain, DeleteTimeout, DeleteSpins, registerFunc, Serve,
         serverVars
<1>9. Goal
  BY <1>3, <1>4, <1>5, <1>6, <1>7, <1>8 DEF Next, Servers
<1> QED BY <1>1, <1>9

\* What is open is nowhere.
LEMMA NowhereKeeps == ASSUME IInv, [Next]_vars PROVE NowhereInv'
<1> USE DEF IInv
<1> SUFFICES ASSUME NEW s \in Server, NEW f \in Func, Open(s, f)'
             PROVE  /\ entered'[f][s] = 0
                    /\ \A r \in Register : <<s, f, r>> \notin late'
  BY DEF NowhereInv
<1>0. entered \in [Func -> [Server -> Nat]]
  BY DEF TypeOK
<1>1. entered[f][s] = 0 /\ \A r \in Register : <<s, f, r>> \notin late
  BY OpenStep DEF NowhereInv
<1>2. \A r \in Register : <<s, f, r>> \notin late'
  BY <1>1, OpenStep
<1>3. ASSUME NEW u \in Server, NEW g \in Func, Enter(g, u), ~(u = s /\ g = f)
      PROVE  entered'[f][s] = 0
  BY <1>0, <1>1, <1>3 DEF Enter
<1> QED BY <1>1, <1>2, <1>3, EnterStep, OpenStep

-----------------------------------------------------------------------------
(* The specification.                                                      *)

\* The invariant holds before anything is registered.
LEMMA InitInv == Init => IInv
<1> SUFFICES ASSUME Init PROVE IInv
  OBVIOUS
<1>1. NoJob \in Job
  BY DEF NoJob, Job
<1>2. TypeOK
  BY <1>1, RegistryAssumption DEF Init, TypeOK, Outcome, Request
<1>3. FirstInv /\ KnownInv
  BY RegistryAssumption DEF Init, FirstInv, StartsLike, KnownInv, AllKnown
<1>4. JobInv /\ NowhereInv /\ OneRequest
  BY DEF Init, JobInv, NowhereInv, IsUp, NoJob, OneRequest
<1> QED BY <1>2, <1>3, <1>4 DEF IInv

\* Every step keeps the invariant.
LEMMA NextInv == IInv /\ [Next]_vars => IInv'
<1> SUFFICES ASSUME IInv, [Next]_vars PROVE IInv'
  OBVIOUS
<1> QED
  BY TypeKeeps, FirstKeeps, KnownKeeps, ServerKeeps, NowhereKeeps, RequestStep DEF IInv

\* The variables keep their types, and every request that is not late is waited for
\* (rpc_client.h:66-134).
THEOREM RegistryType == Spec => []TypeOK
BY InitInv, NextInv, PTL DEF Spec, IInv

\* In its first life a server whose registration ended with a redirect, and counts as a
\* success, is in no log for that function nor on its way there (rpc_server.cpp:172-188).
THEOREM RedirectedNowhere == Spec => []RedirectedIsNowhere
<1>1. IInv => RedirectedIsNowhere
  BY DEF IInv, NowhereInv, Open, RedirectedIsNowhere
<1> QED BY <1>1, InitInv, NextInv, PTL DEF Spec

\* A server that was never started anew is asked for nothing that it never had
\* (rpc_server.h:45-60).
THEOREM FirstLifeIsAsked == Spec => []FunctionIsThere
<1>1. IInv => FunctionIsThere
  BY DEF IInv, KnownInv, Known, FunctionIsThere
<1> QED BY <1>1, InitInv, NextInv, PTL DEF Spec

\* A client makes all calls of a function to the server that its configured node applied
\* first (rpc_connection_pool.cpp:146-180).
THEOREM AllCallTheFirst == Spec => []EveryoneCallsTheFirst
<1>1. IInv => EveryoneCallsTheFirst
  BY DEF IInv, FirstInv, StartsLike, FirstAddress, EveryoneCallsTheFirst
<1> QED BY <1>1, InitInv, NextInv, PTL DEF Spec

=============================================================================
