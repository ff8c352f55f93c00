----------------------------- MODULE MCServices -----------------------------
(* The services around the statements on small instances: a behaviour is     *)
(* one of Admin (its collectors or its sessions), of Frontends (access over  *)
(* HTTP, or all frontends at once), or of Server, as part says.  The parts   *)
(* share no state, so looking at them one at a time loses nothing; the       *)
(* others stay in one of their initial states.                               *)
EXTENDS Admin, Frontends, Server

CONSTANTS d1, f1, v1, v2, c1, c2, p1, q1

VARIABLE part

allVars == <<part, vars, frontVars, serverVars>>

(* Instances collect the tables dropped by an earlier release; sessions      *)
(* create databases, create, replace, drop and call functions.               *)
DroppedTables == <<"PENDING", "RETRY", "FAILED">>
AdminRequest(op, name, def, opt) == [op |-> op, names |-> <<name>>, def |-> def, opt |-> opt]
AdminRequests ==
  {AdminRequest("create_database", d1, v1, TRUE),
   AdminRequest("create_function", f1, v1, FALSE), AdminRequest("create_function", f1, v2, TRUE),
   AdminRequest("drop_function", f1, v1, TRUE), AdminRequest("call", f1, v1, FALSE)}

Query(front, token, stmts) == [front |-> front, token |-> token, stmts |-> stmts, parts |-> <<>>]
Form(token, parts) == [front |-> "upload", token |-> token, stmts |-> <<>>, parts |-> parts]

Stored == {NoDefs, [f \in {f1} |-> v1]}

(* Every pair of settings, tokens right and wrong, every short query and     *)
(* forms with their parts in every order; and a one-off command alone.       *)
AccessPolicies == [read : {"any", "off", "r"}, write : {"any", "off", "w", "r"}]
StatementLists == {<<>>} \cup {<<k>> : k \in Statements} \cup {<<k, l>> : k, l \in Statements}
                    \cup {<<"write", "write", "read">>, <<"write", "read", "write">>}
Forms == {<<>>, <<"schema", "csv">>, <<"csv", "schema">>, <<"has_header", "csv", "csv">>,
          <<"csv", "has_header">>, <<"csv", "exe">>, <<"unnamed">>, <<"csv", "broken">>}
HttpRequests == {Query(f, t, q) : f \in {"get", "post"}, t \in Tokens, q \in StatementLists}
                  \cup {Form(t, p) : t \in Tokens, p \in Forms}
                  \cup {Query("one_off", "none", <<"write", "read">>)}

(* All frontends at once, up to MaxRequests; everything is allowed. *)
Open == [read |-> "any", write |-> "any"]
MixedRequests ==
  {Query("post", "none", <<"write", "read">>), Query("cli", "none", <<"read", "write", "read">>),
   Query("cli", "none", <<>>), Query("postgres", "none", <<"write">>), Query("flight", "none", <<"read">>),
   Query("flight", "none", <<"write">>), Query("do_get", "none", <<>>)}
AllRequests == HttpRequests \cup MixedRequests

S(c, s, fs, g) == [catalog |-> c, store |-> s, region |-> FALSE, low_memory |-> FALSE,
                   frontends |-> fs, gc |-> g]
ConfigFile(s) == [default_path |-> FALSE, exists |-> TRUE, settings |-> s, one_off |-> FALSE]
NoSettings == S("none", "none", {}, FALSE)
NoFile == [default_path |-> TRUE, exists |-> FALSE, settings |-> NoSettings, one_off |-> FALSE]
Both(g) == [p \in {p1, q1} |-> g]
Alike(gs) == {Both(g) : g \in gs}

(* Two processes: every pairing of catalog and store with one frontend, one  *)
(* of them read-only, no file, a one-off command, and settings that are      *)
(* refused; and processes with several frontends and a garbage collector.    *)
Pairings == {S(c, s, {"http"}, FALSE) : c \in {"memory", "file", "postgres"},
                                        s \in {"none", "memory", "local"}}
OneReadOnly ==
  {[p \in {p1, q1} |-> ConfigFile(S(IF p = q THEN "read_only" ELSE "file", "local", {"http"}, FALSE))]
     : q \in {p1, q1}}
RefusedSettings == {[S("memory", "memory", {"http"}, FALSE) EXCEPT !.low_memory = TRUE],
                    S("file", "s3", {"http"}, FALSE)}
Several == S("file", "local", {"http", "postgres"}, TRUE)
OneServes ==
  [p \in {p1, q1} |-> ConfigFile(IF p = p1 THEN Several ELSE S("file", "s3", {"http"}, FALSE))]
Deployments ==
  Alike({ConfigFile(s) : s \in Pairings \cup RefusedSettings}) \cup OneReadOnly \cup {OneServes}
    \cup Alike({NoFile, [NoFile EXCEPT !.default_path = FALSE],
               [ConfigFile(S("file", "local", {"http"}, FALSE)) EXCEPT !.one_off = TRUE],
               ConfigFile(S("none", "none", {"flight"}, TRUE)),
               ConfigFile(S("file", "s3", {"flight", "http"}, FALSE))})

ASSUME ServicesAssumption == ParametersOK /\ FrontParametersOK /\ ServerParametersOK

MCInit ==
  /\ part \in {"gc", "sessions", "http", "mixed", "server"}
  /\ Init /\ FrontInit /\ ServerInit
  /\ part # "sessions" => db.functions = NoDefs
  /\ part # "http" => policy = Open
  /\ part # "server" => given = Both(NoFile)

MCNext ==
  /\ UNCHANGED part
  /\ \/ /\ \/ part = "gc" /\ \E i \in Instances : Collect(i) \/ Restart(i)
           \/ part = "sessions" /\ \E s \in Sessions : Statement(s)
        /\ UNCHANGED <<frontVars, serverVars>>
     \/ /\ \/ /\ part = "http"
              /\ (sent = 0 /\ \E r \in HttpRequests : Send(c1, r)) \/ Serve(c1)
           \/ /\ part = "mixed"
              /\ \E c \in Clients : (\E r \in MixedRequests : Send(c, r)) \/ Serve(c)
        /\ UNCHANGED <<vars, serverVars>>
     \/ part = "server" /\ ServerNext /\ UNCHANGED <<vars, frontVars>>

(* The fairness of the modules: a collector is run again and again, a        *)
(* process is started again, and a shutdown goes on to its end or timeout.   *)
Fairness ==
  /\ \A i \in Instances : WF_vars(part = "gc" /\ Collect(i))
  /\ \A p \in {p1, q1} :
       /\ WF_serverVars(part = "server" /\ Startup(p))
       /\ WF_serverVars(part = "server" /\ (Finish(p) \/ ShutdownTimeout(p)))

MCSpec == MCInit /\ [][MCNext]_allVars /\ Fairness

(* Every dropped table is eventually deleted or left for manual deletion,    *)
(* although attempts fail, statuses are not written and processes restart.   *)
GcSettles == \A u \in DOMAIN InitialStatus : <>(part = "gc" => Settled(u))

(* A process that was asked to stop ends, whatever its requests and its      *)
(* garbage collection do, and if it reports a clean exit it answered every   *)
(* HTTP and Flight request it had accepted (the graceful shutdown of both).  *)
ShutdownIsGraceful ==
  /\ []CleanExitAnswersAll
  /\ \A p \in {p1, q1} :
       (part = "server" /\ phase[p] = "stopping") ~> (part = "server" /\ phase[p] = "off")

(* A process with valid settings and a frontend gets to serve in the end,    *)
(* whatever other processes start on the same empty catalog: each collision  *)
(* on the default database or schema fails one start only.                   *)
StartsEventually == \A p \in {p1, q1} :
  (part = "server" /\ phase[p] = "off" /\ Startable(given[p]))
    ~> (part = "server" /\ phase[p] = "serving")
=============================================================================
