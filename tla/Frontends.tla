------------------------------ MODULE Frontends ------------------------------
(* The ways into Seafowl and what each makes of a query: HTTP (GET /q, POST  *)
(* /q, POST /upload, src/frontend/http.rs with src/auth.rs), Arrow Flight    *)
(* SQL (flight/sql.rs, flight/handler.rs), the Postgres protocol             *)
(* (postgres.rs), the interactive command line (cli/mod.rs) and --one-off    *)
(* (utils.rs).                                                               *)
(*                                                                           *)
(* Creating the physical plan of a statement that writes executes it; that   *)
(* of one that reads fixes the state of the database it reads.  The state is *)
(* the sequence of writes so far.                                            *)
EXTENDS Naturals, Sequences, FiniteSets, Functions

CONSTANTS
  Clients,
  FrontRequests,  \* what a client may send
  Policies,       \* access policies: [read |-> ..., write |-> ...]
  Passwords,
  MaxRequests     \* how many requests are sent

(* A setting is "any", "off" or a password; a token is a password, none, or  *)
(* a header that is not a bearer token.                                      *)
AccessSettings == {"any", "off"} \cup Passwords
Tokens == {"none", "malformed"} \cup Passwords

(* Statements by what the two read-only tests say of them: EXPLAIN ANALYZE   *)
(* is a read as a statement and not as a plan.                               *)
Statements == {"read", "analyze", "write"}
Parts == {"has_header", "schema", "csv", "exe", "unnamed", "broken"}
Fronts == {"get", "post", "upload", "cli", "one_off", "postgres", "flight", "do_get"}

(* What the constants may be. *)
FrontParametersOK ==
       /\ Passwords \cap {"any", "off", "none", "malformed"} = {}
       /\ \A p \in Policies : p.read \in AccessSettings /\ p.write \in AccessSettings
       /\ \A r \in FrontRequests : /\ r.front \in Fronts /\ r.token \in Tokens
                                   /\ r.stmts \in Seq(Statements)
                                   /\ r.parts \in Seq(Parts)
       /\ MaxRequests \in Nat

VARIABLES
  policy,   \* the access policy of the HTTP frontend
  effects,  \* the writes executed, in order: which request, which statement
  sending,  \* what each client's request is at
  reply,    \* reply[c]: the answer to its last request
  results,  \* the streams Flight clients have not fetched, by ticket
  sent      \* how many requests were sent; numbers them, and the tickets

frontVars == <<policy, effects, sending, reply, results, sent>>

(* plans[i]: the state that statement i reads (a write reads nothing); form: *)
(* what the parts of an upload have said so far.                             *)
NoForm == [header |-> TRUE, schema |-> FALSE, data |-> 0, file |-> "", part |-> 1]
NoSession == [pc |-> "idle", r |-> [front |-> "none"], id |-> 0, plans |-> <<>>,
              ticket |-> 0, form |-> NoForm]
NoReply == [id |-> 0, r |-> [front |-> "none"], status |-> "none", rows |-> {}]

(* ------------------------------ Authorization ---------------------------- *)

IsPassword(setting) == setting \in Passwords

(* The principal a token stands for, or the error.                           *)
token_to_principal(token, p) ==
  CASE token = "malformed" -> "InvalidAuthorizationHeader"
    [] token = "none" /\ p.write # "any" /\ p.read # "any" -> "NeedAccessToken"
    [] token = "none" /\ (p.write = "any" \/ p.read = "any") -> "Anonymous"
    [] token \in Passwords /\ ~ IsPassword(p.write) /\ ~ IsPassword(p.read) -> "UselessAccessToken"
    [] token \in Passwords /\ token = p.write -> "Writer"
    [] token \in Passwords /\ token # p.write /\ token = p.read -> "Reader"
    [] OTHER -> "WrongAccessToken"

Principals == {"Anonymous", "Reader", "Writer"}

can_perform_action_ReadUnlessOff(principal, action, p) ==
  \/ principal = "Writer"
  \/ action = "Read" /\ p.read # "off"
  \/ action = "Write" /\ p.write = "any"

can_perform_action(principal, action, p) ==
  \/ principal = "Writer"
  \/ principal = "Reader" /\ action = "Read"
  \/ action = "Read" /\ p.read = "any"
  \/ action = "Write" /\ p.write = "any"

Principal(c) == token_to_principal(sending[c].r.token, policy)
May(c, action) == can_perform_action(Principal(c), action, policy)

(* ------------------------------- Statements ------------------------------ *)

is_statement_read_only(stmt) == stmt \in {"read", "analyze"}

is_read_only(stmt) == stmt = "read"

RequestAt(c, pc) == sending[c].pc = pc
Front(c) == sending[c].r.front
Stmts(c) == sending[c].r.stmts
RequestGoto(c, pc) == sending' = [sending EXCEPT ![c].pc = pc] /\ UNCHANGED reply

(* The request ends with an answer. *)
Answer(c, status, rows) ==
  /\ sending' = [sending EXCEPT ![c] = NoSession]
  /\ reply' = [reply EXCEPT ![c] =
       [id |-> sending[c].id, r |-> sending[c].r, status |-> status, rows |-> rows]]

(* A client that has the answer to its last request sends another one; the   *)
(* ticket of a do_get is any one that was issued, or unknown.                *)
Send(c, r) ==
  /\ RequestAt(c, "idle") /\ sent < MaxRequests
  /\ sent' = sent + 1
  /\ \E t \in IF r.front = "do_get" THEN 0 .. sent ELSE {0} :
       sending' = [sending EXCEPT ![c] = [NoSession EXCEPT !.r = r, !.id = sent + 1, !.ticket = t,
                !.pc = CASE r.front \in {"get", "post", "upload"} -> "auth"
                         [] r.front = "do_get" -> "fetch"
                         [] OTHER -> "parse"]]
  /\ reply' = [reply EXCEPT ![c] = NoReply]
  /\ UNCHANGED <<policy, effects, results>>

(* with_auth, and the authorization of the GET route and of an upload.       *)
Authenticate(c) ==
  /\ RequestAt(c, "auth")
  /\ \/ Principal(c) \notin Principals /\ Answer(c, Principal(c), {})
     \/ /\ Principal(c) \in Principals /\ Front(c) = "get"
        /\ \/ policy.read = "off" /\ Answer(c, "ReadOnlyEndpointDisabled", {})
           \/ policy.read # "off" /\ ~ May(c, "Read") /\ Answer(c, "ReadForbidden", {})
           \/ policy.read # "off" /\ May(c, "Read") /\ RequestGoto(c, "parse")
     \/ /\ Principal(c) \in Principals /\ Front(c) = "upload"
        /\ IF May(c, "Write") THEN RequestGoto(c, "parts") ELSE Answer(c, "WriteForbidden", {})
     \/ Principal(c) \in Principals /\ Front(c) = "post" /\ RequestGoto(c, "parse")
  /\ UNCHANGED <<policy, effects, results, sent>>

(* What POST /q refuses before it executes anything; the read, if there is   *)
(* one, comes last.                                                          *)
PostError(c) ==
  LET reads == {i \in DOMAIN Stmts(c) : is_statement_read_only(Stmts(c)[i])}
  IN  IF Stmts(c) = <<>> THEN "EmptyMultiStatement"
      ELSE IF ~ May(c, IF reads = DOMAIN Stmts(c) THEN "Read" ELSE "Write") THEN "WriteForbidden"
      ELSE IF reads \subseteq {Len(Stmts(c))} THEN "None"
      ELSE "InvalidMultiStatement"

(* Parsing, and what is checked of the statements as a whole.                *)
(* create_logical_plan (GET, Flight, Postgres) takes exactly one.            *)
ParseError(c) ==
  CASE Front(c) = "post" -> PostError(c)
    [] Front(c) \in {"get", "flight", "postgres"} ->
         IF Len(Stmts(c)) = 1 THEN "None" ELSE "NotImplemented"
    [] OTHER -> "None"

(* What stops a request whose text is no query: the hash in the path is not  *)
(* that of the query (GET), the body has none (POST), or it does not parse.  *)
TextErrors(c) ==
  {"DataFusionError"} \cup (IF Front(c) = "get" THEN {"HashMismatch"} ELSE {})
    \cup (IF Front(c) = "post" THEN {"QueryParsingError"} ELSE {})

Parse(c) ==
  /\ RequestAt(c, "parse")
  /\ \/ \E error \in TextErrors(c) : Answer(c, error, {})
     \/ ParseError(c) # "None" /\ Answer(c, ParseError(c), {})
     \/ /\ ParseError(c) = "None"
        /\ RequestGoto(c, IF Front(c) \in {"get", "postgres"} THEN "prepare" ELSE "plan")
  /\ UNCHANGED <<policy, effects, results, sent>>

(* GET makes the logical plan first, to see whether it reads only and what   *)
(* its ETag is.                                                              *)
PrepareGet(c) ==
  /\ RequestAt(c, "prepare") /\ Front(c) = "get"
  /\ \/ Answer(c, "DataFusionError", {})
     \/ ~ is_read_only(Stmts(c)[1]) /\ Answer(c, "NotReadOnlyQuery", {})
     \/ is_read_only(Stmts(c)[1]) /\ Answer(c, "NotModified", {})
     \/ is_read_only(Stmts(c)[1]) /\ RequestGoto(c, "plan")
  /\ UNCHANGED <<policy, effects, results, sent>>

(* A Postgres client has the logical plan made to learn the columns, and     *)
(* made again for the portal.                                                *)
PreparePostgres(c) ==
  /\ RequestAt(c, "prepare") /\ Front(c) = "postgres"
  /\ Answer(c, "DataFusionError", {}) \/ RequestGoto(c, "plan")
  /\ UNCHANGED <<policy, effects, results, sent>>

(* The writes a request has executed, as [request, statement] and, for an    *)
(* upload, the form.                                                         *)
Effect(c, i) == [id |-> sending[c].id, r |-> sending[c].r, stmt |-> i, form |-> sending[c].form]

Upcoming(c) == Len(sending[c].plans) + 1

PlanStatement_CarryOn(c) ==
  /\ RequestAt(c, "plan") /\ Upcoming(c) <= Len(Stmts(c))
  /\ sending' = [sending EXCEPT ![c].plans = Append(@, Len(effects))]
  /\ \/ UNCHANGED effects
     \/ Stmts(c)[Upcoming(c)] = "write" /\ effects' = Append(effects, Effect(c, Upcoming(c)))
  /\ UNCHANGED <<policy, reply, results, sent>>

(* The next statement is planned, which executes it if it writes and fixes   *)
(* the state it reads otherwise; or that fails, before or after the write    *)
(* has taken effect, and what was executed stays.                            *)
PlanStatement(c) ==
  /\ RequestAt(c, "plan") /\ Upcoming(c) <= Len(Stmts(c)) /\ Front(c) # "one_off"
  /\ \/ Answer(c, "DataFusionError", {}) /\ UNCHANGED effects
     \/ /\ effects' = IF Stmts(c)[Upcoming(c)] = "write" THEN Append(effects, Effect(c, Upcoming(c)))
                      ELSE effects
        /\ \/ Answer(c, "DataFusionError", {})
           \/ /\ sending' = [sending EXCEPT ![c].plans = Append(@, Len(effects))]
              /\ UNCHANGED reply
  /\ UNCHANGED <<policy, results, sent>>

(* The rows of the statements that are output: of the last one over HTTP, of *)
(* all of them on the command line.                                          *)
Rows(c) ==
  {<<i, sending[c].plans[i]>> : i \in
     {j \in DOMAIN sending[c].plans : /\ Stmts(c)[j] # "write"
                                      /\ Front(c) = "post" => j = Len(Stmts(c))}}

(* run_one_off_command: a statement is planned and its rows are written      *)
(* before the next one; a failure of either ends the process.                *)
RunOneOff(c) ==
  /\ RequestAt(c, "plan") /\ Upcoming(c) <= Len(Stmts(c)) /\ Front(c) = "one_off"
  /\ \/ Answer(c, "DataFusionError", Rows(c)) /\ UNCHANGED effects
     \/ /\ effects' = IF Stmts(c)[Upcoming(c)] = "write" THEN Append(effects, Effect(c, Upcoming(c)))
                      ELSE effects
        /\ \/ Answer(c, "DataFusionError", Rows(c))
           \/ /\ sending' = [sending EXCEPT ![c].plans = Append(@, Len(effects))]
              /\ UNCHANGED reply
  /\ UNCHANGED <<policy, results, sent>>

(* All are planned and the plans are run.  Over HTTP an error on the way is  *)
(* text in the body of an answer that is fine.                               *)
Output(c) ==
  /\ RequestAt(c, "plan") /\ Upcoming(c) > Len(Stmts(c)) /\ Front(c) # "flight"
  /\ \/ Answer(c, "Ok", Rows(c))
     \/ Front(c) \in {"get", "post"} /\ Answer(c, "Ok", {})
     \/ Front(c) \in {"cli", "postgres"} /\ Answer(c, "DataFusionError", {})
  /\ UNCHANGED <<policy, effects, results, sent>>

(* --------------------------------- Flight -------------------------------- *)

(* query_to_stream: the stream is kept under a new id, the ticket.           *)
IssueTicket(c) ==
  /\ RequestAt(c, "plan") /\ Upcoming(c) > Len(Stmts(c)) /\ Front(c) = "flight"
  /\ results' = results \cup {<<sending[c].id, sending[c].plans[1]>>}
  /\ Answer(c, "Ok", {})
  /\ UNCHANGED <<policy, effects, sent>>

(* fetch_stream takes the stream out of the map, if it is there.             *)
FetchStream(c) ==
  /\ RequestAt(c, "fetch")
  /\ \/ /\ \A s \in results : s[1] # sending[c].ticket
        /\ Answer(c, "NotFound", {})
        /\ UNCHANGED results
     \/ \E s \in results :
          /\ s[1] = sending[c].ticket
          /\ results' = results \ {s}
          /\ Answer(c, "Ok", {<<1, s[2]>>})
  /\ UNCHANGED <<policy, effects, sent>>

(* --------------------------------- Upload -------------------------------- *)

PartsOf(c) == sending[c].r.parts

(* A part of the form: a file part sets the name and adds to the file.       *)
AfterPart(form, p) ==
  LET next == [form EXCEPT !.part = @ + 1]
  IN  CASE p = "has_header" -> [next EXCEPT !.header = FALSE]
        [] p = "schema" -> [next EXCEPT !.schema = TRUE]
        [] p \in {"csv", "exe"} -> [next EXCEPT !.file = p, !.data = @ + 1]

NextPart(c) ==
  /\ RequestAt(c, "parts") /\ sending[c].form.part <= Len(PartsOf(c))
  /\ LET p == PartsOf(c)[sending[c].form.part]
     IN  \/ p = "unnamed" /\ Answer(c, "UploadMissingFile", {})
         \/ p = "broken" /\ Answer(c, "UploadBodyLoadError", {})
         \/ /\ p \notin {"unnamed", "broken"}
            /\ sending' = [sending EXCEPT ![c].form = AfterPart(@, p)]
            /\ UNCHANGED reply
  /\ UNCHANGED <<policy, effects, results, sent>>

(* All parts were read: file_to_table appends the file, or fails, before or  *)
(* after its commit (what else a failed one leaves, a new schema or an empty *)
(* table, is module Statements).  It is given the schema of the form, which  *)
(* the schema of a table that exists overrides.                              *)
UploadFile(c) ==
  /\ RequestAt(c, "parts") /\ sending[c].form.part > Len(PartsOf(c))
  /\ \/ sending[c].form.file = "" /\ Answer(c, "UploadMissingFile", {}) /\ UNCHANGED effects
     \/ sending[c].form.file = "exe" /\ Answer(c, "UploadUnsupportedFileFormat", {}) /\ UNCHANGED effects
     \/ sending[c].form.file = "csv" /\ Answer(c, "DataFusionError", {}) /\ UNCHANGED effects
     \/ /\ sending[c].form.file = "csv"
        /\ effects' = Append(effects, Effect(c, 1))
        /\ \E status \in {"Ok", "DataFusionError"} : Answer(c, status, {})
  /\ UNCHANGED <<policy, results, sent>>

(* ------------------------------ Specification ---------------------------- *)

FrontInit ==
       /\ policy \in Policies
       /\ effects = <<>>
       /\ sending = [c \in Clients |-> NoSession]
       /\ reply = [c \in Clients |-> NoReply]
       /\ results = {} /\ sent = 0

Serve(c) ==
  \/ Authenticate(c) \/ Parse(c) \/ PrepareGet(c) \/ PreparePostgres(c)
  \/ PlanStatement(c) \/ RunOneOff(c) \/ Output(c)
  \/ IssueTicket(c) \/ FetchStream(c) \/ NextPart(c) \/ UploadFile(c)

FrontNext == \E c \in Clients : (\E r \in FrontRequests : Send(c, r)) \/ Serve(c)

FrontSpec == FrontInit /\ [][FrontNext]_frontVars

(* ------------------------------- Properties ------------------------------ *)

IsHttp(r) == r.front \in {"get", "post", "upload"}

(* Over HTTP only a POST writes, and only with the write password or where   *)
(* anyone may write, whatever the setting for reads and in whatever company  *)
(* of other statements the write comes.                                      *)
WritesAuthorized ==
  \A i \in DOMAIN effects : LET r == effects[i].r IN IsHttp(r) =>
    /\ r.front # "get"
    /\ policy.write \in {"any", r.token}

(* Over HTTP rows are returned to those with a password or where anyone may  *)
(* read (or write, in the same request).                                     *)
RowsAuthorized ==
  \A c \in Clients : LET r == reply[c].r IN reply[c].rows # {} /\ IsHttp(r) =>
    \/ policy.read \in {"any", r.token} \/ policy.write = r.token
    \/ policy.write = "any" /\ "write" \in Range(r.stmts)

(* Nobody writes or reads over HTTP without being allowed to. *)
HttpAuthorized == WritesAuthorized /\ RowsAuthorized

Executed(id) == {effects[i].stmt : i \in {j \in DOMAIN effects : effects[j].id = id}}
Writes(r) == IF r.front = "upload" THEN {1}
             ELSE {i \in DOMAIN r.stmts : r.stmts[i] = "write"}

(* What a request that failed may have executed: its writes up to some       *)
(* statement, the one that failed included; the append of an upload.         *)
Begun(did, r) ==
  \/ \E k \in 0 .. Len(r.stmts) : did = {i \in Writes(r) : i <= k}
  \/ r.front = "upload" /\ did = Writes(r)

(* An answer tells what was executed: everything, each statement once, when  *)
(* it is fine; nothing when the request was refused; when a statement        *)
(* failed, all writes before it, none after it, and that one or not: the     *)
(* version of a committed write may be what could not be recorded.           *)
AnswerIsTrue ==
   \A c \in Clients : reply[c].id # 0 /\ reply[c].r.front # "do_get" =>
     LET a == reply[c]
         did == Executed(a.id)
     IN  /\ Cardinality({j \in DOMAIN effects : effects[j].id = a.id}) = Cardinality(did)
         /\ CASE a.status = "Ok" -> did = Writes(a.r)
              [] a.status = "DataFusionError" -> Begun(did, a.r)
              [] OTHER -> did = {}

(* A read of a multi-statement query sees the writes before it in the query  *)
(* and not the ones after it, although it may run after them.                *)
ReadsInOrder ==
  \A c \in Clients : reply[c].r.front # "do_get" =>
    \A row \in reply[c].rows : \A j \in DOMAIN effects :
      effects[j].id = reply[c].id => (j <= row[2] <=> effects[j].stmt < row[1])

(* An upload is done with every part of the form, whatever their order.      *)
UploadUsesAllParts ==
  \A i \in DOMAIN effects : effects[i].r.front = "upload" =>
    LET e == effects[i]
        parts == e.r.parts
    IN  /\ e.form.data = Cardinality({k \in DOMAIN parts : parts[k] \in {"csv", "exe"}})
        /\ e.form.schema = ("schema" \in Range(parts))
        /\ e.form.header = ("has_header" \notin Range(parts))

(* The answers are right about all of this. *)
AnswerTells == AnswerIsTrue /\ ReadsInOrder /\ UploadUsesAllParts
==============================================================================
