------------------------------- MODULE Bridge -------------------------------
(***************************************************************************)
(* The HTTP bridge (crates/http-bridge) on top of Session: it mints a      *)
(* token at the daemon when it starts, and every HTTP request              *)
(* authenticates, opens a connection of its own to the daemon, makes one   *)
(* request and turns the outcome into a status.                            *)
(*                                                                         *)
(* A token is in the daemon's kv table, in the bridge's in-memory map, or  *)
(* in both; the map dies with the bridge, the table outlives everything.   *)
(* Contents of requests and of the token file are left out.                *)
(***************************************************************************)
EXTENDS Session

CONSTANTS
    Handlers,     \* HTTP requests in flight, each the name of its connection
    Boot,         \* the connection of the starting bridge
    Tokens,       \* tokens the daemon may mint
    Bootstrap,    \* the token of COGNITIVE_MEMORY_HTTP_BOOTSTRAP_TOKEN
    Stranger,     \* a token that nobody minted
    NoToken,      \* no Authorization header, or none with "Bearer "
    MaxStarts,    \* bound on the starts of the bridge
    MaxHttp,      \* bound on the HTTP requests of a behaviour
    Mixed         \* whether callers and a bridge occur in one behaviour

Scope == {"read", "write", "admin"}

Allows(scope, required) ==
    \/ scope = "admin"
    \/ scope = "write" /\ required # "admin"
    \/ scope = required

ASSUME BridgeAssumption ==
    /\ Handlers \cup {Boot} \subseteq Conns \ Callers
    /\ Boot \notin Handlers
    /\ Tokens = Payloads
    /\ {Bootstrap, Stranger, NoToken} \cap Tokens = {}
    /\ {MaxStarts, MaxHttp} \subseteq Nat
    /\ Mixed \in BOOLEAN

Held == Tokens \cup {Bootstrap, Stranger, NoToken}

VARIABLES
    bridge,     \* "absent", "down", "minting" or "listening"
    starts,     \* how often the bridge was started
    wanted,     \* COGNITIVE_MEMORY_HTTP_MINT_SCOPE of this start
    kv,         \* namespace bridge_tokens: token -> scope
    expired,    \* tokens whose expires_at_unix has passed
    map,        \* the bridge's TokenStore: token -> scope
    file,       \* the token in the bridge token file
    http,       \* the HTTP request of each handler
    arrived,    \* how many HTTP requests there were
    effects     \* history: what the request did to the daemon's data

bvars == <<bridge, starts, wanted, kv, expired, map, file, http, arrived, effects>>
bridgeVars == <<vars, bvars>>

Stages == {"idle", "auth_connect", "auth_send", "auth_wait", "connect", "send", "wait", "answered"}

\* `unread' is history: the daemon failed to read its table for this request.
HttpRequest ==
    [stage : Stages, token : Held, need : {"read", "write"}, status : Nat, unread : BOOLEAN]

NoRequest == [stage |-> "idle", token |-> NoToken, need |-> "read", status |-> 0, unread |-> FALSE]

BridgeTypeOK ==
    /\ TypeOK
    /\ bridge \in {"absent", "down", "minting", "listening"} /\ starts \in 0..MaxStarts
    /\ wanted \in Scope
    /\ DOMAIN kv \subseteq Tokens /\ kv \in [DOMAIN kv -> Scope]
    /\ expired \subseteq DOMAIN kv
    /\ DOMAIN map \subseteq Tokens \cup {Bootstrap} /\ map \in [DOMAIN map -> Scope]
    /\ file \in Tokens \cup {NoToken}
    /\ http \in [Handlers -> HttpRequest]
    /\ arrived \in 0..MaxHttp
    /\ effects \in [Handlers -> Nat]

BridgeInit ==
    /\ Init
    /\ bridge \in {"absent", "down"} /\ starts = 0 /\ wanted = "write"
    /\ kv = <<>> /\ expired = {} /\ map = <<>> /\ file = NoToken
    /\ http = [h \in Handlers |-> NoRequest]
    /\ arrived = 0
    /\ effects = [h \in Handlers |-> 0]

Insert(f, k, s) == [x \in DOMAIN f \cup {k} |-> IF x = k THEN s ELSE f[x]]

-----------------------------------------------------------------------------
(* Starting: mint at the daemon, write the token file, fill the map; or    *)
(* take the token of the environment; then listen.                         *)

BootMint ==
    /\ bridge = "down" /\ starts < MaxStarts
    /\ bridge' = "minting" /\ starts' = starts + 1
    /\ wanted' \in Scope
    /\ Connect(Boot)
    /\ UNCHANGED <<kv, expired, map, file, http, arrived, effects>>

BootSend ==
    /\ bridge = "minting" /\ client[Boot].next = 1
    /\ Send(Boot, "mint")
    /\ UNCHANGED bvars

\* Mutant: whatever was answered is taken for the token.
BootDoneUnchecked ==
    /\ bridge = "minting" /\ client[Boot].next > 1 /\ client[Boot].waits = 0
    /\ Leave(Boot)
    /\ file' = client[Boot].last
    /\ map' = Insert(map, client[Boot].last, wanted)
    /\ bridge' = "listening"
    /\ UNCHANGED <<starts, wanted, kv, expired, http, arrived, effects>>

\* The response carries the token.  A refusal, no answer, or a token file
\* that cannot be written (and is empty by then) ends the process; the
\* token may be in the table all the same.
BootDone ==
    /\ bridge = "minting" /\ client[Boot].next > 1 /\ client[Boot].waits = 0
    /\ Leave(Boot)
    /\ LET k == client[Boot].last
       IN  \/ /\ k \in Tokens
              /\ file' = k
              /\ map' = Insert(map, k, wanted)
              /\ bridge' = "listening"
           \/ /\ k \in Tokens
              /\ file' = NoToken
              /\ bridge' = "down"
              /\ UNCHANGED map
           \/ /\ k \notin Tokens
              /\ bridge' = "down"
              /\ UNCHANGED <<file, map>>
    /\ UNCHANGED <<starts, wanted, kv, expired, http, arrived, effects>>

\* Without a user to mint for: the bootstrap token or none at all.
BootPlain ==
    /\ bridge = "down" /\ starts < MaxStarts
    /\ bridge' = "listening" /\ starts' = starts + 1
    /\ \/ UNCHANGED map
       \/ \E s \in Scope : map' = Insert(map, Bootstrap, s)
    /\ UNCHANGED <<vars, wanted, kv, expired, file, http, arrived, effects>>

BridgeDies ==
    /\ bridge \in {"minting", "listening"}
    /\ bridge' = "down" /\ map' = <<>>
    /\ http' = [h \in Handlers |-> NoRequest]
    /\ client' = [c \in Conns |-> IF c \in Handlers \cup {Boot}
                                  THEN [client[c] EXCEPT !.open = FALSE, !.waits = 0]
                                  ELSE client[c]]
    /\ UNCHANGED <<up, restarts, published, inbox, loop, wire, told, executed>>
    /\ UNCHANGED <<starts, wanted, kv, expired, file, arrived, effects>>

-----------------------------------------------------------------------------
(* The daemon's handlers behind the bridge.                                *)

\* handle_mint_bridge_token: one insert, then the raw token in the answer.
HandleMint ==
    /\ \E r \in loop[Boot].running :
          \/ \E k \in Tokens \ DOMAIN kv :
                /\ kv' = Insert(kv, k, wanted)
                /\ Answered(Boot, r, k)
          \/ /\ Answered(Boot, r, "error")
             /\ UNCHANGED kv
    /\ UNCHANGED <<up, restarts, published, client, inbox, wire, told, executed>>
    /\ UNCHANGED <<bridge, starts, wanted, expired, map, file, http, arrived, effects>>

Valid(k, need) == k \in DOMAIN kv /\ k \notin expired /\ Allows(kv[k], need)

\* handle_validate_bridge_token: unknown, expired or too narrow is an error
\* response, and so is a table that cannot be read.
HandleValidate(h) ==
    /\ \E r \in loop[h].running :
          /\ r.kind = "validate"
          /\ \/ /\ Answered(h, r, IF Valid(http[h].token, http[h].need) THEN "ok" ELSE "error")
                /\ UNCHANGED http
             \/ /\ Answered(h, r, "error")
                /\ http' = [http EXCEPT ![h].unread = TRUE]
    /\ UNCHANGED <<up, restarts, published, client, inbox, wire, told, executed>>
    /\ UNCHANGED <<bridge, starts, wanted, kv, expired, map, file, arrived, effects>>

\* Memory::Store or Memory::Search: both write; an error may come after the
\* first write.
HandleCall(h) ==
    /\ \E r \in loop[h].running :
          /\ r.kind = "call"
          /\ \/ /\ Answered(h, r, "ok")
                /\ effects' = [effects EXCEPT ![h] = effects[h] + 1]
             \/ /\ Answered(h, r, "error")
                /\ \E n \in {0, 1} : effects' = [effects EXCEPT ![h] = effects[h] + n]
    /\ UNCHANGED <<up, restarts, published, client, inbox, wire, told, executed>>
    /\ UNCHANGED <<bridge, starts, wanted, kv, expired, map, file, http, arrived>>

-----------------------------------------------------------------------------
(* memory_store and memory_search.                                         *)

Becomes(h, stage, status) ==
    http' = [http EXCEPT ![h].stage = stage, ![h].status = status]

\* Mutant: a token that the map does not hold is refused at once.
AuthenticateLocally(k, need) ==
    IF k = NoToken THEN <<"answered", 401>>
    ELSE IF k \notin DOMAIN map THEN <<"answered", 401>>
    ELSE IF Allows(map[k], need) THEN <<"connect", 0>> ELSE <<"answered", 403>>

\* authenticate up to its first await: the map first, then the daemon.
Authenticate(k, need) ==
    IF k = NoToken THEN <<"answered", 401>>
    ELSE IF k \notin DOMAIN map THEN <<"auth_connect", 0>>
    ELSE IF Allows(map[k], need) THEN <<"connect", 0>> ELSE <<"answered", 403>>

\* A client presents a token that was minted before, or none of these.
Arrive(h) ==
    /\ bridge = "listening" /\ http[h].stage = "idle" /\ ~loop[h].open /\ arrived < MaxHttp
    /\ \E k \in DOMAIN kv \cup (Held \ Tokens), need \in {"read", "write"} :
          LET a == Authenticate(k, need)
          IN  http' = [http EXCEPT ![h] = [NoRequest EXCEPT !.stage = a[1], !.status = a[2],
                                                            !.token = k, !.need = need]]
    /\ arrived' = arrived + 1
    /\ effects' = [effects EXCEPT ![h] = 0]
    /\ UNCHANGED <<vars, bridge, starts, wanted, kv, expired, map, file>>

\* check_host refuses a missing or foreign Host header before anything else.
ArriveForeign(h) ==
    /\ bridge = "listening" /\ http[h].stage = "idle" /\ ~loop[h].open /\ arrived < MaxHttp
    /\ \E status \in {400, 403} :
          http' = [http EXCEPT ![h] = [NoRequest EXCEPT !.stage = "answered", !.status = status]]
    /\ arrived' = arrived + 1
    /\ effects' = [effects EXCEPT ![h] = 0]
    /\ UNCHANGED <<vars, bridge, starts, wanted, kv, expired, map, file>>

\* A fresh client, for the validation and again for the call itself.
HttpConnect(h) ==
    /\ \/ /\ http[h].stage \in {"auth_connect", "connect"} /\ up
          /\ Connect(h)
          /\ Becomes(h, IF http[h].stage = "connect" THEN "send" ELSE "auth_send", 0)
       \/ /\ http[h].stage \in {"auth_connect", "connect"} /\ ~up
          /\ Becomes(h, "answered", 500)
          /\ UNCHANGED vars
    /\ UNCHANGED <<bridge, starts, wanted, kv, expired, map, file, arrived, effects>>

HttpSend(h) ==
    /\ \/ /\ http[h].stage = "auth_send"
          /\ Send(h, "validate")
          /\ Becomes(h, "auth_wait", 0)
       \/ /\ http[h].stage = "send"
          /\ Send(h, "call")
          /\ Becomes(h, "wait", 0)
    /\ UNCHANGED <<bridge, starts, wanted, kv, expired, map, file, arrived, effects>>

\* validate_daemon_token returns: whatever the daemon answers but "ok" is
\* an invalid token, and no answer is an error of the bridge.
AuthDone(h) ==
    /\ http[h].stage = "auth_wait" /\ client[h].waits = 0
    /\ Leave(h)
    /\ CASE client[h].last = "ok"    -> Becomes(h, "connect", 0)
         [] client[h].last = "error" -> Becomes(h, "answered", 401)
         [] OTHER                    -> Becomes(h, "answered", 500)
    /\ UNCHANGED <<bridge, starts, wanted, kv, expired, map, file, arrived, effects>>

\* Mutant: a call that got no answer counts as done.
CallDoneOptimistic(h) ==
    /\ http[h].stage = "wait" /\ client[h].waits = 0
    /\ Leave(h)
    /\ Becomes(h, "answered", IF client[h].last = "error" THEN 500 ELSE 200)
    /\ UNCHANGED <<bridge, starts, wanted, kv, expired, map, file, arrived, effects>>

\* daemon_call and daemon_response_to_http.
CallDone(h) ==
    /\ http[h].stage = "wait" /\ client[h].waits = 0
    /\ Leave(h)
    /\ Becomes(h, "answered", IF client[h].last = "ok" THEN 200 ELSE 500)
    /\ UNCHANGED <<bridge, starts, wanted, kv, expired, map, file, arrived, effects>>

\* The answer is sent and the handler is free.
HttpEnd(h) ==
    /\ http[h].stage = "answered"
    /\ http' = [http EXCEPT ![h] = NoRequest]
    /\ UNCHANGED <<vars, bridge, starts, wanted, kv, expired, map, file, arrived, effects>>

\* The HTTP client goes away: the handler's future and its client are dropped.
HttpGone(h) ==
    /\ http[h].stage \notin {"idle", "answered"}
    /\ http' = [http EXCEPT ![h] = NoRequest]
    /\ \/ Leave(h)
       \/ ~client[h].open /\ UNCHANGED vars
    /\ UNCHANGED <<bridge, starts, wanted, kv, expired, map, file, arrived, effects>>

\* The clock passes expires_at_unix.
Expire ==
    /\ \E k \in DOMAIN kv \ expired : expired' = expired \cup {k}
    /\ UNCHANGED <<vars, bridge, starts, wanted, kv, map, file, http, arrived, effects>>

-----------------------------------------------------------------------------
DaemonSteps ==
    /\ \/ \E c \in Conns : Serve(c) \/ Handle(c)
       \/ Die \/ Start
    /\ UNCHANGED bvars

ClientSteps ==
    /\ \/ (Mixed \/ bridge = "absent") /\ \E c \in Callers : Call(c)
       \/ \E c \in Handlers \cup {Boot} : Recv(c) \/ RecvClosed(c) \/ Timeout(c)
    /\ UNCHANGED bvars

BridgeSteps ==
    \/ BootMint \/ BootSend \/ BootDone \/ BootPlain \/ BridgeDies
    \/ HandleMint \/ Expire
    \/ \E h \in Handlers :
          \/ Arrive(h) \/ ArriveForeign(h) \/ HttpConnect(h) \/ HttpSend(h)
          \/ AuthDone(h) \/ CallDone(h) \/ HttpEnd(h) \/ HttpGone(h)
          \/ HandleValidate(h) \/ HandleCall(h)

BridgeNext == DaemonSteps \/ ClientSteps \/ BridgeSteps

BridgeSpec == BridgeInit /\ [][BridgeNext]_bridgeVars

-----------------------------------------------------------------------------
(* Invariants.                                                             *)

Answers(h, S) == http[h].stage = "answered" /\ http[h].status \in S

(* 200 is sent only for a request that took effect in the daemon, exactly  *)
(* once, and 400, 401 or 403 only for one that did not touch it, whichever *)
(* of the two connections broke, timed out or outlived the bridge.         *)
StatusMatchesEffect ==
    \A h \in Handlers :
        /\ Answers(h, {200}) => effects[h] = 1
        /\ Answers(h, {400, 401, 403}) => effects[h] = 0

(* A token minted by the daemon is refused with reason, also after a       *)
(* restart of the bridge, when the map is gone and a newer token is in the *)
(* file.  403 means that its scope does not suffice; 401 that it does not, *)
(* that the token has expired, or that the daemon could not read its       *)
(* table.  http-bridge.md 128-136 has 401 for the token only, 403 for the  *)
(* scope and 500 for a storage error: the bridge answers 401 to whatever   *)
(* error the daemon's validation returns (lib.rs 322-324).                 *)
RefusalJustified ==
    \A h \in Handlers :
        LET k == http[h].token
        IN  k \in DOMAIN kv =>
                /\ Answers(h, {403}) => ~Allows(kv[k], http[h].need)
                /\ Answers(h, {401}) => k \in expired \/ ~Allows(kv[k], http[h].need) \/ http[h].unread
=============================================================================
