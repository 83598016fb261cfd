---------------------------- MODULE ChatGateway ----------------------------
(***************************************************************************)
(* The chat gateway (server/gateway_api.py) and the pipeline in front of   *)
(* an LLM (llm/gateway.py, compress/): the conversation is mapped to a     *)
(* session, the turn of the user is appended, long messages are shrunk     *)
(* while their originals go to Redis behind a ref, the upstream is asked   *)
(* and its answer appended.  The tools context_prepare, context_compress,  *)
(* context_normalize and context_retrieve, their HTTP twins and the        *)
(* middleware over every tool's output use parts of it.                    *)
(*                                                                         *)
(* A request runs its session calls one after the other; they are calls    *)
(* of SessionTools, at the grain of their Redis round trips, with the      *)
(* other tools, the distill worker and the TTLs between any two.           *)
(***************************************************************************)
EXTENDS SessionTools

CONSTANTS Requests,  \* requests of the gateway and of the context tools
          Part,      \* the session calls of each request
          Scenes,    \* model bound: the texts that clients write, the requests,
                     \* what they ask for and the session tools there are at once
          Heading,     \* lines a shrunk message keeps of its beginning,
          Trailing,      \* of its end,
          Between,   \* and of what is between
          Limit,     \* lines that cleaning leaves of a tool's plain text
          Nesting    \* model bound: shrinkings and packs a message goes through

Role == {"resolve", "question", "reply"}

ASSUME PartAssumption ==
  /\ Part \in [Requests -> [Role -> Calls]]
  /\ \A r, q \in Requests, k, l \in Role : Part[r][k] = Part[q][l] => r = q /\ k = l
ASSUME ScenesAssumption ==
  \A g \in Scenes : g.requests \subseteq Requests /\ g.tools \subseteq Calls
ASSUME KeepsAssumption ==
  /\ Heading \in Nat \ {0} /\ Trailing \in Nat \ {0} /\ Between \in Nat \ {0}
  /\ Limit \in Nat
ASSUME NestingAssumption == Nesting \in Nat

VARIABLES ccr,     \* texts stored under their digest, teamshared:ccr:<org>:<ref>
          lapsed,  \* history: the texts among them whose TTL ended
          held,    \* messages the clients hold: the text, and what it was when
                   \* a client wrote it or a tool's output had been cleaned
          chat,    \* control state and locals of each request
          scene    \* which of the Scenes it is

gatewayVars == <<ccr, lapsed, held, chat, scene>>
allVars == <<vars, gatewayVars>>

----------------------------------------------------------------------------
(* Texts: a kind, and lines (items of an array, fields of an object).  A   *)
(* line may report an error, be empty or internal, or be a long content;   *)
(* it may be a ref, or the pack of memories.  "parts" is a system message  *)
(* whose content is a list of parts, "system" one whose content is text.   *)
Ref(c) == [is |-> "ref", to |-> c]
Pack == [is |-> "pack"]
Stub == [is |-> "stub"]
Items(s) == {s[i] : i \in DOMAIN s}
Refs(c) == {l.to : l \in {k \in Items(c.lines) : k.is = "ref"}}

(* What clients write, and tools put out, is a list of such lines; the     *)
(* refs in it are those that shrinking puts there.                         *)
ASSUME TextsAssumption ==
  \A g \in Scenes : \A c \in g.texts : c.lines \in Seq(Items(c.lines)) /\ Refs(c) = {}

ErrorAt(c) == {i \in DOMAIN c.lines : c.lines[i].is = "error"}
Lines(c, where) == [i \in DOMAIN where |-> c.lines[where[i]]]
Rank(i, where) == Cardinality({j \in where : j <= i})
Ordered(where) == [k \in 1 .. Cardinality(where) |-> CHOOSE i \in where : Rank(i, where) = k]

Beginning(c) == 1 .. Heading
Ending(c) == Len(c.lines) - Trailing + 1 .. Len(c.lines)
Middle(c) == Heading + 1 .. Len(c.lines) - Trailing

(* compress_json_array: the best of the middle by score, errors before the *)
(* longer and the longer before the shorter items, in their old order.     *)
Crushed(c) ==
  {Lines(c, Ordered(Beginning(c) \cup best \cup Ending(c))) :
     best \in {s \in SUBSET Middle(c) :
                 LET errors == ErrorAt(c) \cap Middle(c)
                 IN  Cardinality(s) = Between /\ (errors \subseteq s \/ s \subseteq errors)}}

(* _compress_log_text: errors first, wherever they are, then the middle.   *)
LogCut(c) ==
  LET first == Ordered(ErrorAt(c)) \o Ordered(Middle(c) \ ErrorAt(c))
  IN  Lines(c, Ordered(Beginning(c)) \o SubSeq(first, 1, Between) \o Ordered(Ending(c)))

(* try_compress_json_text.                                                 *)
ArrayCut(c) == {[kind |-> "text", lines |-> s] : s \in Crushed(c)}

Truncated(c) == Lines(c, Ordered(Beginning(c) \cup Ending(c)))

(* compress_text, with the ref that compress_messages_with_ccr and         *)
(* normalize_tool_output put behind what is left: the texts it may become, *)
(* none where it stays as it is.  What a user says is left alone, and text *)
(* with a pack in it.                                                      *)
Shrunk(c) ==
  IF \/ c.kind = "user" \/ Pack \in Items(c.lines)
     \/ Len(c.lines) <= Heading + Between + Trailing
  THEN {}
  ELSE {[kind |-> d.kind, lines |-> Append(d.lines, Ref(c))] :
          d \in CASE c.kind = "array" -> ArrayCut(c)
                  [] c.kind = "log" -> {[kind |-> "log", lines |-> LogCut(c)]}
                  [] OTHER -> {[kind |-> c.kind, lines |-> Truncated(c)]}}

(* clean_tool_payload: an object loses its empty fields and internal keys, *)
(* and of long contents all but a stub; of plain text the beginning is     *)
(* left; a list stays as it is.  What it takes is stored nowhere.          *)
Slimmed(c) ==
  LET kept == Ordered({i \in DOMAIN c.lines : c.lines[i].is # "noise"})
  IN  [i \in DOMAIN kept |-> IF c.lines[kept[i]].is = "long" THEN Stub ELSE c.lines[kept[i]]]

Clean(c) ==
  CASE c.kind = "array" -> c
    [] c.kind = "object" -> [kind |-> c.kind, lines |-> Slimmed(c)]
    [] OTHER -> [kind |-> c.kind,
                 lines |-> Lines(c, Ordered({i \in DOMAIN c.lines : i <= Limit}))]

Message(c) == [was |-> c, now |-> c]

(* inject_context: behind the text of the first system message, in place   *)
(* of its content if that is a list of parts, or as a message of its own.  *)
System(msgs) == {e \in msgs : e.now.kind \in {"system", "parts"}}
Into(e) ==
  [was |-> e.was,
   now |-> [kind |-> "system",
            lines |-> IF e.now.kind = "parts" THEN <<Pack>> ELSE Append(e.now.lines, Pack)]]
Injected(msgs) ==
  IF System(msgs) = {} THEN {msgs \cup {Message([kind |-> "system", lines |-> <<Pack>>])}}
  ELSE {(msgs \ {e}) \cup {Into(e)} : e \in System(msgs)}

----------------------------------------------------------------------------
GatewayInit ==
  /\ Init
  /\ ccr = {}
  /\ lapsed = {}
  /\ scene \in Scenes
  /\ held = {Message(c) : c \in scene.texts}
  /\ chat = [r \in Requests |->
              [pc |-> "new", via |-> "", fresh |-> FALSE, sid |-> None, degraded |-> FALSE,
               sent |-> {}, todo |-> {}, out |-> {}, at |-> {}]]

Question(r) == Part[r]["question"]
Reply(r) == Part[r]["reply"]
Resolve(r) == Part[r]["resolve"]
Returned(c) == call[c].pc \in Ended

Move(r, pc) == chat' = [chat EXCEPT ![r].pc = pc]
Untouched == UNCHANGED <<wmVars, redisKeys, history>>

(* What a client may send: one or two messages it holds.                   *)
Weight(c) == Cardinality({i \in DOMAIN c.lines : c.lines[i].is \in {"ref", "pack"}})
Bodies ==
  {b \in SUBSET held : Cardinality(b) \in 1 .. 2 /\ \A e \in b : Weight(e.now) <= Nesting}

Arrive(r, via, body, fresh, sid, pc) ==
  /\ chat[r].pc = "new" /\ via \in scene.via
  /\ \A k \in Role : call[Part[r][k]].pc = "new"
  /\ chat' = [chat EXCEPT ![r].pc = pc, ![r].via = via, ![r].fresh = fresh,
                          ![r].sid = sid, ![r].sent = body, ![r].todo = body]

(* handle_gateway_chat_completions: fresh where the last message is the    *)
(* user's.  _resolve_session comes first.                                  *)
Chat(r) ==
  /\ \E body \in Bodies, fresh \in BOOLEAN :
       Arrive(r, "gateway", body, fresh, None, "resolve")
  /\ Room(Resolve(r)) /\ ToResolve(Resolve(r))
  /\ Untouched /\ UNCHANGED <<ccr, lapsed, held, scene>>

(* context_prepare and POST /llm/prepare: fresh where the turn of the user *)
(* is to be appended.                                                      *)
Prepare(r) ==
  /\ \/ \E body \in Bodies : Arrive(r, "prepare", body, FALSE, None, "shrink") /\ UNCHANGED call
     \/ \E body \in Bodies, s \in issued \cup {None} :
          /\ Arrive(r, "prepare", body, TRUE, s, "ask")
          /\ Room(Question(r)) /\ ToSay(Question(r), s)
  /\ Untouched /\ UNCHANGED <<ccr, lapsed, held, scene>>

(* context_compress and POST /compress.                                    *)
Compress(r) ==
  /\ \E body \in Bodies : Arrive(r, "compress", body, FALSE, None, "shrink")
  /\ Untouched /\ UNCHANGED <<call, ccr, lapsed, held, scene>>

(* normalize_tool_output: what a tool put out is cleaned, then shrunk; the *)
(* text that is stored is the cleaned one.                                 *)
Normalized(r, via) ==
  \E c \in scene.texts : Arrive(r, via, {Message(Clean(c))}, FALSE, None, "shrink")

(* context_normalize and POST /tools/normalize.                            *)
Normalize(r) ==
  /\ Normalized(r, "normalize")
  /\ Untouched /\ UNCHANGED <<call, ccr, lapsed, held, scene>>

(* on_call_tool, around every other tool.                                  *)
Middleware(r) ==
  /\ Normalized(r, "middleware")
  /\ Untouched /\ UNCHANGED <<call, ccr, lapsed, held, scene>>

(* The session of the conversation, or none where its mapping failed; then *)
(* prepare_llm_messages appends a new turn of the user.                    *)
Resolved(r) ==
  LET c == Resolve(r)
      s == IF call[c].pc = "done" THEN call[c].sid ELSE None
  IN  /\ chat[r].pc = "resolve" /\ Returned(c)
      /\ chat' = [chat EXCEPT ![r].sid = s, ![r].pc = IF chat[r].fresh THEN "ask" ELSE "shrink"]
      /\ IF chat[r].fresh THEN Room(Question(r)) /\ ToSay(Question(r), s) ELSE UNCHANGED call
      /\ Untouched /\ UNCHANGED <<ccr, lapsed, held, scene>>

(* Whatever the append raises is caught.                                   *)
Asked(r) ==
  /\ chat[r].pc = "ask" /\ Returned(Question(r))
  /\ Move(r, "shrink")
  /\ Untouched /\ UNCHANGED <<call, ccr, lapsed, held, scene>>

----------------------------------------------------------------------------
(* compress_messages_with_ccr and normalize_tool_output.                   *)
Shrink(r) ==
  /\ chat[r].pc = "shrink" /\ chat[r].todo # {}
  /\ LET e == CHOOSE m \in chat[r].todo : TRUE IN
       \/ /\ Shrunk(e.now) = {}
          /\ chat' = [chat EXCEPT ![r].todo = @ \ {e}, ![r].out = @ \cup {e}]
       \/ \E c \in Shrunk(e.now) :
            chat' = [chat EXCEPT ![r].pc = "get", ![r].todo = @ \ {e},
                                 ![r].at = {[text |-> e.now, was |-> e.was, now |-> c]}]
  /\ Untouched /\ UNCHANGED <<call, ccr, lapsed, held, scene>>

Entry(a) == [was |-> a.was, now |-> a.now]
PutBack(r) ==
  chat' = [chat EXCEPT ![r].pc = "shrink", ![r].at = {},
                       ![r].out = @ \cup {Entry(a) : a \in chat[r].at}]

(* CcrStore.put: GET, and SETEX where there is none.                       *)
GetRef(r) ==
  /\ chat[r].pc = "get"
  /\ IF \A a \in chat[r].at : a.text \in ccr THEN PutBack(r) ELSE Move(r, "setex")
  /\ Untouched /\ UNCHANGED <<call, ccr, lapsed, held, scene>>

(* Mutant: what is stored is the shrunk text.                              *)
BugStoreShrunk(r) ==
  /\ chat[r].pc = "setex"
  /\ ccr' = ccr \cup {a.now : a \in chat[r].at}
  /\ PutBack(r)
  /\ Untouched /\ UNCHANGED <<call, lapsed, held, scene>>

SetRef(r) ==
  /\ chat[r].pc = "setex"
  /\ ccr' = ccr \cup {a.text : a \in chat[r].at}
  /\ PutBack(r)
  /\ Untouched /\ UNCHANGED <<call, lapsed, held, scene>>

(* Redis fails: the gateway forwards the messages as they came, to the     *)
(* session it had resolved; the tools raise, and the middleware returns    *)
(* the output as it was.                                                   *)
FailRef(r) ==
  LET back == IF call[Resolve(r)].pc = "done" THEN call[Resolve(r)].sid ELSE None
  IN  /\ Elsewhere
      /\ "client crash" \in Faults
      /\ chat[r].pc \in {"get", "setex"}
      /\ \/ /\ chat[r].via = "gateway"
            /\ chat' = [chat EXCEPT ![r].pc = "upstream", ![r].sid = back,
                                    ![r].degraded = TRUE, ![r].out = chat[r].sent]
         \/ chat[r].via \in {"prepare", "compress", "normalize"} /\ Move(r, "raised")
         \/ chat[r].via = "middleware" /\ Move(r, "answered")
      /\ UNCHANGED <<ccr, lapsed, held, scene>>

(* The pack may be asked for, and found; whatever that raises is caught.   *)
Enriched(r) ==
  {chat[r].out} \cup
  (IF chat[r].via = "prepare" \/ chat[r].fresh THEN Injected(chat[r].out) ELSE {})

(* The messages are complete.                                              *)
Ready(r) ==
  /\ chat[r].pc = "shrink" /\ chat[r].todo = {}
  /\ \E msgs \in Enriched(r) :
       /\ chat' = [chat EXCEPT ![r].out = msgs,
                               ![r].pc = IF chat[r].via = "gateway" THEN "upstream" ELSE "answered"]
       /\ held' = IF chat[r].via = "gateway" THEN held ELSE held \cup msgs
  /\ Untouched /\ UNCHANGED <<call, ccr, lapsed, scene>>

(* context_retrieve and GET /compress/retrieve, of a ref in a message that *)
(* a client holds or a model was given.                                    *)
Forwarded == UNION {chat[r].out : r \in {q \in Requests : chat[q].pc \in {"reply", "answered"}}}
Retrieve ==
  /\ \E e \in held \cup Forwarded : \E c \in Refs(e.now) \cap ccr :
       held' = held \cup {[was |-> e.was, now |-> c]}
  /\ Untouched /\ UNCHANGED <<call, ccr, lapsed, chat, scene>>

----------------------------------------------------------------------------
(* _append_assistant_turn, unless there is no session or nothing was said. *)
AppendAnswer(r) ==
  \/ Move(r, "answered") /\ UNCHANGED call
  \/ /\ chat[r].sid # None /\ Move(r, "reply")
     /\ Room(Reply(r)) /\ ToSay(Reply(r), chat[r].sid)

(* _proxy_blocking, and _proxy_streaming, which appends what has come when *)
(* the stream ends or breaks.                                              *)
Upstream(r) ==
  /\ chat[r].pc = "upstream"
  /\ \/ Move(r, "refused") /\ UNCHANGED call
     \/ AppendAnswer(r)
  /\ Untouched /\ UNCHANGED <<ccr, lapsed, held, scene>>

Replied(r) ==
  /\ chat[r].pc = "reply" /\ Returned(Reply(r))
  /\ Move(r, "answered")
  /\ Untouched /\ UNCHANGED <<call, ccr, lapsed, held, scene>>

----------------------------------------------------------------------------
(* The session calls, and the environment.                                 *)

(* Mutant: the session that was opened for the turn is not handed on.      *)
BugForgetOpened == chat' = chat

(* resolve_session_id: a request without a session goes on with the one    *)
(* its first open_session returns.                                         *)
Opened ==
  chat' = [r \in Requests |->
            IF chat[r].pc = "ask" /\ call[Question(r)].pc = "open"
            THEN [chat[r] EXCEPT !.sid = call'[Question(r)].sid] ELSE chat[r]]

SessionStep ==
  /\ \E c \in Calls : CallStep(c) \/ Cut(c)
  /\ Opened
  /\ UNCHANGED <<ccr, lapsed, held, scene>>

ToolCall ==
  /\ \E c \in scene.tools :
       /\ \A r \in Requests, k \in Role : c = Part[r][k] => chat[r].pc = "new"
       /\ Room(c)
       /\ ToOpen(c) \/ ToEnsure(c) \/ ToAppend(c) \/ ToCommit(c) \/ ToClose(c)
  /\ Untouched /\ UNCHANGED gatewayVars

Around ==
  /\ \/ \E a \in Agents : ExpireKey(a)
     \/ \E s \in Sessions : Expire(s)
     \/ Worker
  /\ UNCHANGED gatewayVars

ExpireRef ==
  /\ Elsewhere
  /\ "expiry" \in Faults
  /\ \E c \in ccr : ccr' = ccr \ {c} /\ lapsed' = lapsed \cup {c}
  /\ UNCHANGED <<held, chat, scene>>

RequestStep(r) ==
  \/ Chat(r) \/ Prepare(r) \/ Compress(r) \/ Normalize(r) \/ Middleware(r)
  \/ Resolved(r) \/ Asked(r)
  \/ Shrink(r) \/ GetRef(r) \/ SetRef(r) \/ FailRef(r) \/ Ready(r)
  \/ Upstream(r) \/ Replied(r)

GatewayNext ==
  \/ \E r \in scene.requests : RequestStep(r)
  \/ Retrieve \/ SessionStep \/ ToolCall \/ Around \/ ExpireRef

GatewaySpec == GatewayInit /\ [][GatewayNext]_allVars

----------------------------------------------------------------------------
(* Properties.                                                             *)

(* The texts that a text leads to, through refs of texts that are or were  *)
(* stored.                                                                 *)
Follow(c, stored) ==
  {d \in {c} \cup stored :
     \A S \in SUBSET ({c} \cup stored) :
       c \in S /\ (\A x \in S : Refs(x) \cap stored \subseteq S) => d \in S}

(* One sequence of lines begins with the other.                            *)
Starts(s, t) == DOMAIN s \subseteq DOMAIN t /\ \A i \in DOMAIN s : t[i] = s[i]

(* inject_context replaced the parts of a system message by the pack.      *)
Replaced(e) == e.was.kind = "parts" /\ Items(e.now.lines) = {Pack}

(* "Lossy but recoverable" (docs/context-compression.md:31), as far as it  *)
(* is so: whatever a client holds or a model was given, however often it   *)
(* was shrunk and whoever shares its refs, leads back to all of the text   *)
(* that shrinking was given; only an expired key may break the chain, and  *)
(* a list of parts that the pack replaced is gone.  Errors are what a log  *)
(* or an array loses last.                                                 *)
LeadsBack ==
  /\ \A e \in held \cup Forwarded :
       ~ Replaced(e) => \E c \in Follow(e.now, ccr \cup lapsed) : Starts(e.was.lines, c.lines)
  /\ \A r \in Requests : \A a \in chat[r].at :
       a.text.kind \in {"array", "log"} /\ Cardinality(ErrorAt(a.text)) <= Between =>
         \A i \in ErrorAt(a.text) : a.text.lines[i] \in Items(a.now.lines)

(* "The assistant reply is appended to the same working session" (head of  *)
(* server/gateway_api.py): a request that appended the turn of the user    *)
(* knows a session to append the answer to, unless both the mapping of the *)
(* conversation and its pipeline failed; and the two turns are in one      *)
(* session, unless the one it knew has closed or expired.                  *)
TurnsMeet ==
  \A r \in {q \in Requests : chat[q].via = "gateway" /\ chat[q].pc \in {"upstream", "reply", "answered"}} :
    landed[Question(r)] # {} =>
      /\ \/ chat[r].sid # None
         \/ chat[r].degraded /\ call[Resolve(r)].pc # "done"
      /\ landed[Reply(r)] # {} /\ landed[Reply(r)] # landed[Question(r)] => ~ IsOpen(chat[r].sid)

=============================================================================
