--------------------------- MODULE MCChatGateway ---------------------------
(***************************************************************************)
(* Small instances of ChatGateway for TLC.                                 *)
(***************************************************************************)
EXTENDS ChatGateway, TLC

CONSTANTS a1, a2, c0, c1, c2, c3, c4, c5, c6, c7, c8, c9, r1, r2

(* A second agent makes two calls, in one of which it may write as the     *)
(* first, and each request three of the others.                            *)
TwoCallers == [c \in Calls |-> IF c \in {c0, c1} THEN a2 ELSE a1]
OneNames == [c \in Calls |-> IF c = c0 THEN {a1} ELSE {}]
Parts(p, q, s) == "resolve" :> p @@ "question" :> q @@ "reply" :> s
TwoRequests == r1 :> Parts(c2, c3, c4) @@ r2 :> Parts(c5, c6, c7)

Line(is, i) == [is |-> is, at |-> i]

(* A log with an error in its beginning and one in its middle, an array,   *)
(* an object with an empty field and a long one, a system prompt as text   *)
(* and one as a list of parts, and what a user says.                       *)
Log == [kind |-> "log",
        lines |-> <<Line("error", 1), Line("line", 2), Line("error", 3), Line("line", 4),
                    Line("line", 5), Line("line", 6)>>]
Array == [kind |-> "array",
          lines |-> <<Line("line", 1), Line("line", 2), Line("line", 4),
                      Line("error", 5), Line("line", 6), Line("line", 7)>>]
Object == [kind |-> "object",
           lines |-> <<Line("line", 1), Line("noise", 2), Line("long", 3), Line("line", 4),
                       Line("line", 5), Line("line", 6)>>]
Prompt == [kind |-> "system",
           lines |-> <<Line("line", 1), Line("line", 2), Line("line", 3), Line("line", 4),
                       Line("line", 5)>>]
Listed == [Prompt EXCEPT !.kind = "parts"]
User == [kind |-> "user",
         lines |-> <<Line("line", 1), Line("line", 2), Line("line", 3), Line("line", 4),
                     Line("line", 5)>>]

(* Session tools by themselves, and where an agent writes as another; a    *)
(* chat or a preparation, and a session tool; two chats of one             *)
(* conversation; a chat with a long message and a tool of another agent;   *)
(* what is shrunk and prepared again, and what the pack replaces.          *)
Scene(texts, requests, tools, via) ==
  [texts |-> texts, requests |-> requests, tools |-> tools, via |-> via]
Apart == Scene({User}, {}, {c1, c8, c9}, {})
Crossed == Scene({User}, {}, {c0, c8}, {})
Amid == Scene({User}, {r1}, {c8}, {"gateway", "prepare"})
Both == Scene({User}, {r1, r2}, {}, {"gateway"})
Long == Scene({Log}, {r1}, {c1}, {"gateway"})
Again == Scene({Log, Array}, {r1, r2}, {}, {"compress", "normalize", "middleware"})
Fields == Scene({Object}, {r1, r2}, {}, {"compress", "normalize"})
Packs == Scene({Prompt}, {r1, r2}, {}, {"prepare"})
Lists == Scene({Listed}, {r1, r2}, {}, {"prepare", "gateway"})
AllScenes == {Apart, Crossed, Amid, Both, Long, Again, Fields, Packs, Lists}

(* Session ids are random, and the calls no request makes are alike.       *)
Symmetry == Permutations(Sessions) \cup Permutations({c8, c9})
=============================================================================
