--------------------------- MODULE InboundMessages ---------------------------
(***************************************************************************)
(* How the bridge understands what arrives over the long connection: the   *)
(* control commands first, then the replies in the threads of updates.  A  *)
(* text is the sequence of its words, and of a word only what the rules    *)
(* tell apart is kept.                                                     *)
(***************************************************************************)
EXTENDS Naturals, Sequences

CONSTANTS
    Folders,        \* absolute paths without spaces that projects have
    MaxWords        \* bound on the words of a text

ASSUME MaxWords \in Nat

\* A mention chosen from the menu carries the bot's id, any other is a name.
Mentions == {"@bot", "@name"}
Commands == {"/bind", "/help", "/new", "/status", "/unbind"}

\* "/gone" is a path without a folder and "/up/.." one that is not clean; neither is
\* a command.
Words == Mentions \cup Commands \cup Folders \cup {"/gone", "/up/..", "word"}

IsSlash(w) == w \notin Mentions \cup {"word"}

Texts == UNION {[1 .. n -> Words] : n \in 0 .. MaxWords}

\* root: the message is outside of threads, names itself as its root, or is a reply.
Message(kind, chat, root, words) == [kind |-> kind, chat |-> chat, root |-> root, words |-> words]

TextMessages ==
    {Message("text", chat, root, words) :
        chat \in {"direct", "room"}, root \in {"none", "self", "other"}, words \in Texts}

Buttons == {"create_project_room", "use_existing_room", "ignore_project", "another"}

\* The bot hears of every message in its rooms, of its own ones and of pictures, too.
OtherEvents ==
    {Message(kind, "room", "none", <<>>) :
        kind \in Buttons \cup {"bot_added", "from_app", "not_text", "not_a_message"}}

----------------------------------------------------------------------------
(* The words of a message. *)

IsDirect(m)  == m.chat = "direct"
InThread(m)  == m.root = "other"

\* Mutant of Addressed: a name typed in a room counts as a mention.
AddressedByName(m) ==
    m.words # <<>> /\ (IsDirect(m) \/ Head(m.words) \in Mentions)

Addressed(m) == m.words # <<>> /\ (IsDirect(m) \/ Head(m.words) = "@bot")

\* The mentions in front are dropped, but never the last word.
Text(words) ==
    LET n == CHOOSE n \in 0 .. Len(words) - 1 :
                 /\ \A i \in 1 .. n : words[i] \in Mentions
                 /\ n = Len(words) - 1 \/ words[n + 1] \notin Mentions
    IN  SubSeq(words, n + 1, Len(words))

\* A path with a space is a path, too, but none of Folders.
Command(is, path, prompt) == [is |-> is, path |-> path, prompt |-> prompt]
NotACommand == Command("none", <<>>, <<>>)
Guidance    == Command("guidance", <<>>, <<>>)
Invalid     == Command("invalid", <<>>, <<>>)

\* The path of a folder is one only if a prompt follows: alone it is the prompt.
NewSession(rest) ==
    IF rest = <<>> THEN Invalid
    ELSE IF IsSlash(Head(rest)) /\ Len(rest) > 1
         THEN Command("/new", <<Head(rest)>>, Tail(rest))
         ELSE Command("/new", <<>>, rest)

ParseCommand(text) ==
    LET rest == Tail(text) IN
    CASE Head(text) = "/new"                 -> NewSession(rest)
      [] Head(text) = "/bind"                -> IF rest = <<>> THEN Invalid
                                                ELSE Command("/bind", rest, <<>>)
      [] Head(text) = "/unbind"              -> Command("/unbind", rest, <<>>)
      [] Head(text) \in {"/help", "/status"} -> IF rest = <<>> THEN Command(Head(text), <<>>, <<>>)
                                                ELSE Invalid
      [] OTHER                               -> NotACommand

\* These work in the room itself only.
RootOnly == {"/bind", "/new", "/unbind"}

\* Mutant of Understood: the commands of a room are heard in its threads, too.
UnderstoodInThreads(m) ==
    LET c == ParseCommand(Text(m.words)) IN
    CASE c = NotACommand -> IF InThread(m) THEN NotACommand ELSE Guidance
      [] IsDirect(m) /\ c.is = "/unbind" /\ c.path # <<>> -> Invalid
      [] OTHER -> c

Understood(m) ==
    LET c == ParseCommand(Text(m.words)) IN
    CASE c = NotACommand -> IF InThread(m) THEN NotACommand ELSE Guidance
      [] c # NotACommand /\ m.root # "none" /\ c.is \in RootOnly -> Invalid
      [] m.root = "none" /\ IsDirect(m) /\ c.is = "/unbind" /\ c.path # <<>> -> Invalid
      [] OTHER -> c

----------------------------------------------------------------------------
(* What becomes of it, in a room with these connected folders, when these   *)
(* folders are there.                                                       *)

Outcome(is, folders, text) == [is |-> is, folders |-> folders, text |-> text]
Ignored == Outcome("ignored", {}, <<>>)
Reply   == Outcome("reply", {}, <<>>)

IsFolder(path, there) == Len(path) = 1 /\ path[1] \in there

\* Mutant of SessionIn: a folder that is named need not be connected.
SessionInAny(m, c, connected, there) ==
    IF c.path = <<>>
    THEN IF IsDirect(m) THEN {} ELSE {p \in connected : connected = {p}}
    ELSE IF IsFolder(c.path, there) THEN {c.path[1]} ELSE {}

\* The folder for a new session: the named one, or the only one of the room.
SessionIn(m, c, connected, there) ==
    IF c.path = <<>>
    THEN IF IsDirect(m) THEN {} ELSE {p \in connected : connected = {p}}
    ELSE {p \in there : c.path = <<p>> /\ (IsDirect(m) \/ p \in connected)}

Executed(m, c, connected, there) ==
    CASE c.is = "/new" /\ SessionIn(m, c, connected, there) # {} ->
             Outcome("session", SessionIn(m, c, connected, there), c.prompt)
      [] c.is = "/bind" /\ IsFolder(c.path, there) ->
             Outcome(IF IsDirect(m) THEN "menu" ELSE "bound", {c.path[1]}, <<>>)
      [] c.is = "/unbind" /\ ~IsDirect(m) ->
             Outcome("unbound", IF c.path = <<>> THEN connected
                                ELSE {p \in connected : c.path = <<p>>}, <<>>)
      [] OTHER -> Reply

ControlCommand(m, connected, there) ==
    Executed(m, Understood(m), connected, there)

SurfaceReply(m) == Outcome("agent", {}, Text(m.words))

OnMessage(m, connected, there) ==
    IF ~Addressed(m) THEN Ignored
    ELSE IF Understood(m) = NotACommand THEN SurfaceReply(m)
    ELSE ControlCommand(m, connected, there)

OnEvent(m, connected, there) ==
    CASE m.kind = "text"      -> OnMessage(m, connected, there)
      [] m.kind = "bot_added" -> Outcome("welcome", {}, <<>>)
      [] m.kind \in Buttons \ {"another"} -> Outcome(m.kind, {}, <<>>)
      [] OTHER                -> Ignored

\* The chats where the owner has used a command become the place for questions.
RemembersChat(m) == /\ m.kind = "text" /\ Addressed(m) /\ IsDirect(m)
                    /\ Understood(m) \notin {Invalid, NotACommand}

----------------------------------------------------------------------------
(* Properties. *)

Situations == SUBSET Folders

\* A text is for the bridge in a direct chat, or if it begins with a mention of the
\* bot.  Then it gets exactly one answer, and nothing else does.
TakenIfAddressed(m, o) ==
    o.is # "ignored" <=> m.words # <<>> /\ (m.chat = "direct" \/ m.words[1] = "@bot")

\* What an agent is told is a whole end of the message: nothing but mentions in
\* front, or the command and its folder, is left out.
EndsWith(words, text) ==
    Len(words) >= Len(text) /\ SubSeq(words, Len(words) - Len(text) + 1, Len(words)) = text
LeftOut(words, text) == SubSeq(words, 1, Len(words) - Len(text))

TextIsWhole(m, o) ==
    o.is \in {"agent", "session"} =>
        /\ o.text # <<>> /\ EndsWith(m.words, o.text)
        /\ \A i \in 1 .. Len(LeftOut(m.words, o.text)) :
               \/ m.words[i] \in Mentions
               \/ o.is = "session" /\ (m.words[i] = "/new" \/ m.words[i] \in o.folders)

\* A thread continues its session, and does nothing else.
ThreadsAreReplies(m, o) ==
    /\ m.root = "other" => o.is \in {"agent", "reply", "ignored"}
    /\ o.is = "agent" => m.root = "other"

\* "/new" with a path and nothing else.  The code has a refusal for it, which asks
\* for a full path and a prompt, but the text is trimmed before it gets there: the
\* path becomes the prompt, in the only folder of the room, whatever path it is.
PathAlone(text) == Len(text) = 1 /\ IsSlash(text[1])

\* Work starts in a folder that its author means: one that the message names, or,
\* if it names none, the only one of the room; and in a room, in no other than the
\* room's own.  The exception is a path alone.
FolderIsMeant(m, o, connected) ==
    o.is = "session" =>
        \E p \in Folders : /\ o.folders = {p}
                           /\ m.chat = "room" => p \in connected
                           /\ \/ \E i \in 1 .. Len(LeftOut(m.words, o.text)) : m.words[i] = p
                              \/ /\ m.chat = "room" /\ connected = {p}
                                 /\ ~IsSlash(o.text[1]) \/ PathAlone(o.text)

\* A room's folders change only for a message in the room itself that says so, and
\* only those it names, or all of them.
RoomsAreNamed(m, o, connected, there) ==
    o.is \in {"bound", "unbound", "menu"} =>
        /\ m.root = "none" /\ (m.chat = "direct" <=> o.is = "menu")
        /\ o.is # "unbound" => o.folders = {m.words[Len(m.words)]} /\ o.folders \subseteq there
        /\ o.is = "unbound" => /\ o.folders \subseteq connected
                               /\ \/ m.words[Len(m.words)] = "/unbind" /\ o.folders = connected
                                  \/ o.folders \subseteq {m.words[Len(m.words)]}

\* For each set of folders that a room may be connected to, whether every message is
\* understood there.
Verdicts ==
    {[connected |-> connected,
      understood |-> \A m \in TextMessages, there \in Situations :
                         LET o == OnEvent(m, connected, there) IN
                         /\ TakenIfAddressed(m, o)
                         /\ TextIsWhole(m, o)
                         /\ ThreadsAreReplies(m, o)
                         /\ FolderIsMeant(m, o, connected)
                         /\ RoomsAreNamed(m, o, connected, there)] : connected \in Situations}
=============================================================================
