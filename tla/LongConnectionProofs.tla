------------------------- MODULE LongConnectionProofs -------------------------
(***************************************************************************)
(* What an acknowledgement promises and what a config in use promises, for *)
(* any apps, configs and events, any cutting of the events into parts and  *)
(* any breaks.  There is one invariant of the start and the reload task,   *)
(* and one of the connection, which only asks the first for the apps of    *)
(* the config in use.                                                      *)
(***************************************************************************)
EXTENDS LongConnection, SequenceTheorems, TLAPS

\* A part of an event, a frame, and a place of the buffer.
Pieces == {p \in [event : Events, part : 1..MaxParts, of : 1..MaxParts] :
              p.of \in 1 .. MaxParts /\ p.part \in 1 .. p.of}
Frames == [kind : {"event"}, piece : Pieces] \cup [kind : {"other", "wrong"}]
Slots  == Pieces \cup {NoPart}

Places == {"reading", "idle", "next", "backoff", "connecting", "receiving"} \cup Answering

\* Types of what the connection keeps.
LinkTypes ==
    /\ round \in Seq(Providers)
    /\ link \in [at : Places, to : Providers \cup {NoApp}]
    /\ frames \in Seq(Frames)
    /\ fragments \in [Events -> Seq(Slots)]
    /\ DOMAIN sending = Events
    /\ quiet \in BOOLEAN
    /\ acked \subseteq Events /\ cutOff \subseteq Events
    /\ decided \subseteq Events \ Malformed
    /\ handed \in [Events -> Nat]

\* The platform is somewhere in an event that it is sending.
SendingFits ==
    \A e \in Events : \/ sending[e] = NotSending
                      \/ \E cut \in 1 .. MaxParts, n \in 1 .. MaxParts :
                            n <= cut /\ sending[e] = [cut |-> cut, next |-> n]

\* A buffered part is in its place, and all parts of a buffer were cut the same way.
BuffersFit ==
    \A e \in Events : \A n \in 1 .. Len(fragments[e]) :
        fragments[e][n] \in {NoPart, Part(e, n, Len(fragments[e]))}

\* The event in hand is whole, and was decided about before it is answered.
HandFits ==
    IF link.at \in Answering
    THEN InHand \in decided /\ \E cut \in 1 .. MaxParts : hand = Whole(InHand, cut)
    ELSE hand = <<>>

\* e is on its way from the decision to the handler.
UnderWay(e) == link.at \in {"acking", "handing"} /\ InHand = e

\* Every event that was decided about was handed on, was cut off, or is on its way.
DecidedIsHandled ==
    \A e \in decided : handed[e] > 0 \/ e \in cutOff \/ UnderWay(e)

AckedIsDecided ==
    \A e \in acked : /\ e \in decided
                     /\ handed[e] > 0 \/ e \in cutOff \/ (link.at = "handing" /\ InHand = e)

\* A reply is claimed before it is handed on, and is then not taken up again.
RepliesOnce ==
    \A e \in Replies : /\ handed[e] <= 1
                       /\ handed[e] > 0 => e \in decided
                       /\ UnderWay(e) => handed[e] = 0

FramesFit  == LinkTypes /\ SendingFits /\ BuffersFit
AnswersFit == HandFits /\ DecidedIsHandled /\ AckedIsDecided /\ RepliesOnce
LinkInv    == FramesFit /\ AnswersFit

----------------------------------------------------------------------------

\* Types of the config in use and of what the start and the task keep.
ConfigTypes ==
    /\ file \in Versions /\ observed \in Versions /\ settled \in Versions
    /\ held \in [Versions -> Configs \cup {NoConfig}]
    /\ at \in {"down"} \cup Starting \cup Up
    /\ current \in Configs \cup {NoConfig} /\ loaded \in Configs \cup {NoConfig}
    /\ todo \in Seq(Hooks) /\ edited \subseteq Hooks
    /\ settings \in [Hooks -> Settings]
    /\ rendered \in BOOLEAN /\ gaveUp \in BOOLEAN
    /\ budget \in [{"writes", "edits", "failures", "starts", "sends"} -> Nat]

\* There is a config in use, a config being put into use, and a hook to write, when
\* the start or the task is where they are needed.
ConfigsFit ==
    /\ current # NoConfig <=> at \in {"built"} \cup Up
    /\ loaded # NoConfig <=> at \in {"ensuring", "applying"}
    /\ loaded = NoConfig => todo = <<>>
    /\ rendered => todo # <<>>

\* The hooks of the config being put into use are in place but for those to come.
LoadedInPlace ==
    loaded # NoConfig =>
        \A h \in ToSet(loaded.hooks) \ (edited \cup ToSet(todo)) : settings[h] = "ours"

ConfigInv == ConfigTypes /\ ConfigsFit /\ LoadedInPlace /\ HooksInPlace

----------------------------------------------------------------------------
\* The configs.

\* The hooks of a queue are the one to come and those after it.
LEMMA HookQueue ==
    ASSUME NEW s \in Seq(Hooks), s # <<>>
    PROVE  /\ Head(s) \in Hooks /\ Tail(s) \in Seq(Hooks)
           /\ ToSet(s) = {Head(s)} \cup ToSet(Tail(s))
<1>1. /\ Head(s) = s[1] /\ Head(s) \in Hooks /\ Tail(s) \in Seq(Hooks)
      /\ Len(Tail(s)) = Len(s) - 1 /\ Len(s) \in Nat \ {0}
      /\ \A i \in 1 .. Len(Tail(s)) : Tail(s)[i] = s[i + 1]
  BY HeadTailProperties, EmptySeq
<1>2. DOMAIN s = 1 .. Len(s) /\ DOMAIN Tail(s) = 1 .. Len(s) - 1
  BY <1>1, LenProperties
<1>3. ToSet(s) \subseteq {Head(s)} \cup ToSet(Tail(s))
  <2> SUFFICES ASSUME NEW i \in 1 .. Len(s), i # 1 PROVE s[i] \in ToSet(Tail(s))
    BY <1>1, <1>2 DEF ToSet
  <2>1. i - 1 \in 1 .. Len(s) - 1 /\ s[i] = Tail(s)[i - 1]
    BY <1>1
  <2>. QED
    BY <2>1, <1>2 DEF ToSet
<1>4. {Head(s)} \cup ToSet(Tail(s)) \subseteq ToSet(s)
  <2>1. ASSUME NEW i \in 1 .. Len(s) - 1 PROVE i + 1 \in 1 .. Len(s) /\ Tail(s)[i] = s[i + 1]
    BY <1>1
  <2>. QED
    BY <1>1, <1>2, <2>1 DEF ToSet
<1>. QED
  BY <1>1, <1>3, <1>4

\* No hook is to come.
LEMMA EmptyQueue == ToSet(<<>>) = {}
  BY DEF ToSet

\* A config is read with its hooks.
LEMMA ConfigHasHooks ==
    ASSUME NEW c \in Configs PROVE c.hooks \in Seq(Hooks) /\ c.serves \in Seq(Providers)
  BY ConfigReloadAssumption

\* A hook that is found or written is in place, and only those to come are not.
LEMMA HookIsInPlace ==
    ASSUME ConfigInv, todo # <<>>, NextHook, UNCHANGED <<current, loaded>>,
           settings' \in [Hooks -> Settings], settings'[Head(todo)] = "ours",
           \A h \in Hooks : settings[h] = "ours" => settings'[h] = "ours"
    PROVE  LoadedInPlace' /\ HooksInPlace'
<1>1. /\ Head(todo) \in Hooks /\ ToSet(todo) = {Head(todo)} \cup ToSet(todo')
      /\ edited' = edited \ {Head(todo)}
  BY HookQueue DEF ConfigInv, ConfigTypes, NextHook
<1>2. \A h : settings[h] = "ours" /\ h \in Hooks => settings'[h] = "ours"
  OBVIOUS
<1>3. \A c \in Configs : ToSet(c.hooks) \subseteq Hooks
  BY ConfigHasHooks, ElementOfSeq, LenProperties DEF ToSet
<1>4. loaded \in Configs \cup {NoConfig} /\ current \in Configs \cup {NoConfig}
  BY DEF ConfigInv, ConfigTypes
<1>5. LoadedInPlace'
  <2> SUFFICES ASSUME loaded # NoConfig, NEW h \in ToSet(loaded.hooks),
                      h \notin edited', h \notin ToSet(todo')
               PROVE  settings'[h] = "ours"
    BY DEF LoadedInPlace
  <2>1. h \in Hooks
    BY <1>3, <1>4
  <2>2. CASE h = Head(todo)
    BY <2>2
  <2>3. CASE h # Head(todo)
    BY <2>1, <2>3, <1>1 DEF ConfigInv, LoadedInPlace
  <2>. QED
    BY <2>2, <2>3
<1>6. HooksInPlace'
  <2> SUFFICES ASSUME current # NoConfig, NEW h \in ToSet(current.hooks), h \notin edited'
               PROVE  settings'[h] = "ours"
    BY DEF HooksInPlace
  <2>1. h \in Hooks
    BY <1>3, <1>4
  <2>. QED
    BY <2>1, <1>1 DEF ConfigInv, HooksInPlace
<1>. QED
  BY <1>5, <1>6

\* Each step of the start and of the task keeps the types.
LEMMA KeepsConfigTypes == ConfigInv /\ ConfigNext => ConfigTypes'
<1> SUFFICES ASSUME ConfigInv, ConfigNext PROVE ConfigTypes'
  OBVIOUS
<1> USE DEF ConfigInv, ConfigTypes, Starting, Up
<1>0. 0 \in Versions /\ <<>> \in Seq(Hooks)
  BY ConfigReloadAssumption DEF Versions
<1>1. ASSUME NEW c \in Configs, WriteFile(c) PROVE ConfigTypes'
  BY <1>1 DEF WriteFile, Spend
<1>2. ASSUME NEW v \in Versions, PutBack(v) PROVE ConfigTypes'
  BY <1>2 DEF PutBack, Spend
<1>3. ASSUME NEW h \in Hooks, NEW s \in Settings, EditSettings(h, s) PROVE ConfigTypes'
  BY <1>3 DEF EditSettings, Spend
<1>4. ASSUME Tick PROVE ConfigTypes'
  BY <1>4 DEF Tick
<1>5. ASSUME Settle PROVE ConfigTypes'
  BY <1>0, <1>5 DEF Settle, Observe
<1>6. ASSUME ReadConfig PROVE ConfigTypes'
  BY <1>0, <1>6, ConfigHasHooks DEF ReadConfig, Usable, Observe
<1>7. ASSUME Replace PROVE ConfigTypes'
  BY <1>0, <1>7 DEF Replace, Observe
<1>8. ASSUME EnsureHook PROVE ConfigTypes'
  BY <1>8, HookQueue DEF EnsureHook, NextHook
<1>9. ASSUME WriteHook PROVE ConfigTypes'
  BY <1>9, HookQueue DEF WriteHook, NextHook, Settings, ConfigsFit
<1>10. ASSUME HookFails PROVE ConfigTypes'
  <2>1. budget' \in [{"writes", "edits", "failures", "starts", "sends"} -> Nat]
    BY <1>10 DEF HookFails, Spend
  <2>2. observed' \in Versions /\ settled' \in Versions /\ gaveUp' \in BOOLEAN
    BY <1>0, <1>10 DEF HookFails
  <2>. QED
    BY <1>0, <1>10, <2>1, <2>2 DEF HookFails
<1>11. ASSUME Start PROVE ConfigTypes'
  BY <1>11 DEF Start, Spend
<1>12. ASSUME LoadAtStart PROVE ConfigTypes'
  BY <1>12, ConfigHasHooks DEF LoadAtStart, Usable
<1>13. ASSUME Build PROVE ConfigTypes'
  BY <1>13 DEF Build
<1>14. ASSUME BeginWatching PROVE ConfigTypes'
  BY <1>14 DEF BeginWatching
<1>. QED
  BY <1>1, <1>2, <1>3, <1>4, <1>5, <1>6, <1>7, <1>8, <1>9, <1>10, <1>11, <1>12, <1>13, <1>14
     DEF ConfigNext, ReloadStep, HookStep, StartStep

\* Each step of the start and of the task keeps the configs where they are needed.
LEMMA KeepsConfigsFit == ConfigInv /\ ConfigNext => ConfigsFit'
<1> SUFFICES ASSUME ConfigInv, ConfigNext PROVE ConfigsFit'
  OBVIOUS
<1> USE DEF ConfigInv, ConfigsFit, Starting, Up
<1>1. ASSUME NEW c \in Configs, WriteFile(c) PROVE ConfigsFit'
  BY <1>1 DEF WriteFile
<1>2. ASSUME NEW v \in Versions, PutBack(v) PROVE ConfigsFit'
  BY <1>2 DEF PutBack
<1>3. ASSUME NEW h \in Hooks, NEW s \in Settings, EditSettings(h, s) PROVE ConfigsFit'
  BY <1>3 DEF EditSettings
<1>4. ASSUME Tick PROVE ConfigsFit'
  BY <1>4 DEF Tick
<1>5. ASSUME Settle PROVE ConfigsFit'
  BY <1>5 DEF Settle
<1>6. ASSUME ReadConfig PROVE ConfigsFit'
  BY <1>6 DEF ReadConfig, Usable
<1>7. ASSUME Replace PROVE ConfigsFit'
  BY <1>7 DEF Replace
<1>8. ASSUME EnsureHook PROVE ConfigsFit'
  BY <1>8 DEF EnsureHook, NextHook
<1>9. ASSUME WriteHook PROVE ConfigsFit'
  BY <1>9 DEF WriteHook, NextHook
<1>10. ASSUME HookFails PROVE ConfigsFit'
  BY <1>10 DEF HookFails
<1>11. ASSUME Start PROVE ConfigsFit'
  BY <1>11 DEF Start
<1>12. ASSUME LoadAtStart PROVE ConfigsFit'
  BY <1>12 DEF LoadAtStart, Usable
<1>13. ASSUME Build PROVE ConfigsFit'
  BY <1>13 DEF Build
<1>14. ASSUME BeginWatching PROVE ConfigsFit'
  BY <1>14 DEF BeginWatching
<1>. QED
  BY <1>1, <1>2, <1>3, <1>4, <1>5, <1>6, <1>7, <1>8, <1>9, <1>10, <1>11, <1>12, <1>13, <1>14
     DEF ConfigNext, ReloadStep, HookStep, StartStep
\* Each step of the start and of the task keeps the hooks in place.
LEMMA KeepsHooks == ConfigInv /\ ConfigTypes' /\ ConfigNext => LoadedInPlace' /\ HooksInPlace'
<1> SUFFICES ASSUME ConfigInv, ConfigTypes', ConfigNext PROVE LoadedInPlace' /\ HooksInPlace'
  OBVIOUS
<1> DEFINE InPlace == LoadedInPlace /\ HooksInPlace
<1>0. InPlace
  BY DEF ConfigInv
<1>1. ASSUME NEW c \in Configs, WriteFile(c) PROVE InPlace'
  BY <1>0, <1>1 DEF WriteFile, LoadedInPlace, HooksInPlace
<1>2. ASSUME NEW v \in Versions, PutBack(v) PROVE InPlace'
  BY <1>0, <1>2 DEF PutBack, LoadedInPlace, HooksInPlace
<1>3. ASSUME NEW h \in Hooks, NEW s \in Settings, EditSettings(h, s) PROVE InPlace'
  BY <1>0, <1>3 DEF EditSettings, LoadedInPlace, HooksInPlace, ConfigInv, ConfigTypes
<1>4. ASSUME Tick PROVE InPlace'
  BY <1>0, <1>4 DEF Tick, LoadedInPlace, HooksInPlace
<1>5. ASSUME Settle PROVE InPlace'
  BY <1>0, <1>5 DEF Settle, LoadedInPlace, HooksInPlace
<1>6. ASSUME ReadConfig PROVE InPlace'
  BY <1>0, <1>6 DEF ReadConfig, Usable, LoadedInPlace, HooksInPlace
<1>7. ASSUME Replace PROVE InPlace'
  BY <1>0, <1>7, EmptyQueue DEF Replace, LoadedInPlace, HooksInPlace
<1>8. ASSUME EnsureHook PROVE InPlace'
  <2>1. CASE settings[Head(todo)] = "ours"
    BY <1>8, <2>1, HookIsInPlace DEF EnsureHook, ConfigInv, ConfigTypes
  <2>2. CASE settings[Head(todo)] # "ours"
    BY <1>0, <1>8, <2>2 DEF EnsureHook, LoadedInPlace, HooksInPlace
  <2>. QED
    BY <2>1, <2>2
<1>9. ASSUME WriteHook PROVE InPlace'
  <2>1. todo # <<>> /\ Head(todo) \in Hooks
    BY <1>9, HookQueue DEF WriteHook, ConfigInv, ConfigsFit, ConfigTypes
  <2>2. /\ settings'[Head(todo)] = "ours"
        /\ \A h \in Hooks : settings[h] = "ours" => settings'[h] = "ours"
    BY <1>9, <2>1 DEF WriteHook, ConfigInv, ConfigTypes
  <2>3. NextHook /\ UNCHANGED <<current, loaded>> /\ settings' \in [Hooks -> Settings]
    BY <1>9 DEF WriteHook, ConfigTypes
  <2>. QED
    BY <2>1, <2>2, <2>3, HookIsInPlace
<1>10. ASSUME HookFails PROVE InPlace'
  BY <1>0, <1>10 DEF HookFails, LoadedInPlace, HooksInPlace
<1>11. ASSUME Start PROVE InPlace'
  BY <1>0, <1>11 DEF Start, LoadedInPlace, HooksInPlace
<1>12. ASSUME LoadAtStart PROVE InPlace'
  BY <1>0, <1>12 DEF LoadAtStart, Usable, LoadedInPlace, HooksInPlace
<1>13. ASSUME Build PROVE InPlace'
  BY <1>0, <1>13, EmptyQueue DEF Build, LoadedInPlace, HooksInPlace
<1>14. ASSUME BeginWatching PROVE InPlace'
  BY <1>0, <1>14 DEF BeginWatching, LoadedInPlace, HooksInPlace
<1>. QED
  BY <1>1, <1>2, <1>3, <1>4, <1>5, <1>6, <1>7, <1>8, <1>9, <1>10, <1>11, <1>12, <1>13, <1>14
     DEF ConfigNext, ReloadStep, HookStep, StartStep

\* The config does not depend on what the connection does.
LEMMA StepKeepsConfigs == ConfigInv /\ [Next]_vars => ConfigInv'
<1> SUFFICES ASSUME ConfigInv, [Next]_vars PROVE ConfigInv'
  OBVIOUS
<1>1. CASE ConfigNext
  BY <1>1, KeepsConfigTypes, KeepsConfigsFit, KeepsHooks DEF ConfigInv
<1>2. CASE UNCHANGED configVars
  BY <1>2 DEF configVars, ConfigInv, ConfigTypes, ConfigsFit, LoadedInPlace, HooksInPlace
<1>3. ASSUME NEW e \in Events, NEW cut \in 1 .. MaxParts, BeginSend(e, cut) PROVE ConfigInv'
  BY <1>3 DEF BeginSend, Spend, ConfigInv, ConfigTypes, ConfigsFit, LoadedInPlace, HooksInPlace
<1>4. CASE Stop
  BY <1>4, ConfigReloadAssumption
     DEF Stop, Stopped, Versions, Starting, Up, ConfigInv, ConfigTypes, ConfigsFit,
         LoadedInPlace, HooksInPlace
<1>. QED
  BY <1>1, <1>2, <1>3, <1>4 DEF Next, vars

\* The configs are typed and in step with the start, for any files and failures.
LEMMA ConfigInvariance == Spec => []ConfigInv
<1>1. ASSUME Init PROVE ConfigInv
  <2>1. PICK c \in Configs : held = [v \in Versions |-> IF v = 1 THEN c ELSE NoConfig]
    BY <1>1 DEF Init, ConfigInit
  <2>2. {0, 1} \subseteq Versions /\ held \in [Versions -> Configs \cup {NoConfig}]
    BY <2>1, ConfigReloadAssumption DEF Versions
  <2>3. budget \in [{"writes", "edits", "failures", "starts", "sends"} -> Nat]
    <3>1. budget \in Budgets
      BY <1>1 DEF Init, ConfigInit
    <3>. QED
      BY <3>1, ConfigReloadAssumption, Zenon
  <2>4. /\ file = 1 /\ at = "down" /\ current = NoConfig /\ loaded = NoConfig
        /\ observed = 0 /\ settled = 0 /\ todo = <<>> /\ edited = {}
        /\ settings = [h \in Hooks |-> "plain"] /\ rendered = FALSE /\ gaveUp = FALSE
    BY <1>1 DEF Init, ConfigInit
  <2>5. file \in Versions /\ observed \in Versions /\ settled \in Versions
    BY <2>2, <2>4
  <2>6. settings \in [Hooks -> Settings] /\ todo \in Seq(Hooks)
    BY <2>4 DEF Settings
  <2>7. ConfigTypes
    BY <2>2, <2>3, <2>4, <2>5, <2>6 DEF ConfigTypes
  <2>. QED
    BY <2>4, <2>7 DEF ConfigInv, ConfigsFit, LoadedInPlace, HooksInPlace, Up
<1>. QED
  BY <1>1, StepKeepsConfigs, PTL DEF Spec

\* While a config is in use its hooks are in the agents' settings but for those that
\* their users have edited since: for any configs, edits, failures and restarts.
THEOREM HooksStay == Spec => []HooksInPlace
<1>1. ConfigInv => HooksInPlace
  BY DEF ConfigInv
<1>. QED
  BY <1>1, ConfigInvariance, PTL
----------------------------------------------------------------------------
\* The parts of an event.

\* A function on 1 .. n is a sequence of that length.
LEMMA FunctionIsSeq ==
    ASSUME NEW n \in Nat, NEW S, NEW f \in [1 .. n -> S]
    PROVE  f \in Seq(S) /\ Len(f) = n
<1>1. f \in Seq(S)
  BY SeqDef
<1>2. 1 .. n = 1 .. Len(f) /\ Len(f) \in Nat
  BY <1>1, LenProperties
<1>. QED
  BY <1>1, <1>2

\* An event that was taken whole is not empty, and its parts say whose they are.
LEMMA WholeHasParts ==
    ASSUME NEW e, NEW cut \in 1 .. MaxParts
    PROVE  Whole(e, cut) # <<>> /\ Whole(e, cut)[1].event = e
  BY LongConnectionAssumption DEF Whole, Part

\* A part that is accepted goes to its place; the last one missing completes an event
\* that the router can normalise, as its sender wrote it.
LEMMA Accepted ==
    ASSUME FramesFit, hand = <<>>, NEW p \in Pieces, ~Unacceptable(p), Accept(p)
    PROVE  /\ fragments' \in [Events -> Seq(Slots)] /\ BuffersFit'
           /\ hand' # <<>> => /\ p.event \in Events \ Malformed
                              /\ hand'[1].event = p.event
                              /\ \E cut \in 1 .. MaxParts : hand' = Whole(p.event, cut)
<1> DEFINE e == p.event
           cut == p.of
           known == IF fragments[e] = <<>> THEN [n \in 1 .. cut |-> NoPart] ELSE fragments[e]
           parts == [known EXCEPT ![p.part] = p]
<1>1. /\ e \in Events /\ cut \in 1 .. MaxParts /\ p.part \in 1 .. cut /\ cut \in Nat
      /\ p = Part(e, p.part, cut)
  BY LongConnectionAssumption DEF Pieces, Part
<1>2. CASE cut = 1
  <2>1. hand' = <<p>> /\ UNCHANGED fragments
    BY <1>2 DEF Accept
  <2>2. Completes(p)
    BY <1>2 DEF Completes
  <2>3. p = Part(e, 1, 1)
    BY <1>1, <1>2
  <2>4. hand' = Whole(e, 1)
    BY <2>1, <2>3 DEF Whole
  <2>. QED
    BY <1>1, <1>2, <2>1, <2>2, <2>4, WholeHasParts
       DEF Unacceptable, FramesFit, LinkTypes, BuffersFit
<1>3. CASE cut # 1
  <2>1. /\ known \in Seq(Slots) /\ Len(known) = cut
        /\ \A n \in 1 .. cut : known[n] \in {NoPart, Part(e, n, cut)}
    <3>1. CASE fragments[e] = <<>>
      <4>1. [n \in 1 .. cut |-> NoPart] \in [1 .. cut -> Slots]
        BY DEF Slots
      <4>. QED
        BY <1>1, <3>1, <4>1, FunctionIsSeq
    <3>2. CASE fragments[e] # <<>>
      BY <1>1, <1>3, <3>2 DEF Unacceptable, SumChanged, FramesFit, LinkTypes, BuffersFit
    <3>. QED
      BY <3>1, <3>2
  <2>2. /\ parts \in Seq(Slots) /\ Len(parts) = cut
        /\ \A n \in 1 .. cut : parts[n] = IF n = p.part THEN p ELSE known[n]
    BY <1>1, <2>1, ExceptSeq DEF Slots
  <2>3. \A n \in 1 .. cut : parts[n] \in {NoPart, Part(e, n, cut)}
    BY <1>1, <2>1, <2>2
  <2>4. DOMAIN parts = 1 .. cut
    BY <2>2, LenProperties
  <2>5. CASE \E n \in DOMAIN parts : parts[n] = NoPart
    <3>1. fragments' = [fragments EXCEPT ![e] = parts] /\ hand' = <<>>
      BY <1>3, <2>5 DEF Accept
    <3>2. fragments' \in [Events -> Seq(Slots)]
      BY <1>1, <2>2, <3>1 DEF FramesFit, LinkTypes
    <3>3. ASSUME NEW d \in Events, NEW n \in 1 .. Len(fragments'[d])
          PROVE  fragments'[d][n] \in {NoPart, Part(d, n, Len(fragments'[d]))}
      <4>1. CASE d = e
        BY <1>1, <2>2, <2>3, <3>1, <3>3, <4>1 DEF FramesFit, LinkTypes
      <4>2. CASE d # e
        BY <1>1, <3>1, <3>3, <4>2 DEF FramesFit, LinkTypes, BuffersFit
      <4>. QED
        BY <4>1, <4>2
    <3>. QED
      BY <3>1, <3>2, <3>3 DEF BuffersFit
  <2>6. CASE \A n \in DOMAIN parts : parts[n] # NoPart
    <3>1. hand' = parts /\ fragments' = [fragments EXCEPT ![e] = <<>>]
      BY <1>3, <2>6 DEF Accept
    <3>2. parts = Whole(e, cut)
      <4>1. \A n \in 1 .. cut : parts[n] = Part(e, n, cut)
        BY <2>3, <2>4, <2>6
      <4>. QED
        BY <2>4, <4>1 DEF Whole
    <3>3. Completes(p)
      <4>1. fragments[e] # <<>>
        <5>1. PICK n \in 1 .. cut : n # p.part
          BY <1>1, <1>3
        <5>. QED
          BY <2>2, <2>4, <2>6, <5>1
      <4>2. known = fragments[e] /\ DOMAIN known = 1 .. cut
        BY <2>1, <4>1, LenProperties
      <4>. QED
        BY <2>2, <2>4, <2>6, <4>1, <4>2 DEF Completes
    <3>4. fragments' \in [Events -> Seq(Slots)]
      BY <3>1, EmptySeq DEF FramesFit, LinkTypes
    <3>5. \A d \in Events : fragments'[d] = <<>> \/ fragments'[d] = fragments[d]
      BY <3>1 DEF FramesFit, LinkTypes
    <3>6. BuffersFit'
      <4> SUFFICES ASSUME NEW d \in Events, NEW n \in 1 .. Len(fragments'[d])
                   PROVE  fragments'[d][n] \in {NoPart, Part(d, n, Len(fragments'[d]))}
        BY DEF BuffersFit
      <4>1. fragments'[d] # <<>>
        BY EmptySeq
      <4>. QED
        BY <3>5, <4>1 DEF FramesFit, BuffersFit
    <3>7. e \notin Malformed
      BY <3>3 DEF Unacceptable
    <3>8. hand' = Whole(e, cut) /\ hand'[1].event = e
      BY <1>1, <3>1, <3>2, WholeHasParts
    <3>. QED
      BY <1>1, <3>4, <3>6, <3>7, <3>8
  <2>. QED
    BY <2>5, <2>6
<1>. QED
  BY <1>2, <1>3
----------------------------------------------------------------------------
\* The connection.

\* What a connection leaves behind: no frame, no buffer, nothing half sent.
LEMMA DroppedFits ==
    ASSUME FramesFit, NEW place \in Places, Drop(place), round' \in Seq(Providers),
           UNCHANGED <<acked, decided, handed>>, cutOff' \subseteq Events
    PROVE  FramesFit'
<1>1. /\ link' = [at |-> place, to |-> NoApp] /\ quiet' = FALSE
      /\ frames' = <<>> /\ fragments' = [e \in Events |-> <<>>]
      /\ sending' = [e \in Events |-> NotSending]
  BY DEF Drop
<1>2. fragments' \in [Events -> Seq(Slots)] /\ BuffersFit'
  BY <1>1 DEF BuffersFit
<1>3. DOMAIN sending' = Events /\ SendingFits'
  BY <1>1 DEF SendingFits
<1>4. link' \in [at : Places, to : Providers \cup {NoApp}]
  BY <1>1
<1>5. frames' \in Seq(Frames)
  BY <1>1, EmptySeq
<1>6. /\ acked' \subseteq Events /\ decided' \subseteq Events \ Malformed
      /\ handed' \in [Events -> Nat]
  BY DEF FramesFit, LinkTypes
<1>. QED
  BY <1>1, <1>2, <1>3, <1>4, <1>5, <1>6 DEF FramesFit, LinkTypes

\* What is in hand is an event that was decided about.
LEMMA InHandIsDecided ==
    ASSUME LinkInv, link.at \in Answering
    PROVE  InHand \in decided /\ InHand \in Events
  BY DEF LinkInv, FramesFit, LinkTypes, AnswersFit, HandFits

\* The step keeps frames, buffers and types: one case per action that has any.
LEMMA KeepsFrames == ConfigInv /\ LinkInv /\ [Next]_vars => FramesFit'
<1> SUFFICES ASSUME ConfigInv, LinkInv, [Next]_vars PROVE FramesFit'
  OBVIOUS
<1>0. FramesFit
  BY DEF LinkInv
<1>1. ASSUME Fail, UNCHANGED <<acked, decided, handed>>, cutOff' \subseteq Events
      PROVE  FramesFit'
  BY <1>0, <1>1, DroppedFits DEF Fail, Places, FramesFit, LinkTypes
<1>2. cutOff \subseteq Events
  BY <1>0 DEF FramesFit, LinkTypes
<1>3. CASE UNCHANGED linkVars
  BY <1>0, <1>3 DEF linkVars, FramesFit, LinkTypes, SendingFits, BuffersFit
<1>4. CASE ReadTargets
  <2>1. current.serves \in Seq(Providers)
    BY <1>4, ConfigHasHooks DEF ReadTargets, ConfigInv, ConfigTypes, ConfigsFit, Up
  <2>2. link' \in [at : Places, to : Providers \cup {NoApp}]
    <3>1. link' = [link EXCEPT !.at = "idle"] \/ link' = [link EXCEPT !.at = "next"]
      BY <1>4 DEF ReadTargets
    <3>. QED
      BY <1>0, <3>1 DEF FramesFit, LinkTypes, Places
  <2>. QED
    BY <1>0, <1>4, <2>1, <2>2 DEF ReadTargets, FramesFit, LinkTypes, SendingFits, BuffersFit
<1>5. CASE NextApp
  <2>1. round # <<>> => Head(round) \in Providers /\ Tail(round) \in Seq(Providers)
    BY <1>0, HeadTailProperties DEF FramesFit, LinkTypes
  <2>2. /\ link' \in [at : Places, to : Providers \cup {NoApp}]
        /\ round' \in Seq(Providers)
    <3>1. CASE round = <<>>
      <4>1. link' = [at |-> "reading", to |-> NoApp] /\ round' = round
        BY <1>5, <3>1 DEF NextApp
      <4>. QED
        BY <1>0, <4>1 DEF FramesFit, LinkTypes, Places
    <3>2. CASE round # <<>>
      <4>1. link' = [at |-> "connecting", to |-> Head(round)] /\ round' = Tail(round)
        BY <1>5, <3>2 DEF NextApp
      <4>. QED
        BY <2>1, <3>2, <4>1 DEF Places
    <3>. QED
      BY <3>1, <3>2
  <2>3. UNCHANGED <<quiet, frames, fragments, hand, sending, acked, decided, handed, cutOff>>
    BY <1>5 DEF NextApp
  <2>. QED
    BY <1>0, <2>2, <2>3 DEF FramesFit, LinkTypes, SendingFits, BuffersFit
<1>6. CASE Connect
  BY <1>0, <1>6 DEF Connect, FramesFit, LinkTypes, SendingFits, BuffersFit, Places
<1>7. CASE ConnectFails
  BY <1>1, <1>2, <1>7 DEF ConnectFails
<1>8. ASSUME NEW e \in Events, NEW cut \in 1 .. MaxParts, BeginSend(e, cut) PROVE FramesFit'
  BY <1>0, <1>8, LongConnectionAssumption
     DEF BeginSend, FramesFit, LinkTypes, SendingFits, BuffersFit
<1>9. ASSUME NEW e \in Events, SendPart(e) PROVE FramesFit'
  <2>1. PICK cut \in 1 .. MaxParts, n \in 1 .. MaxParts :
            n <= cut /\ sending[e] = [cut |-> cut, next |-> n]
    BY <1>0, <1>9 DEF SendPart, FramesFit, SendingFits
  <2>2. EventFrame(Part(e, n, cut)) \in Frames
    BY <2>1, LongConnectionAssumption DEF EventFrame, Part, Frames, Pieces
  <2>3. frames' \in Seq(Frames)
    BY <1>0, <1>9, <2>1, <2>2, AppendProperties DEF SendPart, FramesFit, LinkTypes
  <2>4. sending' = [sending EXCEPT ![e] = IF n = cut THEN NotSending
                                          ELSE [cut |-> cut, next |-> n + 1]]
    <3>1. sending[e].cut = cut /\ sending[e].next = n
      BY <2>1
    <3>. QED
      BY <1>9, <3>1 DEF SendPart
  <2>5. SendingFits' /\ DOMAIN sending' = Events
    <3>1. n # cut => n + 1 \in 1 .. MaxParts /\ n + 1 <= cut
      BY <2>1, LongConnectionAssumption
    <3>. QED
      BY <1>0, <2>4, <3>1 DEF FramesFit, LinkTypes, SendingFits
  <2>. QED
    BY <1>0, <1>9, <2>3, <2>5 DEF SendPart, FramesFit, LinkTypes, BuffersFit
<1>10. ASSUME NEW kind \in {"other", "wrong"}, SendOdd(kind) PROVE FramesFit'
  <2>1. frames' \in Seq(Frames)
    BY <1>0, <1>10, AppendProperties DEF SendOdd, OddFrame, Frames, FramesFit, LinkTypes
  <2>. QED
    BY <1>0, <1>10, <2>1 DEF SendOdd, FramesFit, LinkTypes, SendingFits, BuffersFit
<1>11. CASE LinkBreaks
  BY <1>1, <1>2, <1>11 DEF LinkBreaks
<1>12. CASE GoesQuiet
  BY <1>0, <1>12 DEF GoesQuiet, FramesFit, LinkTypes, SendingFits, BuffersFit
<1>13. CASE Ping
  BY <1>1, <1>2, <1>13 DEF Ping
<1>14. CASE Receive
  <2>1. CASE Fail /\ UNCHANGED decided
    BY <1>1, <1>2, <1>14, <2>1 DEF Receive
  <2>2. CASE ~(Fail /\ UNCHANGED decided)
    <3> DEFINE f == Head(frames)
    <3>1. /\ f \in Frames /\ Tail(frames) \in Seq(Frames) /\ frames' = Tail(frames)
          /\ hand = <<>>
      BY <1>0, <1>14, <2>2, HeadTailProperties
         DEF Receive, FramesFit, LinkTypes, LinkInv, AnswersFit, HandFits, Answering
    <3>2. CASE f.kind = "event"
      <4>1. f.piece \in Pieces /\ ~Unacceptable(f.piece) /\ Accept(f.piece)
        BY <1>14, <2>2, <3>1, <3>2 DEF Receive, Frames
      <4>2. /\ fragments' \in [Events -> Seq(Slots)] /\ BuffersFit'
            /\ hand' # <<>> => f.piece.event \in Events \ Malformed
        BY <1>0, <3>1, <4>1, Accepted
      <4>3. decided' \subseteq Events \ Malformed
        BY <1>0, <1>14, <2>2, <4>2 DEF Receive, FramesFit, LinkTypes
      <4>4. link' \in [at : Places, to : Providers \cup {NoApp}]
        BY <1>0, <1>14, <2>2 DEF Receive, Answer, FramesFit, LinkTypes, Places, Answering
      <4>. QED
        BY <1>0, <1>14, <2>2, <3>1, <4>2, <4>3, <4>4 DEF Receive, FramesFit, LinkTypes, SendingFits
    <3>3. CASE f.kind # "event"
      BY <1>0, <1>14, <2>2, <3>1, <3>3
         DEF Receive, FramesFit, LinkTypes, SendingFits, BuffersFit
    <3>. QED
      BY <3>2, <3>3
  <2>. QED
    BY <2>1, <2>2
<1>15. CASE SendAck
  BY <1>0, <1>15, InHandIsDecided
     DEF SendAck, FramesFit, LinkTypes, SendingFits, BuffersFit, Places, Answering
<1>16. CASE AckFails
  BY <1>1, <1>2, <1>16, InHandIsDecided DEF AckFails, Answering
<1>17. CASE HandOn
  <2>1. link' \in [at : Places, to : Providers \cup {NoApp}]
    BY <1>0, <1>17 DEF HandOn, FramesFit, LinkTypes, Places
  <2>2. handed' \in [Events -> Nat]
    BY <1>0, <1>17, InHandIsDecided DEF HandOn, FramesFit, LinkTypes, Answering
  <2>. QED
    BY <1>0, <1>17, <2>1, <2>2 DEF HandOn, FramesFit, LinkTypes, SendingFits, BuffersFit
<1>18. CASE Stop
  <2>1. cutOff' \subseteq Events
    BY <1>2, <1>18, InHandIsDecided DEF Stop, Answering
  <2>. QED
    BY <1>0, <1>18, <2>1, DroppedFits DEF Stop, Places
<1>. QED
  BY <1>3, <1>4, <1>5, <1>6, <1>7, <1>8, <1>9, <1>10, <1>11, <1>12, <1>13, <1>14, <1>15, <1>16,
     <1>17, <1>18
     DEF Next, LinkNext, SupervisorStep, AnswerStep, PlatformStep, vars
\* A step that does not touch the event in hand keeps what is promised of events.
LEMMA AnswersStand ==
    ASSUME LinkInv, UNCHANGED <<hand, acked, decided, handed, cutOff>>,
           \/ link'.at = link.at
           \/ link.at \notin Answering /\ link'.at \notin Answering
    PROVE  AnswersFit'
<1>1. (link.at \in Answering \/ link'.at \in Answering) => link'.at = link.at
  OBVIOUS
<1>2. InHand' = InHand
  BY DEF InHand
<1>. QED
  BY <1>1, <1>2 DEF LinkInv, AnswersFit, HandFits, DecidedIsHandled, AckedIsDecided, RepliesOnce,
                    UnderWay, Answering

\* An event whose answer ends with the connection is noted as cut off.
LEMMA AnswersCutOff ==
    ASSUME LinkInv, NEW place \in Places \ Answering, Drop(place),
           UNCHANGED <<acked, decided, handed>>,
           cutOff' = IF link.at \in {"acking", "handing"} THEN cutOff \cup {InHand} ELSE cutOff
    PROVE  AnswersFit'
<1>1. link'.at \notin Answering /\ hand' = <<>>
  BY DEF Drop
<1>2. HandFits'
  BY <1>1 DEF HandFits
<1>3. \A e \in decided : handed[e] > 0 \/ e \in cutOff'
  BY DEF LinkInv, AnswersFit, DecidedIsHandled, UnderWay
<1>4. DecidedIsHandled'
  BY <1>3 DEF DecidedIsHandled
<1>5. AckedIsDecided'
  BY <1>3 DEF LinkInv, AnswersFit, AckedIsDecided
<1>6. RepliesOnce'
  BY <1>1 DEF LinkInv, AnswersFit, RepliesOnce, UnderWay, Answering
<1>. QED
  BY <1>2, <1>4, <1>5, <1>6 DEF AnswersFit

\* Receive takes an event up: one that was claimed before is not handed on again.
LEMMA ReceiveKeeps == LinkInv /\ Receive => AnswersFit'
<1> SUFFICES ASSUME LinkInv, Receive PROVE AnswersFit'
  OBVIOUS
<1>0. link.at = "receiving" /\ hand = <<>> /\ UNCHANGED <<acked, handed, cutOff>>
  BY DEF Receive, LinkInv, AnswersFit, HandFits, Answering
<1>1. CASE Fail /\ UNCHANGED decided
  BY <1>0, <1>1, AnswersCutOff DEF Fail, Places, Answering
<1>2. CASE ~(Fail /\ UNCHANGED decided)
  <2> DEFINE f == Head(frames)
  <2>1. /\ f \in Frames
        /\ IF f.kind = "event" THEN Accept(f.piece) ELSE UNCHANGED <<fragments, hand>>
        /\ IF hand' # <<>>
           THEN Answer(f.piece.event) /\ decided' = decided \cup {f.piece.event}
           ELSE UNCHANGED <<link, decided>>
    BY <1>2, HeadTailProperties DEF Receive, LinkInv, FramesFit, LinkTypes
  <2>2. CASE hand' = <<>>
    BY <1>0, <2>1, <2>2, AnswersStand
  <2>3. CASE hand' # <<>>
    <3> DEFINE e == f.piece.event
    <3>1. f.kind = "event" /\ f.piece \in Pieces /\ ~Unacceptable(f.piece)
      BY <1>0, <1>2, <2>1, <2>3 DEF Receive, Frames
    <3>2. /\ InHand' = e /\ e \in Events
          /\ \E cut \in 1 .. MaxParts : hand' = Whole(InHand', cut)
      BY <1>0, <2>1, <2>3, <3>1, Accepted DEF InHand, LinkInv
    <3>3. /\ decided' = decided \cup {e}
          /\ link'.at = IF e \in Replies \cap decided THEN "skipping" ELSE "acking"
      BY <2>1, <2>3 DEF Answer, LinkInv, FramesFit, LinkTypes
    <3>4. /\ \A d \in decided : handed[d] > 0 \/ d \in cutOff
          /\ \A d \in acked : d \in decided /\ (handed[d] > 0 \/ d \in cutOff)
          /\ \A d \in Replies : handed[d] > 0 => d \in decided
      BY <1>0 DEF LinkInv, AnswersFit, DecidedIsHandled, AckedIsDecided, RepliesOnce, UnderWay
    <3>5. HandFits'
      BY <3>2, <3>3 DEF HandFits, Answering
    <3>6. DecidedIsHandled'
      BY <1>0, <3>2, <3>3, <3>4 DEF DecidedIsHandled, UnderWay
    <3>7. AckedIsDecided'
      BY <1>0, <3>3, <3>4 DEF AckedIsDecided
    <3>8. RepliesOnce'
      <4>1. \A d \in Replies : d \in Events /\ handed[d] \in Nat
        BY LongConnectionAssumption DEF LinkInv, FramesFit, LinkTypes
      <4>2. UnderWay(e)' => e \notin Replies \cap decided
        BY <3>3 DEF UnderWay
      <4>. QED
        BY <1>0, <3>2, <3>3, <3>4, <4>1, <4>2 DEF LinkInv, AnswersFit, RepliesOnce, UnderWay
    <3>. QED
      BY <3>5, <3>6, <3>7, <3>8 DEF AnswersFit
  <2>. QED
    BY <2>2, <2>3
<1>. QED
  BY <1>1, <1>2

\* The acknowledgement is of an event that is handed on next, or was before.
LEMMA SendAckKeeps == LinkInv /\ SendAck => AnswersFit'
<1> SUFFICES ASSUME LinkInv, SendAck PROVE AnswersFit'
  OBVIOUS
<1>1. /\ link.at \in {"acking", "skipping"} /\ InHand \in decided
      /\ UNCHANGED <<decided, handed, cutOff>>
      /\ acked' \subseteq acked \cup {InHand}
  BY InHandIsDecided DEF SendAck, Answering
<1>2. \A d \in decided : handed[d] > 0 \/ d \in cutOff \/ UnderWay(d)
  BY DEF LinkInv, AnswersFit, DecidedIsHandled
<1>3. \A d \in acked : d \in decided /\ (handed[d] > 0 \/ d \in cutOff)
  BY <1>1 DEF LinkInv, AnswersFit, AckedIsDecided
<1>4. CASE link.at = "acking"
  <2>1. link'.at = "handing" /\ hand' = hand /\ InHand' = InHand
    BY <1>4 DEF SendAck, LinkInv, FramesFit, LinkTypes, InHand
  <2>. QED
    BY <1>1, <1>2, <1>3, <1>4, <2>1
       DEF LinkInv, AnswersFit, HandFits, DecidedIsHandled, AckedIsDecided, RepliesOnce, UnderWay,
           Answering
<1>5. CASE link.at = "skipping"
  <2>1. link'.at = "receiving" /\ hand' = <<>>
    BY <1>5 DEF SendAck, LinkInv, FramesFit, LinkTypes
  <2>2. \A d \in decided : handed[d] > 0 \/ d \in cutOff
    BY <1>2, <1>5 DEF UnderWay
  <2>. QED
    BY <1>1, <1>3, <2>1, <2>2
       DEF LinkInv, AnswersFit, HandFits, DecidedIsHandled, AckedIsDecided, RepliesOnce, UnderWay,
           Answering
<1>. QED
  BY <1>1, <1>4, <1>5

\* The event in hand is handed on, a reply for the first time.
LEMMA HandOnKeeps == LinkInv /\ HandOn => AnswersFit'
<1> SUFFICES ASSUME LinkInv, HandOn PROVE AnswersFit'
  OBVIOUS
<1>1. /\ link.at = "handing" /\ InHand \in decided /\ InHand \in Events /\ UnderWay(InHand)
      /\ handed \in [Events -> Nat]
  BY InHandIsDecided DEF HandOn, Answering, UnderWay, LinkInv, FramesFit, LinkTypes
<1>2. /\ link'.at = "receiving" /\ hand' = <<>> /\ UNCHANGED <<acked, decided, cutOff>>
      /\ handed' = [handed EXCEPT ![InHand] = @ + 1]
  BY DEF HandOn, LinkInv, FramesFit, LinkTypes
<1>3. HandFits'
  BY <1>2 DEF HandFits, Answering
<1>4. /\ handed'[InHand] = handed[InHand] + 1 /\ handed'[InHand] > 0
      /\ \A d \in Events \ {InHand} : handed'[d] = handed[d]
  BY <1>1, <1>2
<1>5. decided \subseteq Events /\ acked \subseteq Events /\ Replies \subseteq Events
  BY LongConnectionAssumption DEF LinkInv, FramesFit, LinkTypes
<1>6. DecidedIsHandled'
  BY <1>2, <1>4, <1>5 DEF LinkInv, AnswersFit, DecidedIsHandled, UnderWay
<1>7. AckedIsDecided'
  BY <1>2, <1>4, <1>5 DEF LinkInv, AnswersFit, AckedIsDecided
<1>8. RepliesOnce'
  BY <1>1, <1>2, <1>4, <1>5 DEF LinkInv, AnswersFit, RepliesOnce, UnderWay
<1>. QED
  BY <1>3, <1>6, <1>7, <1>8 DEF AnswersFit

\* Each step keeps what is promised of the events that were decided about.
LEMMA KeepsAnswers == LinkInv /\ [Next]_vars => AnswersFit'
<1> SUFFICES ASSUME LinkInv, [Next]_vars PROVE AnswersFit'
  OBVIOUS
<1>0. \A place : link' = [link EXCEPT !.at = place] => link'.at = place
  BY DEF LinkInv, FramesFit, LinkTypes
<1>1. CASE UNCHANGED linkVars
  BY <1>1, AnswersStand DEF linkVars
<1>2. CASE ReadTargets
  BY <1>0, <1>2, AnswersStand DEF ReadTargets, Answering
<1>3. CASE NextApp
  BY <1>3, AnswersStand DEF NextApp, Answering
<1>4. CASE Connect
  BY <1>0, <1>4, AnswersStand DEF Connect, Answering
<1>5. CASE ConnectFails
  BY <1>5, AnswersCutOff DEF ConnectFails, Fail, Places, Answering
<1>6. ASSUME NEW e \in Events, NEW cut \in 1 .. MaxParts, BeginSend(e, cut) PROVE AnswersFit'
  BY <1>6, AnswersStand DEF BeginSend
<1>7. ASSUME NEW e \in Events, SendPart(e) PROVE AnswersFit'
  BY <1>7, AnswersStand DEF SendPart
<1>8. ASSUME NEW kind \in {"other", "wrong"}, SendOdd(kind) PROVE AnswersFit'
  BY <1>8, AnswersStand DEF SendOdd
<1>9. CASE LinkBreaks
  BY <1>9, AnswersCutOff DEF LinkBreaks, Fail, Places, Answering
<1>10. CASE GoesQuiet
  BY <1>10, AnswersStand DEF GoesQuiet
<1>11. CASE Ping
  BY <1>11, AnswersCutOff DEF Ping, Fail, Places, Answering
<1>12. CASE AckFails
  BY <1>12, AnswersCutOff DEF AckFails, Fail, Places, Answering
<1>13. CASE Stop
  BY <1>13, AnswersCutOff DEF Stop, Places, Answering
<1>. QED
  BY <1>1, <1>2, <1>3, <1>4, <1>5, <1>6, <1>7, <1>8, <1>9, <1>10, <1>11, <1>12, <1>13,
     ReceiveKeeps, SendAckKeeps, HandOnKeeps
     DEF Next, LinkNext, SupervisorStep, AnswerStep, PlatformStep, vars

\* The invariant of the connection, for any apps, events, cuts, breaks and stops.
THEOREM LinkInvariance == Spec => []LinkInv
<1>1. ASSUME Init PROVE LinkInv
  <2>1. LinkTypes
    BY <1>1, EmptySeq DEF Init, LinkInit, LinkTypes, Places
  <2>2. SendingFits /\ BuffersFit
    BY <1>1 DEF Init, LinkInit, SendingFits, BuffersFit
  <2>3. HandFits /\ DecidedIsHandled /\ AckedIsDecided
    BY <1>1 DEF Init, LinkInit, HandFits, DecidedIsHandled, AckedIsDecided, Answering
  <2>4. RepliesOnce
    BY <1>1, LongConnectionAssumption DEF Init, LinkInit, RepliesOnce, UnderWay
  <2>. QED
    BY <2>1, <2>2, <2>3, <2>4 DEF LinkInv, FramesFit, AnswersFit
<1>2. ConfigInv /\ LinkInv /\ [Next]_vars => LinkInv'
  BY KeepsFrames, KeepsAnswers DEF LinkInv
<1>. QED
  BY <1>1, <1>2, ConfigInvariance, PTL DEF Spec

\* An event that has its acknowledgement was decided about as its sender wrote it, and
\* handed on unless its answer was cut off; a reply is handed on once at most.
THEOREM AckedEventIsHandled == Spec => []AckedIsHandled
<1>1. LinkInv => AckedIsHandled
  BY WholeHasParts
     DEF LinkInv, FramesFit, LinkTypes, AnswersFit, HandFits, AckedIsDecided, RepliesOnce,
         AckedIsHandled, EventIsWhole
<1>. QED
  BY <1>1, LinkInvariance, PTL

\* The variables have their types, for any values of the constants.
THEOREM TypeCorrect == Spec => []TypeOK
<1>1. ConfigInv /\ LinkInv => TypeOK
  BY DEF ConfigInv, ConfigTypes, LinkInv, FramesFit, LinkTypes, TypeOK, Places
<1>. QED
  BY <1>1, ConfigInvariance, LinkInvariance, PTL
=============================================================================
