------------------------- MODULE ConfigFlow_proofs -------------------------
(***************************************************************************)
(* Theorems about ConfigFlow, for either set of collectors and any number  *)
(* of saves, edits by hand and crashes.                                    *)
(***************************************************************************)
EXTENDS ConfigFlow, FiniteSetTheorems, TLAPS

-----------------------------------------------------------------------------
(* The inductive invariant *)

\* What is in the helper's hands: a proposal from when it has opened one until it
\* has ruled on it.
HelperInv ==
    /\ helper \in {"idle", "open", "reload"} => held = None
    /\ helper = "install" => held # None

\* The staged and the held proposal are saves, of the two the staged one is the
\* later, and they are all that is under way.
BoxInv ==
    /\ staged # None => staged.no \in Saved
    /\ held # None => held.no \in Saved /\ fate[held.no] = "held"
    /\ staged # None /\ held # None =>
         held.no <= staged.no /\ (held.no = staged.no => held = staged)
    /\ \A n \in Saved :
         /\ fate[n] = "held" => held # None /\ held.no = n
         /\ fate[n] = "staged" => staged # None /\ staged.no = n /\ staged # held
    \* Nothing starts the helper on a proposal that a power cut has stranded.
    /\ staged # None /\ (event \/ helper # "idle") => fate[staged.no] \in {"staged", "held"}

\* What the web app's handlers have found running, or are about to assign, it may run on.
FramesInv ==
    /\ \A i \in DOMAIN frames : Usable(frames[i].config)
    /\ running["web"] = None => frames = <<>> /\ "web" \notin hup

\* What the web app may be left with.
Settles(c) == Stays(c) \/ c \in overtaken

\* What an interrupted handler had read has been noted.  Unless a SIGHUP has to be
\* sent or handled first, the web app runs on what it may be left with, or the
\* innermost handler has still to read, or is about to assign that.
WebInv ==
    /\ \A i \in 1..(Len(frames) - 1) : frames[i].read => frames[i].config \in overtaken
    /\ ~byHand /\ helper # "reload" /\ "web" \notin hup /\ running["web"] # None =>
         IF frames = <<>> THEN Settles(running["web"]) ELSE ~Top.read \/ Settles(Top.config)

BoxIInv == TypeOK /\ HelperInv /\ BoxInv
RunsIInv == TypeOK /\ OnlyUsableFiles /\ FramesInv
WebIInv == RunsIInv /\ WebInv

-----------------------------------------------------------------------------
(* Configurations and fates *)

LEMMA ConfigFacts ==
    /\ None \notin Configs /\ None.no = 0 /\ Shipped \in Configs /\ Shipped.no = 0
    /\ Usable(Shipped) /\ ~Loads(None)
    /\ \A c \in Configs : c.no \in Nat /\ c.kind \in Kinds
    /\ \A c \in Configs \cup {None} : c.no \in Nat
BY DEF Configs, None, Shipped, Kinds, Usable, Loads

\* g is f, with the fate of save n settled.
IsSettled(g, f, n, how) ==
    /\ g \in Seq(Fates) /\ Len(g) = Len(f)
    /\ \A i \in 1..Len(f) : g[i] = IF i = n THEN how ELSE f[i]

LEMMA Settled ==
    ASSUME NEW f \in Seq(Fates), NEW n \in Nat, NEW how \in Fates
    PROVE  IsSettled(Settle(f, n, how), f, n, how)
<1>1. CASE n = 0
  BY <1>1 DEF Settle, IsSettled
<1>2. CASE n # 0
  <2>1. f \in [1..Len(f) -> Fates]
    OBVIOUS
  <2>2. [f EXCEPT ![n] = how] \in [1..Len(f) -> Fates]
    BY <2>1
  <2>3. \A i \in 1..Len(f) : [f EXCEPT ![n] = how][i] = IF i = n THEN how ELSE f[i]
    BY <2>1
  <2> QED BY <1>2, <2>2, <2>3 DEF Settle, IsSettled
<1> QED BY <1>1, <1>2

LEMMA Posted ==
    ASSUME NEW f \in Seq(Fates)
    PROVE  /\ Append(f, "staged") \in Seq(Fates)
           /\ Len(Append(f, "staged")) = Len(f) + 1
           /\ Append(f, "staged")[Len(f) + 1] = "staged"
           /\ \A i \in 1..Len(f) : Append(f, "staged")[i] = f[i]
<1>1. "staged" \in Fates
  BY DEF Fates
<1> QED BY <1>1

LEMMA FateWords ==
    {"staged", "held", "unread", "settled"} \subseteq Fates
BY DEF Fates

LEMMA Resumed ==
    ASSUME NEW there \in BOOLEAN, Resume(there)
    PROVE  event' \in BOOLEAN /\ existed' \in BOOLEAN
BY Zenon DEF Resume

\* The helper's ruling, in one place.
LEMMA Ruled ==
    ASSUME TypeOK, NEW next \in {"idle", "reload"}, Rule(next)
    PROVE  /\ held' = None /\ helper' = next
           /\ fate' \in Seq(Fates) /\ Len(fate') = Len(fate)
           /\ \A i \in 1..Len(fate) :
                fate'[i] = IF i = held.no THEN IF staged = held THEN "staged" ELSE "settled" ELSE fate[i]
           /\ event' \in BOOLEAN /\ existed' \in BOOLEAN
<1>1. PICK n \in Nat : n = held.no
  BY ConfigFacts DEF TypeOK
<1>2. fate \in Seq(Fates)
  BY DEF TypeOK
<1>3. PICK verdict \in Fates : verdict = IF staged = held THEN "staged" ELSE "settled"
  BY FateWords
<1>4. /\ fate' \in Seq(Fates) /\ Len(fate') = Len(fate)
      /\ \A i \in 1..Len(fate) : fate'[i] = IF i = held.no THEN verdict ELSE fate[i]
  <2>1. fate' = Settle(fate, n, verdict)
    BY <1>1, <1>3 DEF Rule
  <2>2. IsSettled(Settle(fate, n, verdict), fate, n, verdict)
    BY <1>2, Settled
  <2> QED BY <1>1, <2>1, <2>2 DEF IsSettled
<1>5. event' \in BOOLEAN /\ existed' \in BOOLEAN
  <2>1. CASE next = "idle"
    <3>1. (staged # None) \in BOOLEAN
      OBVIOUS
    <3> QED BY <2>1, <3>1, Resumed DEF Rule
  <2>2. CASE next = "reload"
    <3>1. UNCHANGED <<event, existed>>
      BY <2>2 DEF Rule, pathVars
    <3> QED BY <3>1 DEF TypeOK
  <2> QED BY <2>1, <2>2
<1> QED BY <1>3, <1>4, <1>5 DEF Rule

\* Opening a proposal, in one place.
LEMMA Opened ==
    ASSUME TypeOK, staged # None, NEW how \in Fates, fate' = Settle(fate, staged.no, how)
    PROVE  /\ fate' \in Seq(Fates) /\ Len(fate') = Len(fate)
           /\ \A i \in 1..Len(fate) : fate'[i] = IF i = staged.no THEN how ELSE fate[i]
<1>1. PICK n \in Nat : n = staged.no
  BY ConfigFacts DEF TypeOK
<1>2. fate \in Seq(Fates)
  BY DEF TypeOK
<1>3. fate' = Settle(fate, n, how)
  BY <1>1
<1>4. IsSettled(Settle(fate, n, how), fate, n, how)
  BY <1>2, Settled
<1> QED BY <1>1, <1>3, <1>4 DEF IsSettled

\* A save adds its own fate, and settles that of the one it replaces.
LEMMA Saving ==
    ASSUME TypeOK, Save
    PROVE  /\ fate' \in Seq(Fates) /\ Len(fate') = Len(fate) + 1
           /\ fate'[Len(fate) + 1] = "staged"
           /\ \A i \in 1..Len(fate) :
                fate'[i] = IF staged # held /\ staged # None /\ i = staged.no
                           THEN "settled" ELSE fate[i]
           /\ staged' \in Configs /\ staged'.no = Len(fate) + 1
<1>1. PICK n \in Nat : n = staged.no
  BY ConfigFacts DEF TypeOK
<1>2. fate \in Seq(Fates) /\ "settled" \in Fates
  BY FateWords DEF TypeOK
<1>3. PICK older \in Seq(Fates) :
        /\ older = IF staged = held THEN fate ELSE Settle(fate, n, "settled")
        /\ Len(older) = Len(fate)
        /\ \A i \in 1..Len(fate) : older[i] = IF staged # held /\ i = n THEN "settled" ELSE fate[i]
  <2>1. CASE staged = held
    BY <1>2, <2>1
  <2>2. CASE staged # held
    BY <1>2, <2>2, Settled DEF IsSettled
  <2> QED BY <2>1, <2>2
<1>4. fate' = Append(older, "staged")
  BY <1>1, <1>3 DEF Save
<1>5. /\ Append(older, "staged") \in Seq(Fates)
      /\ Len(Append(older, "staged")) = Len(older) + 1
      /\ Append(older, "staged")[Len(older) + 1] = "staged"
      /\ \A i \in 1..Len(older) : Append(older, "staged")[i] = older[i]
  BY Posted
<1>6. staged' \in Configs /\ staged'.no = Len(fate) + 1
  BY <1>2 DEF Save, Configs
<1>7. staged = None => n = 0
  BY <1>1, ConfigFacts
<1> QED BY <1>1, <1>3, <1>4, <1>5, <1>6, <1>7

\* What a power cut makes of the saves under way.
LEMMA Cut ==
    ASSUME TypeOK, PowerCut
    PROVE  /\ fate' \in Seq(Fates) /\ Len(fate') = Len(fate)
           /\ \A i \in 1..Len(fate) :
                fate'[i] = IF i \in {staged.no, held.no} THEN "settled" ELSE fate[i]
<1>1. PICK n \in Nat : n = staged.no
  BY ConfigFacts DEF TypeOK
<1>2. PICK m \in Nat : m = held.no
  BY ConfigFacts DEF TypeOK
<1>3. fate \in Seq(Fates)
  BY DEF TypeOK
<1>4. PICK first \in Seq(Fates) :
        /\ first = Settle(fate, m, "settled") /\ Len(first) = Len(fate)
        /\ \A i \in 1..Len(fate) : first[i] = IF i = m THEN "settled" ELSE fate[i]
  <2>1. IsSettled(Settle(fate, m, "settled"), fate, m, "settled")
    <3>1. "settled" \in Fates
      BY FateWords
    <3> QED BY <1>3, <3>1, Settled
  <2> QED BY <2>1 DEF IsSettled
<1>5. PICK second \in Seq(Fates) :
        /\ second = Settle(first, n, "settled") /\ Len(second) = Len(first)
        /\ \A i \in 1..Len(first) : second[i] = IF i = n THEN "settled" ELSE first[i]
  <2>1. IsSettled(Settle(first, n, "settled"), first, n, "settled")
    <3>1. "settled" \in Fates
      BY FateWords
    <3> QED BY <3>1, Settled
  <2> QED BY <2>1 DEF IsSettled
<1>6. fate' = second
  BY <1>1, <1>2, <1>4, <1>5 DEF PowerCut
<1> QED BY <1>1, <1>2, <1>4, <1>5, <1>6

-----------------------------------------------------------------------------
(* Types *)

LEMMA FramesGrow ==
    ASSUME TypeOK
    PROVE  /\ <<>> \in Seq(Frames)
           /\ \A f \in Frames : Append(frames, f) \in Seq(Frames)
           /\ frames # <<>> => /\ Len(frames) \in Nat \ {0} /\ Top \in Frames
                              /\ SubSeq(frames, 1, Len(frames) - 1) \in Seq(Frames)
                              /\ \A f \in Frames : [frames EXCEPT ![Len(frames)] = f] \in Seq(Frames)
<1>1. frames \in Seq(Frames)
  BY DEF TypeOK
<1>2. ASSUME frames # <<>>
      PROVE  /\ Len(frames) \in Nat \ {0} /\ Top \in Frames
             /\ SubSeq(frames, 1, Len(frames) - 1) \in Seq(Frames)
  <2> HIDE DEF Frames
  <2> QED BY <1>1, <1>2 DEF Top
<1>3. ASSUME frames # <<>>, NEW f \in Frames
      PROVE  [frames EXCEPT ![Len(frames)] = f] \in Seq(Frames)
  BY <1>1, <1>3
<1> QED BY <1>1, <1>2, <1>3

LEMMA FrameFields ==
    /\ \A f \in Frames : f.read \in BOOLEAN /\ f.config \in Configs \cup {None}
    /\ \A c \in Configs \cup {None} :
                           /\ [read |-> FALSE, config |-> c] \in Frames
                           /\ [read |-> TRUE, config |-> c] \in Frames
BY DEF Frames

LEMMA ReloadedTypes ==
    ASSUME TypeOK
    PROVE  /\ \A s \in Services : Reloaded(file, running[s]) \in Configs \cup {None}
           /\ \A c \in Configs \cup {None} : Reloaded(file, c) \in Configs \cup {None}
BY DEF TypeOK, Reloaded

LEMMA TypesKept == TypeOK /\ [Next]_vars => TypeOK'
<1> SUFFICES ASSUME TypeOK, [Next]_vars PROVE TypeOK'
  OBVIOUS
<1> USE ConfigAssumption DEF pathVars, helperVars, serviceVars, serviceFrame
<1>1. CASE Save
  BY <1>1, Saving DEF TypeOK, Save
<1>2. CASE EditByHand
  <2>1. file' \in Configs
    BY <1>2, ConfigFacts DEF EditByHand, Configs, TypeOK
  <2>2. edits' \in 0..MaxChanges /\ hup' \subseteq Services
    BY <1>2 DEF EditByHand, TypeOK
  <2> QED BY <1>2, <2>1, <2>2 DEF TypeOK, EditByHand
<1>3. CASE PathFires
  BY <1>3 DEF TypeOK, PathFires
<1>4. CASE Open
  <2>1. CASE staged = None /\ helper' = "reload" /\ UNCHANGED <<pathVars, held, fate, crashes>>
    BY <1>4, <2>1 DEF TypeOK, Open
  <2>2. CASE /\ staged # None /\ helper' = "consume" /\ held' = staged
             /\ fate' = Settle(fate, staged.no, "held") /\ UNCHANGED <<pathVars, crashes>>
    <3>1. fate' \in Seq(Fates)
      BY <2>2, FateWords, Opened
    <3> QED BY <1>4, <2>2, <3>1 DEF TypeOK, Open
  <2>3. CASE Crash /\ helper' = "consume" /\ UNCHANGED <<pathVars, held, fate>>
    BY <1>4, <2>3 DEF TypeOK, Open, Crash
  <2> QED BY <1>4, <2>1, <2>2, <2>3 DEF Open
<1>5. CASE Consume
  <2>1. event' \in BOOLEAN /\ existed' \in BOOLEAN /\ helper' \in {"idle", "install"}
    <3>1. (staged' # None) \in BOOLEAN
      OBVIOUS
    <3>2. CASE held = None
      BY <1>5, <3>1, <3>2, Resumed DEF Consume
    <3>3. CASE held # None
      BY <1>5, <3>3 DEF Consume, TypeOK
    <3> QED BY <3>2, <3>3
  <2>2. staged' \in {staged, None} /\ crashes' \in 0..MaxCrashes
    BY <1>5 DEF Consume, Crash, TypeOK
  <2>3. fate' \in Seq(Fates)
    <3>1. CASE fate' = fate
      BY <3>1 DEF TypeOK
    <3>2. CASE staged # None /\ fate' = Settle(fate, staged.no, "unread")
      BY <3>2, FateWords, Opened
    <3> QED BY <1>5, <3>1, <3>2 DEF Consume
  <2> QED BY <1>5, <2>1, <2>2, <2>3 DEF TypeOK, Consume
<1>6. CASE Install
  <2>1. file' \in Configs /\ byHand' \in BOOLEAN /\ crashes' \in 0..MaxCrashes
    <3>1. Usable(held) => held \in Configs
      BY ConfigFacts DEF TypeOK, Usable
    <3>2. /\ file' = file \/ (file' = held /\ Usable(held))
          /\ byHand' = FALSE \/ byHand' = byHand
          /\ crashes' = crashes \/ Crash
      BY <1>6 DEF Install
    <3>3. file' \in Configs
      BY <3>1, <3>2 DEF TypeOK
    <3>4. byHand' \in BOOLEAN
      <4>1. byHand \in BOOLEAN
        BY DEF TypeOK
      <4> QED BY <3>2, <4>1, Zenon
    <3>5. crashes' \in 0..MaxCrashes
      BY <3>2 DEF TypeOK, Crash
    <3> QED BY <3>3, <3>4, <3>5
  <2>2. /\ held' = None /\ helper' \in {"idle", "reload"} /\ fate' \in Seq(Fates)
        /\ event' \in BOOLEAN /\ existed' \in BOOLEAN
    BY <1>6, Ruled DEF Install
  <2> QED BY <1>6, <2>1, <2>2 DEF TypeOK, Install
<1>7. CASE Reload
  <2>1. event' \in BOOLEAN /\ existed' \in BOOLEAN
    <3>1. (staged # None) \in BOOLEAN
      OBVIOUS
    <3> QED BY <1>7, <3>1, Resumed DEF Reload
  <2>2. hup' \subseteq Services
    BY <1>7 DEF Reload, TypeOK
  <2> QED BY <1>7, <2>1, <2>2 DEF TypeOK, Reload
<1>8. CASE \E s \in Collectors : CollectorSignalled(s)
  BY <1>8 DEF TypeOK, CollectorSignalled
<1>9. CASE \E s \in Collectors : Rebuild(s)
  <2>1. PICK s \in Collectors : Rebuild(s)
    BY <1>9
  <2>2. s \in Services /\ Reloaded(file, running[s]) \in Configs \cup {None}
    BY ReloadedTypes DEF Services
  <2>3. running' \in [Services -> Configs \cup {None}]
    BY <2>1, <2>2 DEF Rebuild, TypeOK
  <2>4. hup' \subseteq Services /\ asked' \subseteq Collectors
    BY <2>1 DEF Rebuild, TypeOK
  <2> QED BY <2>1, <2>3, <2>4 DEF Rebuild, TypeOK
<1>10. CASE Web
  <2>1. "web" \in Services
    BY DEF Services
  <2>2. CASE WebSignalled
    <3>1. running["web"] \in Configs \cup {None}
      BY <2>1 DEF TypeOK
    <3>2. frames' \in Seq(Frames)
      BY <2>2, <3>1, FramesGrow, FrameFields DEF WebSignalled
    <3>3. overtaken' \subseteq Configs \cup {None}
      <4>1. CASE frames = <<>>
        BY <2>2, <4>1 DEF WebSignalled
      <4>2. CASE frames # <<>>
        <5>1. Top.config \in Configs \cup {None} /\ overtaken \subseteq Configs \cup {None}
          BY <4>2, FramesGrow, FrameFields DEF TypeOK
        <5> QED BY <2>2, <4>2, <5>1 DEF WebSignalled
      <4> QED BY <4>1, <4>2
    <3> QED BY <2>2, <3>2, <3>3 DEF WebSignalled, TypeOK
  <2>3. CASE WebReads
    <3>1. frames' \in Seq(Frames)
      <4>1. Reloaded(file, Top.config) \in Configs \cup {None}
        BY <2>3, FramesGrow, FrameFields, ReloadedTypes DEF WebReads
      <4> QED BY <2>3, <4>1, FramesGrow, FrameFields DEF WebReads
    <3>2. running' \in [Services -> Configs \cup {None}] /\ hup' \subseteq Services
      BY <2>1, <2>3 DEF WebReads, TypeOK
    <3>3. overtaken' \subseteq Configs \cup {None}
      BY <2>3 DEF WebReads, TypeOK
    <3> QED BY <2>3, <3>1, <3>2, <3>3 DEF WebReads, TypeOK
  <2>4. CASE WebAssigns
    <3>1. frames' \in Seq(Frames)
      BY <2>4, FramesGrow DEF WebAssigns
    <3>2. Top.config \in Configs \cup {None}
      BY <2>4, FramesGrow, FrameFields DEF WebAssigns
    <3>3. running' \in [Services -> Configs \cup {None}]
      BY <2>1, <2>4, <3>2 DEF WebAssigns, TypeOK
    <3> QED BY <2>4, <3>1, <3>3 DEF WebAssigns, TypeOK
  <2> QED BY <1>10, <2>2, <2>3, <2>4 DEF Web
<1>11. CASE \E s \in Services : Stop(s) \/ Start(s)
  <2>1. PICK s \in Services : Stop(s) \/ Start(s)
    BY <1>11
  <2>2. frames' \in Seq(Frames)
    BY <2>1, FramesGrow DEF Stop, Start, Forget, TypeOK
  <2>3. running' \in [Services -> Configs \cup {None}]
    BY <2>1 DEF Stop, Start, TypeOK
  <2>4. crashes' \in 0..MaxCrashes
    BY <2>1 DEF Stop, Start, Crash, TypeOK
  <2>5. overtaken' \subseteq Configs \cup {None}
    BY <2>1 DEF Stop, Start, Forget, TypeOK
  <2> QED BY <2>1, <2>2, <2>3, <2>4, <2>5 DEF Stop, Start, Forget, TypeOK
<1>12. CASE PowerCut
  <2>1. fate' \in Seq(Fates)
    BY <1>12, Cut
  <2>2. frames' \in Seq(Frames) /\ crashes' \in 0..MaxCrashes
    BY <1>12, FramesGrow DEF PowerCut, Crash, TypeOK
  <2>3. (staged # None) \in BOOLEAN
    OBVIOUS
  <2>4. existed' \in BOOLEAN
    BY <1>12, <2>3, Zenon DEF PowerCut
  <2> QED BY <1>12, <2>1, <2>2, <2>4 DEF PowerCut, TypeOK
<1>13. CASE UNCHANGED vars
  BY <1>13 DEF vars, TypeOK
<1> QED BY <1>1, <1>2, <1>3, <1>4, <1>5, <1>6, <1>7, <1>8, <1>9, <1>10, <1>11, <1>12, <1>13
    DEF Next, Helper

-----------------------------------------------------------------------------
(* The box: what the helper holds is between what is installed and what is *)
(* staged                                                                  *)

LEMMA BoxKept == BoxIInv /\ [Next]_vars => BoxIInv'
<1> SUFFICES ASSUME BoxIInv, [Next]_vars PROVE HelperInv' /\ BoxInv'
  BY TypesKept DEF BoxIInv
<1> USE DEF pathVars, helperVars, serviceVars, serviceFrame
<1>0. TypeOK /\ HelperInv /\ BoxInv /\ Len(fate) \in Nat
  BY DEF BoxIInv, TypeOK
<1>1. CASE Save
  <2>1. HelperInv'
    BY <1>0, <1>1 DEF HelperInv, Save
  <2>2. BoxInv'
    BY <1>0, <1>1, Saving, ConfigFacts, SMTT(30) DEF BoxInv, Save, Saved
  <2> QED BY <2>1, <2>2
<1>2. CASE PathFires
  BY <1>0, <1>2 DEF PathFires, HelperInv, BoxInv, Saved
<1>3. CASE Open
  <2>1. CASE staged = None
    BY <1>0, <1>3, <2>1 DEF Open, HelperInv, BoxInv, Saved
  <2>2. CASE /\ staged # None /\ helper' = "consume" /\ held' = staged
             /\ fate' = Settle(fate, staged.no, "held") /\ UNCHANGED <<pathVars, crashes>>
    <3>1. /\ Len(fate') = Len(fate)
          /\ \A i \in 1..Len(fate) : fate'[i] = IF i = staged.no THEN "held" ELSE fate[i]
      BY <1>0, <2>2, FateWords, Opened
    <3> QED BY <1>0, <1>3, <2>2, <3>1 DEF Open, HelperInv, BoxInv, Saved
  <2>3. CASE staged # None /\ helper' = "consume" /\ UNCHANGED <<pathVars, held, fate>>
    BY <1>0, <1>3, <2>3 DEF Open, HelperInv, BoxInv, Saved
  <2> QED BY <1>3, <2>1, <2>2, <2>3 DEF Open
<1>4. CASE Consume
  <2>1. HelperInv'
    BY <1>0, <1>4 DEF Consume, HelperInv
  <2>2. CASE UNCHANGED <<staged, fate>>
    BY <1>0, <1>4, <2>1, <2>2 DEF Consume, BoxInv, Saved
  <2>3. CASE staged' = None /\ staged \in {None, held} /\ fate' = fate
    BY <1>0, <1>4, <2>1, <2>3 DEF Consume, BoxInv, Saved
  <2>4. CASE staged' = None /\ staged \notin {None, held} /\ fate' = Settle(fate, staged.no, "unread")
    <3>1. /\ Len(fate') = Len(fate)
          /\ \A i \in 1..Len(fate) : fate'[i] = IF i = staged.no THEN "unread" ELSE fate[i]
      BY <1>0, <2>4, FateWords, Opened
    <3> QED BY <1>0, <1>4, <2>1, <2>4, <3>1 DEF Consume, BoxInv, Saved
  <2> QED BY <1>4, <2>1, <2>2, <2>3, <2>4 DEF Consume
<1>5. CASE Install
  <2>1. ASSUME NEW next \in {"idle", "reload"}, Rule(next)
        PROVE  HelperInv' /\ BoxInv'
    <3>1. /\ held' = None /\ helper' = next /\ Len(fate') = Len(fate)
          /\ \A i \in 1..Len(fate) :
               fate'[i] = IF i = held.no THEN IF staged = held THEN "staged" ELSE "settled" ELSE fate[i]
      BY <1>0, <2>1, Ruled
    <3>2. staged' = staged /\ helper = "install"
      BY <1>5 DEF Install
    <3> QED BY <1>0, <2>1, <3>1, <3>2 DEF HelperInv, BoxInv, Saved
  <2> QED BY <1>5, <2>1 DEF Install
<1>6. CASE Reload
  BY <1>0, <1>6 DEF Reload, HelperInv, BoxInv, Saved
<1>7. CASE PowerCut
  BY <1>0, <1>7, Cut, ConfigFacts DEF PowerCut, HelperInv, BoxInv, Saved
<1>8. CASE UNCHANGED <<staged, event, helper, held, fate>>
  BY <1>0, <1>8 DEF HelperInv, BoxInv, Saved
<1> QED
  <2>1. CASE EditByHand
    BY <1>8, <2>1 DEF EditByHand
  <2>2. CASE \E s \in Collectors : CollectorSignalled(s) \/ Rebuild(s)
    BY <1>8, <2>2 DEF CollectorSignalled, Rebuild
  <2>3. CASE Web
    BY <1>8, <2>3 DEF Web, WebSignalled, WebReads, WebAssigns
  <2>4. CASE \E s \in Services : Stop(s) \/ Start(s)
    BY <1>8, <2>4 DEF Stop, Start
  <2>5. CASE UNCHANGED vars
    BY <1>8, <2>5 DEF vars
  <2> QED BY <1>1, <1>2, <1>3, <1>4, <1>5, <1>6, <1>7, <2>1, <2>2, <2>3, <2>4, <2>5 DEF Next, Helper

-----------------------------------------------------------------------------
(* The services *)

\* What a service may run on.
Fit(s, c) == Usable(c) \/ (s = "speedtest" /\ Loads(c))

\* A reload never leaves a service with what it could not have started with.
LEMMA ReloadedFits ==
    ASSUME NEW now, NEW was, NEW s, was = None \/ Fit(s, was)
    PROVE  Reloaded(now, was) = None \/ Fit(s, Reloaded(now, was))
BY DEF Reloaded, Fit, Usable, Loads, Database, None

LEMMA ReloadedUsable ==
    ASSUME NEW now, NEW was, Usable(was)
    PROVE  Usable(Reloaded(now, was))
BY DEF Reloaded, Usable, Loads, Database

LEMMA FramesFit ==
    ASSUME TypeOK, FramesInv, frames # <<>>
    PROVE  Top \in Frames /\ Top.config \in Configs /\ Usable(Top.config)
<1>1. Len(frames) \in DOMAIN frames /\ frames[Len(frames)] \in Frames
  <2> HIDE DEF Frames
  <2> QED BY DEF TypeOK
<1>2. frames[Len(frames)].config \in Configs \cup {None} /\ Usable(frames[Len(frames)].config)
  BY <1>1, FrameFields DEF FramesInv
<1>3. ~Usable(None)
  BY ConfigFacts DEF Usable
<1> QED BY <1>1, <1>2, <1>3 DEF Top

LEMMA RunsKept == RunsIInv /\ [Next]_vars => RunsIInv'
<1> SUFFICES ASSUME RunsIInv, [Next]_vars
             PROVE  OnlyUsableInstalled' /\ RunsOnlyUsable' /\ FramesInv'
  BY TypesKept DEF RunsIInv, OnlyUsableFiles
<1> USE DEF pathVars, helperVars, serviceVars, serviceFrame
<1>0. /\ TypeOK /\ OnlyUsableInstalled /\ FramesInv
      /\ \A s \in Services : running[s] = None \/ Fit(s, running[s])
  BY DEF RunsIInv, OnlyUsableFiles, RunsOnlyUsable, Fit
<1>a. SUFFICES /\ OnlyUsableInstalled' /\ FramesInv'
               /\ \A s \in Services : running'[s] = None \/ Fit(s, running'[s])
  BY DEF RunsOnlyUsable, Fit
<1>1. CASE UNCHANGED <<file, byHand, frames, running, hup>>
  BY <1>0, <1>1 DEF OnlyUsableInstalled, FramesInv
<1>2. CASE EditByHand
  BY <1>0, <1>2 DEF EditByHand, OnlyUsableInstalled, FramesInv
<1>3. CASE Install
  BY <1>0, <1>3 DEF Install, OnlyUsableInstalled, FramesInv
<1>4. CASE Reload
  BY <1>0, <1>4 DEF Reload, OnlyUsableInstalled, FramesInv
<1>5. CASE \E s \in Collectors : CollectorSignalled(s)
  <2>1. "web" \notin Collectors
    BY ConfigAssumption
  <2> QED BY <1>0, <1>5, <2>1 DEF CollectorSignalled, OnlyUsableInstalled, FramesInv
<1>6. CASE \E s \in Collectors : Rebuild(s)
  <2>1. PICK s \in Collectors : Rebuild(s)
    BY <1>6
  <2>2. s \in Services /\ s # "web"
    BY ConfigAssumption DEF Services
  <2>3. Reloaded(file, running[s]) = None \/ Fit(s, Reloaded(file, running[s]))
    BY <1>0, <2>2, ReloadedFits
  <2>4. \A t \in Services : running'[t] = None \/ Fit(t, running'[t])
    BY <1>0, <2>1, <2>2, <2>3 DEF Rebuild, TypeOK
  <2>5. running'["web"] = running["web"] /\ hup' \subseteq hup /\ frames' = frames
    BY <1>0, <2>1, <2>2 DEF Rebuild, TypeOK
  <2>6. FramesInv'
    BY <1>0, <2>5 DEF FramesInv
  <2> QED BY <1>0, <2>1, <2>4, <2>6 DEF Rebuild, OnlyUsableInstalled
<1>7. CASE WebSignalled
  <2>1. /\ frames' = Append(frames, [read |-> FALSE, config |-> running["web"]])
        /\ hup' \subseteq hup /\ running["web"] # None
        /\ UNCHANGED <<running, file, byHand>>
    BY <1>0, <1>7 DEF WebSignalled, FramesInv
  <2>2. \A i \in DOMAIN frames' : Usable(frames'[i].config)
    <3>1. Usable(running["web"]) /\ frames \in Seq(Frames)
      BY <1>0, <2>1 DEF Fit, Services, TypeOK
    <3>2. /\ Len(frames') = Len(frames) + 1 /\ DOMAIN frames' = 1..(Len(frames) + 1)
          /\ frames'[Len(frames) + 1] = [read |-> FALSE, config |-> running["web"]]
          /\ \A i \in 1..Len(frames) : i \in DOMAIN frames /\ frames'[i] = frames[i]
      BY <2>1, <3>1
    <3>3. Usable(frames'[Len(frames) + 1].config)
      BY <3>1, <3>2
    <3>4. \A i \in 1..Len(frames) : Usable(frames'[i].config)
      BY <1>0, <3>2 DEF FramesInv
    <3> QED BY <3>1, <3>2, <3>3, <3>4
  <2> QED BY <1>0, <2>1, <2>2 DEF OnlyUsableInstalled, FramesInv
<1>8. CASE WebReads
  <2>1. CASE Garbled
    <3>1. /\ frames' = <<>> /\ hup' = hup \ {"web"} /\ running' = [running EXCEPT !["web"] = None]
          /\ UNCHANGED <<file, byHand>>
      BY <1>8, <2>1 DEF WebReads
    <3> QED BY <1>0, <3>1 DEF OnlyUsableInstalled, FramesInv, TypeOK
  <2>2. CASE ~Garbled
    <3>1. /\ frames # <<>> /\ UNCHANGED <<running, hup, file, byHand>>
          /\ frames' = [frames EXCEPT ![Len(frames)] =
                           [read |-> TRUE, config |-> Reloaded(file, Top.config)]]
      BY <1>8, <2>2 DEF WebReads
    <3>2. Usable(Reloaded(file, Top.config))
      BY <1>0, <3>1, FramesFit, ReloadedUsable
    <3>3. \A i \in DOMAIN frames' : Usable(frames'[i].config)
      <4>1. /\ DOMAIN frames' = DOMAIN frames
            /\ frames'[Len(frames)] = [read |-> TRUE, config |-> Reloaded(file, Top.config)]
            /\ \A i \in DOMAIN frames : i # Len(frames) => frames'[i] = frames[i]
        BY <1>0, <3>1 DEF TypeOK
      <4>2. Usable(frames'[Len(frames)].config)
        BY <3>2, <4>1
      <4> QED BY <1>0, <4>1, <4>2 DEF FramesInv
    <3>4. running["web"] # None
      BY <1>0, <3>1 DEF FramesInv
    <3> QED BY <1>0, <3>1, <3>3, <3>4 DEF OnlyUsableInstalled, FramesInv
  <2> QED BY <2>1, <2>2
<1>9. CASE WebAssigns
  <2>1. /\ frames # <<>> /\ UNCHANGED <<hup, file, byHand>>
        /\ running' = [running EXCEPT !["web"] = Top.config]
        /\ frames' = SubSeq(frames, 1, Len(frames) - 1)
    BY <1>9 DEF WebAssigns
  <2>2. Usable(Top.config) /\ Top.config # None
    BY <1>0, <2>1, FramesFit, ConfigFacts
  <2>3. \A s \in Services : running'[s] = None \/ Fit(s, running'[s])
    BY <1>0, <2>1, <2>2 DEF Fit, TypeOK
  <2>4. \A i \in DOMAIN frames' : Usable(frames'[i].config)
    <3>1. \A i \in DOMAIN frames' : i \in DOMAIN frames /\ frames'[i] = frames[i]
      <4> HIDE DEF Frames
      <4> QED BY <1>0, <2>1 DEF TypeOK
    <3> QED BY <1>0, <3>1 DEF FramesInv
  <2>5. running'["web"] # None
    BY <1>0, <2>1, <2>2 DEF TypeOK, Services
  <2> QED BY <1>0, <2>1, <2>3, <2>4, <2>5 DEF OnlyUsableInstalled, FramesInv
<1>10. CASE \E s \in Services : Stop(s)
  <2>1. PICK s \in Services : Stop(s)
    BY <1>10
  <2>2. running' = [running EXCEPT ![s] = None] /\ UNCHANGED <<file, byHand>>
        /\ hup' = hup \ {s} /\ frames' = IF s = "web" THEN <<>> ELSE frames
    BY <2>1 DEF Stop, Forget
  <2> QED BY <1>0, <2>2 DEF OnlyUsableInstalled, FramesInv, TypeOK
<1>11. CASE \E s \in Services : Start(s)
  <2>1. PICK s \in Services : Start(s)
    BY <1>11
  <2>2. /\ running' = [running EXCEPT ![s] = file] /\ UNCHANGED <<file, byHand, frames, hup>>
        /\ Fit(s, file)
    BY <2>1 DEF Start, Fit
  <2>3. file # None
    BY <1>0, ConfigFacts DEF TypeOK
  <2> QED BY <1>0, <2>2, <2>3 DEF OnlyUsableInstalled, FramesInv, TypeOK
<1>12. CASE PowerCut
  BY <1>0, <1>12 DEF PowerCut, OnlyUsableInstalled, FramesInv, TypeOK, Services
<1> QED
  <2>1. CASE Save \/ PathFires \/ Open \/ Consume \/ UNCHANGED vars
    BY <1>1, <2>1 DEF Save, PathFires, Open, Consume, vars
  <2> QED BY <1>2, <1>3, <1>4, <1>5, <1>6, <1>7, <1>8, <1>9, <1>10, <1>11, <1>12, <2>1
      DEF Next, Helper, Web

-----------------------------------------------------------------------------
(* The web app and the installed file *)

LEMMA ReloadedStays ==
    ASSUME NEW was, Usable(file), Usable(was)
    PROVE  Stays(Reloaded(file, was))
BY DEF Reloaded, Usable, Stays

LEMMA Shortened ==
    ASSUME NEW S, NEW s \in Seq(S), Len(s) # 0
    PROVE  /\ SubSeq(s, 1, Len(s) - 1) \in Seq(S)
           /\ Len(SubSeq(s, 1, Len(s) - 1)) = Len(s) - 1
           /\ \A i \in 1..(Len(s) - 1) : SubSeq(s, 1, Len(s) - 1)[i] = s[i]
<1>1. Len(s) \in Nat /\ \A i \in 1..Len(s) : s[i] \in S
  OBVIOUS
<1>2. PICK n \in Nat : n = Len(s) - 1
  BY <1>1
<1>3. SubSeq(s, 1, n) \in Seq(S)
  BY <1>1, <1>2
<1>4. Len(SubSeq(s, 1, n)) = n
  BY <1>1, <1>2
<1>5. \A i \in 1..n : SubSeq(s, 1, n)[i] = s[i]
  BY <1>1, <1>2
<1> QED BY <1>2, <1>3, <1>4, <1>5

\* What the start of a handler, its end and its read leave of the frames.
LEMMA FrameSteps ==
    ASSUME TypeOK
    PROVE  /\ \A f \in Frames :
                LET more == Append(frames, f) IN
                /\ more # <<>> /\ Len(more) = Len(frames) + 1 /\ more[Len(more)] = f
                /\ \A i \in 1..Len(frames) : more[i] = frames[i]
           /\ frames # <<>> =>
                LET fewer == SubSeq(frames, 1, Len(frames) - 1) IN
                /\ Len(fewer) = Len(frames) - 1 /\ (fewer = <<>> <=> Len(frames) = 1)
                /\ \A i \in 1..(Len(frames) - 1) : fewer[i] = frames[i]
           /\ frames # <<>> => \A f \in Frames :
                LET other == [frames EXCEPT ![Len(frames)] = f] IN
                /\ other # <<>> /\ Len(other) = Len(frames) /\ other[Len(frames)] = f
                /\ \A i \in 1..(Len(frames) - 1) : other[i] = frames[i]
<1> HIDE DEF Frames
<1>1. frames \in Seq(Frames)
  BY DEF TypeOK
<1>2. ASSUME NEW f \in Frames
      PROVE  LET more == Append(frames, f) IN
             /\ more # <<>> /\ Len(more) = Len(frames) + 1 /\ more[Len(more)] = f
             /\ \A i \in 1..Len(frames) : more[i] = frames[i]
  BY <1>1
<1>3. ASSUME frames # <<>>
      PROVE  LET fewer == SubSeq(frames, 1, Len(frames) - 1) IN
             /\ Len(fewer) = Len(frames) - 1 /\ (fewer = <<>> <=> Len(frames) = 1)
             /\ \A i \in 1..(Len(frames) - 1) : fewer[i] = frames[i]
  <2>1. Len(frames) \in Nat \ {0}
    BY <1>1, <1>3
  <2>2. PICK fewer : fewer = SubSeq(frames, 1, Len(frames) - 1)
    OBVIOUS
  <2>3. /\ fewer \in Seq(Frames) /\ Len(fewer) = Len(frames) - 1
        /\ \A i \in 1..(Len(frames) - 1) : fewer[i] = frames[i]
    BY <1>1, <2>1, <2>2, Shortened
  <2>4. fewer = <<>> <=> Len(fewer) = 0
    BY <2>3
  <2> QED BY <2>2, <2>3, <2>4, <2>1
<1>4. ASSUME frames # <<>>, NEW f \in Frames
      PROVE  LET other == [frames EXCEPT ![Len(frames)] = f] IN
             /\ other # <<>> /\ Len(other) = Len(frames) /\ other[Len(frames)] = f
             /\ \A i \in 1..(Len(frames) - 1) : other[i] = frames[i]
  BY <1>1, <1>4
<1> QED BY <1>2, <1>3, <1>4

LEMMA WebKept == WebIInv /\ [Next]_vars => WebIInv'
<1> SUFFICES ASSUME WebIInv, [Next]_vars PROVE WebInv'
  BY RunsKept DEF WebIInv
<1> USE DEF pathVars, helperVars, serviceVars, serviceFrame
<1> HIDE DEF Frames
<1>0. /\ TypeOK /\ OnlyUsableInstalled /\ FramesInv /\ WebInv /\ RunsOnlyUsable
      /\ Len(frames) \in Nat /\ frames \in Seq(Frames) /\ "web" \in Services
  BY DEF WebIInv, RunsIInv, OnlyUsableFiles, TypeOK, Services
<1>1. CASE UNCHANGED <<file, byHand, frames, hup, overtaken>> /\ running'["web"] = running["web"]
           /\ (helper # "reload" \/ helper' = "reload")
  BY <1>0, <1>1 DEF WebInv, Settles, Stays, Top
<1>2. CASE EditByHand
  <2>1. byHand' /\ UNCHANGED <<frames, overtaken>>
    BY <1>2 DEF EditByHand
  <2> QED BY <1>0, <2>1 DEF WebInv
<1>3. CASE Install
  <2>0. UNCHANGED <<frames, overtaken, running, hup>> /\ helper # "reload"
    BY <1>3 DEF Install
  <2>1. CASE Rule("reload")
    <3>1. helper' = "reload"
      BY <2>1 DEF Rule
    <3> QED BY <1>0, <2>0, <3>1 DEF WebInv
  <2>2. CASE UNCHANGED <<file, byHand>>
    BY <1>0, <2>0, <2>2 DEF WebInv, Settles, Stays, Top
  <2> QED BY <1>3, <2>1, <2>2 DEF Install
<1>4. CASE Reload
  <2>1. /\ UNCHANGED <<frames, overtaken, running>>
        /\ running["web"] # None => "web" \in hup'
    BY <1>0, <1>4 DEF Reload
  <2> QED BY <1>0, <2>1 DEF WebInv
<1>5. CASE \E s \in Collectors : Rebuild(s) \/ CollectorSignalled(s)
  <2>1. PICK s \in Collectors : Rebuild(s) \/ CollectorSignalled(s)
    BY <1>5
  <2>2. s # "web"
    BY ConfigAssumption
  <2>3. running'["web"] = running["web"] /\ UNCHANGED <<file, byHand, frames, overtaken, helper>>
    BY <1>0, <2>1, <2>2 DEF Rebuild, CollectorSignalled, TypeOK
  <2>4. "web" \in hup' <=> "web" \in hup
    BY <2>1, <2>2 DEF Rebuild, CollectorSignalled
  <2> QED BY <1>0, <2>3, <2>4 DEF WebInv, Settles, Stays, Top
<1>6. CASE WebSignalled
  <2>1. PICK f \in Frames : f.read = FALSE /\ frames' = Append(frames, f)
    <3>1. running["web"] \in Configs
      BY <1>0, <1>6 DEF WebSignalled, FramesInv, TypeOK
    <3>2. [read |-> FALSE, config |-> running["web"]] \in Frames
      BY <3>1, FrameFields
    <3> QED BY <1>6, <3>2 DEF WebSignalled
  <2>2. /\ frames' # <<>> /\ Len(frames') = Len(frames) + 1 /\ frames'[Len(frames')] = f
        /\ \A i \in 1..Len(frames) : frames'[i] = frames[i]
    BY <1>0, <2>1, FrameSteps
  <2>3. ~Top'.read
    BY <2>1, <2>2 DEF Top
  <2>4. ASSUME NEW i \in 1..Len(frames), frames[i].read
        PROVE  frames[i].config \in overtaken'
    <3>1. frames # <<>>
      BY <1>0
    <3>2. overtaken' = IF Top.read THEN overtaken \cup {Top.config} ELSE overtaken
      BY <1>6, <3>1 DEF WebSignalled
    <3>3. CASE i = Len(frames)
      BY <2>4, <3>2, <3>3 DEF Top
    <3>4. CASE i # Len(frames)
      <4>1. i \in 1..(Len(frames) - 1)
        BY <1>0, <3>4
      <4> QED BY <1>0, <2>4, <3>2, <4>1 DEF WebInv
    <3> QED BY <3>3, <3>4
  <2>5. \A i \in 1..(Len(frames') - 1) : frames'[i].read => frames'[i].config \in overtaken'
    BY <1>0, <2>2, <2>4
  <2> QED BY <2>2, <2>3, <2>5 DEF WebInv
<1>7. CASE WebReads
  <2>1. CASE Garbled
    <3>1. running'["web"] = None /\ frames' = <<>> /\ Len(frames') = 0
      BY <1>0, <1>7, <2>1 DEF WebReads, TypeOK
    <3> QED BY <3>1 DEF WebInv
  <2>2. CASE ~Garbled
    <3>1. /\ frames # <<>> /\ ~Top.read
          /\ frames' = [frames EXCEPT ![Len(frames)] =
                           [read |-> TRUE, config |-> Reloaded(file, Top.config)]]
          /\ UNCHANGED <<file, byHand, hup, running, overtaken, helper>>
      BY <1>7, <2>2 DEF WebReads
    <3>2. Top.config \in Configs /\ Usable(Top.config)
      BY <1>0, <3>1, FramesFit
    <3>3. PICK f \in Frames : /\ f = [read |-> TRUE, config |-> Reloaded(file, Top.config)]
                              /\ f.config = Reloaded(file, Top.config)
      BY <1>0, <3>2, ReloadedTypes, FrameFields
    <3>4. /\ frames' # <<>> /\ Len(frames') = Len(frames) /\ frames'[Len(frames)] = f
          /\ \A i \in 1..(Len(frames) - 1) : frames'[i] = frames[i]
      BY <1>0, <3>1, <3>3, FrameSteps
    <3>5. ~byHand => Stays(f.config)
      BY <1>0, <3>2, <3>3, ReloadedStays DEF OnlyUsableInstalled
    <3>6. ~byHand' => Settles(Top.config)'
      <4>1. Top'.config = f.config
        BY <3>4 DEF Top
      <4> QED BY <3>1, <3>5, <4>1 DEF Settles, Stays
    <3>7. \A i \in 1..(Len(frames') - 1) : frames'[i].read => frames'[i].config \in overtaken'
      <4>1. \A i \in 1..(Len(frames) - 1) : frames[i].read => frames[i].config \in overtaken
        BY <1>0 DEF WebInv
      <4>2. \A i \in 1..(Len(frames) - 1) : frames'[i].read => frames'[i].config \in overtaken
        BY <3>4, <4>1
      <4>3. overtaken' = overtaken /\ Len(frames') = Len(frames)
        BY <3>1, <3>4
      <4> QED BY <4>2, <4>3
    <3> QED BY <3>4, <3>6, <3>7 DEF WebInv
  <2> QED BY <2>1, <2>2
<1>8. CASE WebAssigns
  <2>1. /\ frames # <<>> /\ Top.read /\ UNCHANGED <<hup, file, byHand, helper, overtaken>>
        /\ running' = [running EXCEPT !["web"] = Top.config]
        /\ frames' = SubSeq(frames, 1, Len(frames) - 1)
    BY <1>8 DEF WebAssigns
  <2>2. /\ Len(frames') = Len(frames) - 1 /\ (frames' = <<>> <=> Len(frames) = 1)
        /\ \A i \in 1..(Len(frames) - 1) : frames'[i] = frames[i]
    BY <1>0, <2>1, FrameSteps
  <2>3. running["web"] # None /\ running'["web"] = Top.config
    BY <1>0, <2>1 DEF FramesInv, TypeOK
  <2>4. \A i \in 1..(Len(frames') - 1) : frames'[i].read => frames'[i].config \in overtaken'
    BY <1>0, <2>1, <2>2 DEF WebInv
  <2>5. ASSUME ~byHand, helper # "reload", "web" \notin hup
        PROVE  IF frames' = <<>> THEN Settles(running["web"])' ELSE ~Top'.read \/ Settles(Top.config)'
    <3>1. CASE frames' = <<>>
      <4>1. Settles(Top.config)
        BY <1>0, <2>1, <2>3, <2>5 DEF WebInv
      <4>2. Settles(running["web"])'
        BY <2>1, <2>3, <4>1 DEF Settles, Stays
      <4> QED BY <3>1, <4>2
    <3>2. CASE frames' # <<>>
      <4>1. Len(frames) - 1 \in 1..(Len(frames) - 1)
        BY <1>0, <2>1, <2>2, <3>2
      <4>2. Top' = frames[Len(frames) - 1]
        BY <2>2, <4>1 DEF Top
      <4>3. Top'.read => Top'.config \in overtaken
        BY <1>0, <4>1, <4>2 DEF WebInv
      <4>4. Top'.read => Settles(Top.config)'
        BY <2>1, <4>3 DEF Settles
      <4> QED BY <3>2, <4>4
    <3> QED BY <3>1, <3>2
  <2> QED BY <2>1, <2>4, <2>5 DEF WebInv
<1>9. CASE \E s \in Services : Stop(s) \/ Start(s)
  <2>1. PICK s \in Services : Stop(s) \/ Start(s)
    BY <1>9
  <2>2. UNCHANGED <<file, byHand, helper>>
    BY <2>1 DEF Stop, Start
  <2>3. CASE s # "web"
    <3>1. /\ running'["web"] = running["web"] /\ UNCHANGED <<frames, overtaken>>
          /\ ("web" \in hup' <=> "web" \in hup)
      BY <1>0, <2>1, <2>3 DEF Stop, Start, Forget, TypeOK
    <3> QED BY <1>0, <2>2, <3>1 DEF WebInv, Settles, Stays, Top
  <2>4. CASE s = "web"
    <3>1. CASE Stop(s)
      <4>1. running'["web"] = None /\ frames' = <<>> /\ Len(frames') = 0
        BY <1>0, <2>4, <3>1 DEF Stop, Forget, TypeOK
      <4> QED BY <4>1 DEF WebInv
    <3>2. CASE Start(s)
      <4>1. /\ running'["web"] = file /\ file' = file /\ frames = <<>> /\ frames' = frames
            /\ Len(frames') = 0
        BY <1>0, <2>4, <3>2 DEF Start, FramesInv, TypeOK
      <4> QED BY <4>1 DEF WebInv, Settles, Stays
    <3> QED BY <2>1, <3>1, <3>2
  <2> QED BY <2>3, <2>4
<1>10. CASE PowerCut
  <2>1. frames' = <<>> /\ Len(frames') = 0 /\ running'["web"] = None
    BY <1>0, <1>10 DEF PowerCut
  <2> QED BY <2>1 DEF WebInv
<1> QED
  <2>1. CASE Save \/ PathFires \/ Open \/ Consume \/ UNCHANGED vars
    BY <1>1, <2>1 DEF Save, PathFires, Open, Consume, vars
  <2> QED BY <1>2, <1>3, <1>4, <1>5, <1>6, <1>7, <1>8, <1>9, <1>10, <2>1
      DEF Next, Helper, Web

-----------------------------------------------------------------------------
(* The refinement *)

\* The saves under way are at most what is staged and what is held.
LEMMA WaitingFew ==
    BoxIInv => /\ Waiting \subseteq {staged.no, held.no}
               /\ IsFiniteSet(Waiting) /\ Cardinality(Waiting) <= 2
<1> SUFFICES ASSUME BoxIInv
             PROVE  /\ Waiting \subseteq {staged.no, held.no}
                    /\ IsFiniteSet(Waiting) /\ Cardinality(Waiting) <= 2
  OBVIOUS
<1>1. Waiting \subseteq {staged.no, held.no}
  BY DEF BoxIInv, BoxInv, Waiting
<1>2. IsFiniteSet({staged.no, held.no}) /\ Cardinality({staged.no, held.no}) <= 2
  <2>1. IsFiniteSet({staged.no}) /\ Cardinality({staged.no}) = 1
    BY FS_Singleton
  <2>2. {staged.no, held.no} = {staged.no} \cup {held.no}
    OBVIOUS
  <2> QED BY <2>1, <2>2, FS_AddElement
<1> QED
  <2>1. IsFiniteSet(Waiting) /\ Cardinality(Waiting) <= Cardinality({staged.no, held.no})
    BY <1>1, <1>2, FS_Subset
  <2>2. Cardinality(Waiting) \in Nat /\ Cardinality({staged.no, held.no}) \in Nat
    BY <1>2, <2>1, FS_CardinalityType
  <2> QED BY <1>1, <1>2, <2>1, <2>2

\* Mailbox counts as this module does.
LEMMA BoxCardinality == ASSUME NEW S PROVE Box!Cardinality(S) = Cardinality(S)
BY DEF Box!Cardinality, Cardinality

LEMMA WaitingChanges ==
    ASSUME Len(fate') = Len(fate),
           \A n \in Saved : fate'[n] \in {"staged", "held"} => fate[n] \in {"staged", "held"}
    PROVE  Waiting' \subseteq Waiting
BY DEF Waiting, Saved

LEMMA BoxSteps == BoxIInv /\ [Next]_vars => [Box!Next]_(Box!boxVars)
<1> SUFFICES ASSUME BoxIInv, [Next]_vars PROVE [Box!Next]_<<Len(fate), Waiting, file.no>>
  BY DEF Box!boxVars
<1> USE DEF pathVars, helperVars, serviceVars, serviceFrame
<1>0. TypeOK /\ HelperInv /\ BoxInv /\ Len(fate) \in Nat /\ Saved = 1..Len(fate)
  BY DEF BoxIInv, TypeOK, Saved
<1>1. Waiting' \subseteq {staged'.no, held'.no} /\ Cardinality(Waiting') <= 2
  <2>1. BoxIInv'
    BY BoxKept
  <2>2. (BoxIInv => Waiting \subseteq {staged.no, held.no} /\ Cardinality(Waiting) <= 2)'
    BY WaitingFew, PTL
  <2> QED BY <2>1, <2>2
\* What the helper does besides installing, and a power cut, drop saves, or none.
<1>2. ASSUME Len(fate') = Len(fate), Waiting' \subseteq Waiting, file'.no = file.no
      PROVE  [Box!Next]_<<Len(fate), Waiting, file.no>>
  <2>1. CASE Waiting' = Waiting
    BY <1>2, <2>1
  <2>2. CASE Waiting' # Waiting
    BY <1>2, <2>2 DEF Box!Next, Box!Drop
  <2> QED BY <2>1, <2>2
<1>3. CASE Save
  <2>1. /\ Len(fate') = Len(fate) + 1 /\ fate'[Len(fate) + 1] = "staged"
        /\ \A i \in 1..Len(fate) :
             fate'[i] = IF staged # held /\ staged # None /\ i = staged.no
                        THEN "settled" ELSE fate[i]
    BY <1>0, <1>3, Saving
  <2>2. file' = file
    BY <1>3 DEF Save
  <2>3. CASE staged # held /\ staged # None /\ staged.no \in Waiting
    <3>1. Waiting' = (Waiting \ {staged.no}) \cup {Len(fate')}
      BY <1>0, <2>1, <2>3 DEF Waiting, Saved
    <3>2. Box!Post
      BY <1>1, <2>1, <2>3, <2>2, <3>1, BoxCardinality DEF Box!Post
    <3> QED BY <3>2 DEF Box!Next
  <2>4. CASE ~(staged # held /\ staged # None /\ staged.no \in Waiting)
    <3>1. Waiting' = Waiting \cup {Len(fate')}
      BY <1>0, <2>1, <2>4 DEF Waiting, Saved
    <3>2. Box!Post
      BY <1>1, <2>1, <2>2, <3>1, BoxCardinality DEF Box!Post
    <3> QED BY <3>2 DEF Box!Next
  <2> QED BY <2>3, <2>4
<1>4. CASE Open
  <2>1. CASE UNCHANGED fate
    BY <1>0, <1>2, <1>4, <2>1, WaitingChanges DEF Open
  <2>2. CASE staged # None /\ fate' = Settle(fate, staged.no, "held")
    <3>1. /\ Len(fate') = Len(fate)
          /\ \A i \in 1..Len(fate) : fate'[i] = IF i = staged.no THEN "held" ELSE fate[i]
      BY <1>0, <2>2, FateWords, Opened
    <3>2. fate[staged.no] \in {"staged", "held"}
      BY <1>0, <1>4, <2>2 DEF Open, BoxInv
    <3> QED BY <1>0, <1>2, <1>4, <3>1, <3>2, WaitingChanges DEF Open
  <2> QED BY <1>4, <2>1, <2>2 DEF Open
<1>5. CASE Consume
  <2>1. CASE UNCHANGED fate
    BY <1>0, <1>2, <1>5, <2>1, WaitingChanges DEF Consume
  <2>2. CASE staged # None /\ fate' = Settle(fate, staged.no, "unread")
    <3>1. /\ Len(fate') = Len(fate)
          /\ \A i \in 1..Len(fate) : fate'[i] = IF i = staged.no THEN "unread" ELSE fate[i]
      BY <1>0, <2>2, FateWords, Opened
    <3> QED BY <1>0, <1>2, <1>5, <3>1, WaitingChanges DEF Consume
  <2> QED BY <1>5, <2>1, <2>2 DEF Consume
<1>6. CASE Install
  <2>1. held # None /\ held.no \in Waiting /\ held.no \in Nat
    BY <1>0, <1>6, ConfigFacts DEF Install, HelperInv, BoxInv, Waiting, TypeOK
  <2>2. ASSUME NEW next \in {"idle", "reload"}, Rule(next)
        PROVE  /\ Len(fate') = Len(fate) /\ Waiting' \in {Waiting, Waiting \ {held.no}}
               /\ \A m \in Waiting' : m >= held.no
    <3>1. /\ Len(fate') = Len(fate)
          /\ \A i \in 1..Len(fate) :
               fate'[i] = IF i = held.no THEN IF staged = held THEN "staged" ELSE "settled" ELSE fate[i]
      BY <1>0, <2>2, Ruled
    <3>2. CASE staged = held
      BY <1>0, <2>1, <3>1, <3>2, WaitingFew DEF Waiting, Saved
    <3>3. CASE staged # held
      <4>1. Waiting' = Waiting \ {held.no}
        BY <1>0, <2>2, <3>1, <3>3 DEF Waiting, Saved
      <4>2. \A m \in Waiting \ {held.no} : m = staged.no /\ staged # None
        BY <1>0 DEF Waiting, BoxInv
      <4> QED BY <1>0, <2>1, <3>1, <4>1, <4>2 DEF BoxInv
    <3> QED BY <3>2, <3>3
  <2>3. CASE Rule("reload") /\ file' = held
    <3>1. /\ Len(fate') = Len(fate) /\ Waiting' \in {Waiting, Waiting \ {held.no}}
          /\ \A m \in Waiting' : m >= held.no
      BY <2>2, <2>3
    <3> QED BY <2>1, <2>3, <3>1 DEF Box!Next, Box!Install
  <2>4. CASE Rule("idle") /\ file' = file
    BY <1>2, <2>2, <2>4
  <2> QED BY <1>6, <2>3, <2>4 DEF Install
<1>7. CASE PowerCut
  BY <1>0, <1>2, <1>7, Cut, WaitingChanges DEF PowerCut
<1>8. CASE UNCHANGED fate /\ file'.no = file.no
  BY <1>0, <1>2, <1>8, WaitingChanges
<1> QED
  <2>1. CASE EditByHand
    BY <1>8, <2>1 DEF EditByHand
  <2>2. CASE \E s \in Collectors : CollectorSignalled(s) \/ Rebuild(s)
    BY <1>8, <2>2 DEF CollectorSignalled, Rebuild
  <2>3. CASE Web
    BY <1>8, <2>3 DEF Web, WebSignalled, WebReads, WebAssigns
  <2>4. CASE \E s \in Services : Stop(s) \/ Start(s)
    BY <1>8, <2>4 DEF Stop, Start
  <2>5. CASE PathFires \/ Reload \/ UNCHANGED vars
    BY <1>8, <2>5 DEF PathFires, Reload, vars
  <2> QED BY <1>3, <1>4, <1>5, <1>6, <1>7, <2>1, <2>2, <2>3, <2>4, <2>5 DEF Next, Helper

-----------------------------------------------------------------------------
(* The theorems *)

LEMMA InitInvs == Init => BoxIInv /\ RunsIInv /\ WebIInv
<1> SUFFICES ASSUME Init PROVE TypeOK /\ HelperInv /\ BoxInv /\ OnlyUsableFiles /\ FramesInv /\ WebInv
  BY DEF BoxIInv, RunsIInv, WebIInv
<1>1. TypeOK
  <2>1. frames \in Seq(Frames) /\ fate \in Seq(Fates)
    BY DEF Init
  <2>2. 0 \in 0..MaxChanges /\ 0 \in 0..MaxCrashes
    BY ConfigAssumption
  <2> QED BY <2>1, <2>2, ConfigFacts DEF Init, TypeOK
<1>2. HelperInv /\ BoxInv
  BY DEF Init, HelperInv, BoxInv, Saved
<1>3. OnlyUsableFiles /\ FramesInv
  BY ConfigFacts DEF Init, OnlyUsableFiles, OnlyUsableInstalled, RunsOnlyUsable, FramesInv
<1>4. WebInv
  BY DEF Init, WebInv, Settles, Stays, Services
<1> QED BY <1>1, <1>2, <1>3, <1>4

\* Every variable keeps its type, for any number of saves, edits and crashes.
THEOREM TypeCorrect == Spec => []TypeOK
<1>1. BoxIInv => TypeOK
  BY DEF BoxIInv
<1> QED BY <1>1, InitInvs, BoxKept, PTL DEF Spec

\* Whatever was staged, the helper installs only what the services can start with
\* and bbmon-reboot.path can watch, and no reload puts a service on anything else.
THEOREM UsableOnly == Spec => []OnlyUsableFiles
<1>1. RunsIInv => OnlyUsableFiles
  BY DEF RunsIInv
<1> QED BY <1>1, InitInvs, RunsKept, PTL DEF Spec

\* However many SIGHUPs interrupt the web app's handler, one inside the other: once
\* the helper and the handlers are done, the web app runs on the installed file, or
\* on what one of those handlers had read when it was interrupted, and on nothing
\* from before them, unless the file names another database.
THEOREM WebFollowsFile == Spec => []WebRunsTheFile
<1>1. WebIInv => WebRunsTheFile
  BY DEF WebIInv, RunsIInv, WebInv, WebRunsTheFile, UpToDate, Settles
<1> QED BY <1>1, InitInvs, WebKept, PTL DEF Spec

\* The way of a save implements Mailbox: at most two saves are under way, none is
\* installed after a later one, and none again once it was taken out of the box.
THEOREM ImplementsMailbox == Spec => KeepsMailbox
<1>1. Init => Box!Init
  <2>1. Init => Len(fate) = 0 /\ file.no = 0
    BY ConfigFacts DEF Init
  <2>2. Init => Waiting = {}
    BY <2>1 DEF Waiting, Saved
  <2> QED BY <2>1, <2>2 DEF Box!Init
<1> QED BY <1>1, InitInvs, BoxKept, BoxSteps, PTL DEF Spec, KeepsMailbox, Box!Spec
=============================================================================
