------------------------- MODULE NameBindingProofs --------------------------
(***************************************************************************)
(* What FlashScopes promises for programs of any names, any nesting of     *)
(* bodies and calls and any number of cells, and what Imports promises for *)
(* any files.  Sound says that references find their cells and is what     *)
(* popping a frame relies on; Own says which bindings of a variable the    *)
(* program can reach, that they are one reference, and how the frames      *)
(* below and above one another may share; FilesInv what the modules being  *)
(* run are to one another; PromiseInv, at the end, where every name that   *)
(* is bound came from and which names must have come, which is compared    *)
(* with what the static walk finds once WalkIs says that there is such a   *)
(* walk and WalkFinds what it finds.                                       *)
(***************************************************************************)
EXTENDS NameBinding, DataLemmas, SequenceTheorems, FiniteSetTheorems, TLAPS

\* Programs have finitely many names, `this` is none they declare.
NamesOfPrograms ==
  /\ IsFiniteSet(Names) /\ This \notin Locals \cup Globals /\ NoName \notin Names
  /\ MaxVids \in Nat

\* No program hands out a method as a value or prints the result of a call.
PlainCalls == "boundMethod" \notin Features /\ "outCall" \notin Features

\* No lambda among a method's arguments mentions its receiver, and no local
\* has the name of a global.
PlainReceivers == "receiverArg" \notin Features /\ Locals \cap Globals = {}

-----------------------------------------------------------------------------
(* Types. *)

GlobalEntries == {e \in Entries : e.region = "global"}
BindingsOf(S) == UNION {[D -> S] : D \in SUBSET Names}

\* What a function captured is in the global arena.
Vals == [fn : BOOLEAN, caps : BindingsOf(GlobalEntries), lex : SUBSET Names,
         self : Names \cup {NoName}]
Cells == [vid : Nat, val : Vals]
FrameKinds == {"block", "call", "new", "for"}
FrameSet == [kind : FrameKinds, mark : Nat, binds : BindingsOf(Entries), lex : SUBSET Names,
             self : Names \cup {NoName}, fresh : BOOLEAN]

-----------------------------------------------------------------------------
(* References find their cells. *)

FoundIn(e, arena) == e.index \in 1 .. Len(arena) /\ arena[e.index].vid = e.vid

GoodVal(v, ga) == v.lex \subseteq DOMAIN v.caps /\ \A n \in DOMAIN v.caps : FoundIn(v.caps[n], ga)

GoodEntry(e, ga, sa) ==
  /\ e.region = "global" => FoundIn(e, ga)
  /\ e.region = "scoped" => FoundIn(e, sa)

\* An instance under construction is allocated below its constructor's frame.
GoodFrame(c, ga, sa) ==
  /\ c.mark <= Len(sa) /\ c.lex \subseteq DOMAIN c.binds
  /\ \A n \in DOMAIN c.binds : GoodEntry(c.binds[n], ga, sa)
  /\ c.kind = "new" => /\ This \in DOMAIN c.binds
                       /\ c.binds[This].region = "scoped" => c.binds[This].index <= c.mark

\* The frame uses no cell from the watermark `m` on.
Under(c, m) ==
  /\ c.mark <= m
  /\ \A n \in DOMAIN c.binds : c.binds[n].region = "scoped" => c.binds[n].index <= m

GoodArena(arena, ga) == arena \in Seq(Cells) /\ \A i \in 1 .. Len(arena) : GoodVal(arena[i].val, ga)

GoodFrames(fs, ga, sa) ==
  /\ fs \in Seq(FrameSet)
  /\ \A i \in 1 .. Len(fs) : GoodFrame(fs[i], ga, sa)
  /\ \A i, j \in 1 .. Len(fs) : i < j => Under(fs[i], fs[j].mark)
  /\ fs = <<>> => sa = <<>>
  /\ fs # <<>> => fs[1].mark = 0

GoodBinds(gb, ga) == gb \in BindingsOf(GlobalEntries) /\ \A n \in DOMAIN gb : FoundIn(gb[n], ga)

Sound(ga, sa, fs, gb) ==
  GoodArena(ga, ga) /\ GoodArena(sa, ga) /\ GoodFrames(fs, ga, sa) /\ GoodBinds(gb, ga)

\* Nothing is allocated while a top-level `out` prints a name.
OutIsQuiet == outMark \in Nat \cup {-1} /\ (outMark # -1 => frames = <<>> /\ outMark = Len(garena))

SoundNow == Sound(garena, sarena, frames, gbinds)

-----------------------------------------------------------------------------
(* Arenas that grow keep every reference good. *)

\* The cells of `a` are in `b`, for the variables they were for.
Extends(a, b) == Len(a) <= Len(b) /\ \A i \in 1 .. Len(a) : b[i].vid = a[i].vid

LEMMA FoundAfter ==
  ASSUME NEW a \in Seq(Cells), NEW b \in Seq(Cells), Extends(a, b), NEW e \in Entries,
         FoundIn(e, a)
  PROVE  FoundIn(e, b)
<1>1. Len(a) \in Nat /\ Len(b) \in Nat /\ Len(a) <= Len(b) /\ e.index \in Nat
  BY LenProperties DEF Extends, Entries
<1>2. e.index \in 1 .. Len(a) /\ a[e.index].vid = e.vid
  BY DEF FoundIn
<1>3. b[e.index].vid = a[e.index].vid
  BY <1>2 DEF Extends
<1>4. e.index \in 1 .. Len(b)
  BY <1>1, <1>2
<1>5. QED
  BY <1>2, <1>3, <1>4 DEF FoundIn

LEMMA BindingTypes ==
  ASSUME NEW S, NEW b \in BindingsOf(S)
  PROVE  DOMAIN b \subseteq Names /\ \A n \in DOMAIN b : b[n] \in S
  BY DEF BindingsOf

LEMMA BindingIs ==
  ASSUME NEW S, NEW b, DOMAIN b \subseteq Names, \A n \in DOMAIN b : b[n] \in S,
         b = [n \in DOMAIN b |-> b[n]]
  PROVE  b \in BindingsOf(S)
<1>1. b \in [DOMAIN b -> S]
  OBVIOUS
<1>2. QED
  BY <1>1 DEF BindingsOf

LEMMA GoodValAfter ==
  ASSUME NEW a \in Seq(Cells), NEW b \in Seq(Cells), Extends(a, b), NEW v \in Vals, GoodVal(v, a)
  PROVE  GoodVal(v, b)
<1>1. v.caps \in BindingsOf(GlobalEntries)
  BY DEF Vals
<1>2. ASSUME NEW n \in DOMAIN v.caps PROVE FoundIn(v.caps[n], b)
  <2>1. v.caps[n] \in Entries /\ FoundIn(v.caps[n], a)
    BY <1>1, BindingTypes DEF GoodVal, GlobalEntries
  <2>2. QED
    BY <2>1, FoundAfter
<1>3. QED
  BY <1>2 DEF GoodVal

LEMMA GoodArenaAfter ==
  ASSUME NEW a \in Seq(Cells), NEW b \in Seq(Cells), Extends(a, b), NEW arena, GoodArena(arena, a)
  PROVE  GoodArena(arena, b)
<1>1. ASSUME NEW i \in 1 .. Len(arena) PROVE GoodVal(arena[i].val, b)
  <2>1. arena[i] \in Cells /\ GoodVal(arena[i].val, a)
    BY ElementOfSeq DEF GoodArena
  <2>2. arena[i].val \in Vals
    BY <2>1 DEF Cells
  <2>3. QED
    BY <2>1, <2>2, GoodValAfter
<1>2. QED
  BY <1>1 DEF GoodArena

LEMMA GoodEntryAfter ==
  ASSUME NEW a \in Seq(Cells), NEW b \in Seq(Cells), Extends(a, b),
         NEW s \in Seq(Cells), NEW t \in Seq(Cells), Extends(s, t),
         NEW e \in Entries, GoodEntry(e, a, s)
  PROVE  GoodEntry(e, b, t)
  BY FoundAfter DEF GoodEntry

LEMMA GoodFrameAfter ==
  ASSUME NEW a \in Seq(Cells), NEW b \in Seq(Cells), Extends(a, b),
         NEW s \in Seq(Cells), NEW t \in Seq(Cells), Extends(s, t),
         NEW c \in FrameSet, GoodFrame(c, a, s)
  PROVE  GoodFrame(c, b, t)
<1>1. c.binds \in BindingsOf(Entries) /\ c.mark \in Nat
  BY DEF FrameSet
<1>2. ASSUME NEW n \in DOMAIN c.binds PROVE GoodEntry(c.binds[n], b, t)
  <2>1. c.binds[n] \in Entries /\ GoodEntry(c.binds[n], a, s)
    BY <1>1, BindingTypes DEF GoodFrame
  <2>2. QED
    BY <2>1, GoodEntryAfter
<1>3. c.mark <= Len(t)
  <2>1. c.mark <= Len(s) /\ Len(s) <= Len(t) /\ Len(s) \in Nat /\ Len(t) \in Nat
    BY LenProperties DEF GoodFrame, Extends
  <2>2. QED
    BY <1>1, <2>1
<1>4. QED
  BY <1>2, <1>3 DEF GoodFrame

LEMMA GoodBindsAfter ==
  ASSUME NEW a \in Seq(Cells), NEW b \in Seq(Cells), Extends(a, b), NEW gb, GoodBinds(gb, a)
  PROVE  GoodBinds(gb, b)
<1>1. ASSUME NEW n \in DOMAIN gb PROVE FoundIn(gb[n], b)
  <2>1. gb[n] \in Entries /\ FoundIn(gb[n], a)
    BY BindingTypes DEF GoodBinds, GlobalEntries
  <2>2. QED
    BY <2>1, FoundAfter
<1>2. QED
  BY <1>1 DEF GoodBinds

LEMMA Extended ==
  ASSUME NEW a \in Seq(Cells)
  PROVE  /\ Extends(a, a)
         /\ \A c \in Cells : Extends(a, Append(a, c)) /\ Append(a, c) \in Seq(Cells)
         /\ \A t \in Seq(Cells) : Extends(a, a \o t) /\ a \o t \in Seq(Cells)
<1>1. Extends(a, a)
  BY LenProperties DEF Extends
<1>2. ASSUME NEW c \in Cells PROVE Extends(a, Append(a, c)) /\ Append(a, c) \in Seq(Cells)
  <2>1. Len(a) \in Nat /\ Len(Append(a, c)) = Len(a) + 1 /\ Append(a, c) \in Seq(Cells)
    BY AppendProperties, LenProperties
  <2>2. \A i \in 1 .. Len(a) : Append(a, c)[i] = a[i]
    BY AppendProperties
  <2>3. QED
    BY <2>1, <2>2 DEF Extends
<1>3. ASSUME NEW t \in Seq(Cells) PROVE Extends(a, a \o t) /\ a \o t \in Seq(Cells)
  <2>1. Len(a) \in Nat /\ Len(t) \in Nat /\ Len(a \o t) = Len(a) + Len(t) /\ a \o t \in Seq(Cells)
    BY ConcatProperties, LenProperties
  <2>2. \A i \in 1 .. Len(a) : (a \o t)[i] = a[i]
    BY <2>1, ConcatProperties
  <2>3. QED
    BY <2>1, <2>2 DEF Extends
<1>4. QED
  BY <1>1, <1>2, <1>3

-----------------------------------------------------------------------------
(* Resolving names. *)

Inner(n) == Innermost(FramesWith(n))

LEMMA InnermostIsIn ==
  ASSUME NEW k \in Nat, NEW S \in SUBSET (1 .. k), S # {}
  PROVE  Innermost(S) \in S /\ \A j \in S : j <= Innermost(S)
<1>1. \E i \in S : \A j \in S : j <= i
  BY Greatest
<1>2. QED
  BY <1>1 DEF Innermost

LEMMA InnerFrame ==
  ASSUME frames \in Seq(FrameSet), NEW n, FramesWith(n) # {}
  PROVE  /\ Inner(n) \in 1 .. Len(frames) /\ n \in DOMAIN frames[Inner(n)].binds
         /\ \A j \in 1 .. Len(frames) : n \in DOMAIN frames[j].binds => j <= Inner(n)
         /\ Lookup(n) = frames[Inner(n)].binds[n]
<1>1. DOMAIN frames = 1 .. Len(frames) /\ Len(frames) \in Nat
  BY LenProperties
<1>2. FramesWith(n) \in SUBSET (1 .. Len(frames))
  BY <1>1 DEF FramesWith
<1>3. Inner(n) \in FramesWith(n) /\ \A j \in FramesWith(n) : j <= Inner(n)
  BY <1>1, <1>2, InnermostIsIn DEF Inner
<1>4. QED
  BY <1>1, <1>3 DEF FramesWith, Lookup, Inner

LEMMA FrameTypes ==
  ASSUME NEW ga, NEW sa, NEW fs, GoodFrames(fs, ga, sa), NEW i \in 1 .. Len(fs)
  PROVE  /\ fs[i] \in FrameSet /\ fs[i].binds \in BindingsOf(Entries)
         /\ fs[i].lex \subseteq DOMAIN fs[i].binds /\ DOMAIN fs[i].binds \subseteq Names
         /\ \A n \in DOMAIN fs[i].binds : /\ fs[i].binds[n] \in Entries
                                          /\ GoodEntry(fs[i].binds[n], ga, sa)
<1>1. fs[i] \in FrameSet /\ GoodFrame(fs[i], ga, sa)
  BY ElementOfSeq DEF GoodFrames
<1>2. fs[i].binds \in BindingsOf(Entries)
  BY <1>1 DEF FrameSet
<1>3. QED
  BY <1>1, <1>2, BindingTypes DEF GoodFrame

LEMMA LookupIsGood ==
  ASSUME SoundNow, NEW n, FramesWith(n) # {} \/ n \in DOMAIN gbinds
  PROVE  /\ Lookup(n) \in Entries /\ GoodEntry(Lookup(n), garena, sarena)
         /\ FramesWith(n) = {} => Lookup(n) \in GlobalEntries
<1>1. CASE FramesWith(n) # {}
  <2>1. GoodFrames(frames, garena, sarena) /\ frames \in Seq(FrameSet)
    BY DEF SoundNow, Sound, GoodFrames
  <2>2. Inner(n) \in 1 .. Len(frames) /\ n \in DOMAIN frames[Inner(n)].binds
        /\ Lookup(n) = frames[Inner(n)].binds[n]
    BY <1>1, <2>1, InnerFrame
  <2>3. QED
    BY <1>1, <2>1, <2>2, FrameTypes
<1>2. CASE FramesWith(n) = {}
  <2>1. n \in DOMAIN gbinds /\ Lookup(n) = gbinds[n]
    BY <1>2 DEF Lookup
  <2>2. gbinds[n] \in GlobalEntries /\ FoundIn(gbinds[n], garena)
    BY <2>1, BindingTypes DEF SoundNow, Sound, GoodBinds
  <2>3. QED
    BY <2>1, <2>2 DEF GlobalEntries, GoodEntry
<1>3. QED
  BY <1>1, <1>2

LEMMA DataIsGood == NamesOfPrograms => Data \in Vals /\ \A ga : GoodVal(Data, ga)
<1> SUFFICES ASSUME NamesOfPrograms PROVE Data \in Vals /\ \A ga : GoodVal(Data, ga)
  OBVIOUS
<1>1. DOMAIN NoBinds = {} /\ NoBinds = [n \in DOMAIN NoBinds |-> NoBinds[n]]
  BY DEF NoBinds
<1>2. NoBinds \in BindingsOf(GlobalEntries)
  BY <1>1, BindingIs
<1>3. QED
  BY <1>1, <1>2 DEF Data, Vals, GoodVal

LEMMA ValueIsGood ==
  ASSUME NamesOfPrograms, SoundNow, NEW e \in Entries
  PROVE  Value(e) \in Vals /\ GoodVal(Value(e), garena)
<1>1. garena \in Seq(Cells) /\ sarena \in Seq(Cells)
  BY DEF SoundNow, Sound, GoodArena
<1>2. Arena(e.region) \in {garena, sarena}
  BY DEF Arena
<1>3. CASE e.index \in DOMAIN Arena(e.region)
  <2>1. PICK a \in {garena, sarena} : a = Arena(e.region)
    BY <1>2
  <2>2. e.index \in 1 .. Len(a) /\ Value(e) = a[e.index].val
    BY <1>1, <1>3, <2>1, LenProperties DEF Value
  <2>3. a[e.index] \in Cells /\ GoodVal(a[e.index].val, garena)
    BY <1>1, <2>2, ElementOfSeq DEF SoundNow, Sound, GoodArena
  <2>4. QED
    BY <2>2, <2>3 DEF Cells
<1>4. CASE e.index \notin DOMAIN Arena(e.region)
  BY <1>4, DataIsGood DEF Value
<1>5. QED
  BY <1>3, <1>4

\* The running body's frames are the innermost ones, and only the outermost of
\* them can be a call's.
LEMMA BodyFrames ==
  ASSUME frames \in Seq(FrameSet)
  PROVE  /\ Body \subseteq 1 .. Len(frames)
         /\ \A i \in Body, j \in 1 .. Len(frames) :
              i < j => j \in Body /\ frames[j].kind \notin {"call", "new"}
<1> DEFINE calls == {j \in DOMAIN frames : frames[j].kind \in {"call", "new"}}
<1>1. DOMAIN frames = 1 .. Len(frames) /\ Len(frames) \in Nat
  BY LenProperties
<1>2. CASE calls = {}
  <2>1. Body = DOMAIN frames
    BY <1>2 DEF Body
  <2>2. QED
    BY <1>1, <1>2, <2>1
<1>3. CASE calls # {}
  <2>1. Innermost(calls) \in calls /\ \A j \in calls : j <= Innermost(calls)
    BY <1>1, <1>3, InnermostIsIn
  <2>2. Body = Innermost(calls) .. Len(frames)
    BY <1>3 DEF Body
  <2> HIDE DEF calls
  <2>3. Innermost(calls) \in 1 .. Len(frames)
    BY <1>1, <2>1 DEF calls
  <2>4. ASSUME NEW i \in Body, NEW j \in 1 .. Len(frames), i < j
        PROVE  j \in Body /\ j \notin calls
    BY <1>1, <2>1, <2>2, <2>3, <2>4
  <2>5. Body \subseteq 1 .. Len(frames)
    BY <1>1, <2>2, <2>3
  <2>6. ASSUME NEW i \in Body, NEW j \in 1 .. Len(frames), i < j
        PROVE  frames[j].kind \notin {"call", "new"}
    BY <1>1, <2>4, <2>6 DEF calls
  <2>7. QED
    BY <2>4, <2>5, <2>6
<1>4. QED
  BY <1>2, <1>3

\* A name the body may mention is bound.
LEMMA LocalsAreBound ==
  ASSUME SoundNow, NEW n \in LexLocals
  PROVE  n \in Names /\ FramesWith(n) # {}
<1>1. PICK i \in Body : n \in frames[i].lex
  BY DEF LexLocals, LexWith
<1>2. frames \in Seq(FrameSet) /\ GoodFrames(frames, garena, sarena)
  BY DEF SoundNow, Sound, GoodFrames
<1>3. i \in 1 .. Len(frames) /\ i \in DOMAIN frames
  BY <1>1, <1>2, BodyFrames, LenProperties
<1>4. n \in DOMAIN frames[i].binds
  BY <1>1, <1>2, <1>3, FrameTypes
<1>5. QED
  BY <1>3, <1>4 DEF FramesWith, LexLocals

LEMMA VisibleIsBound ==
  ASSUME SoundNow, NEW n \in LexVisible
  PROVE  n \in Names /\ (FramesWith(n) # {} \/ n \in DOMAIN gbinds)
<1>1. n \in DOMAIN gbinds => n \in Names
  BY BindingTypes DEF SoundNow, Sound, GoodBinds
<1>2. QED
  BY <1>1, LocalsAreBound DEF LexVisible

-----------------------------------------------------------------------------
(* Capturing: the parts of Capture, named.                                  *)

BoundIn(wanted) == {n \in wanted : FramesWith(n) # {}}
Promoted(wanted) == {n \in BoundIn(wanted) : Lookup(n).region = "scoped"}
Place(P, n) == CHOOSE i \in DOMAIN SetToSeq(P) : SetToSeq(P)[i] = n
NewRef(P) == [n \in P |-> Entry("global", Len(garena) + Place(P, n), Lookup(n).vid)]
Copies(P) == [i \in DOMAIN SetToSeq(P) |->
                Cell(Lookup(SetToSeq(P)[i]).vid, Value(Lookup(SetToSeq(P)[i])))]
CapturedAs(wanted, n) ==
  IF n \in Promoted(wanted) THEN NewRef(Promoted(wanted))[n] ELSE Lookup(n)

\* The promoted names of the cell, the one bound furthest in, and where a
\* binding of the cell is after the promotion.
NamesOf(P, e) == {n \in P : Lookup(n) = e}
First(P, e) == CHOOSE n \in NamesOf(P, e) : \A k \in NamesOf(P, e) : Inner(k) <= Inner(n)
Moved(P, e) == IF NamesOf(P, e) # {} THEN NewRef(P)[First(P, e)] ELSE e

LEMMA CaptureIs ==
  ASSUME NEW wanted
  PROVE  /\ Capture(wanted).caps = [n \in BoundIn(wanted) |-> CapturedAs(wanted, n)]
         /\ Capture(wanted).ga = garena \o Copies(Promoted(wanted))
         /\ Capture(wanted).fs = Rebind(frames, Promoted(wanted), NewRef(Promoted(wanted)))
  BY DEF Capture, BoundIn, Promoted, Place, NewRef, Copies, CapturedAs

LEMMA RebindIs ==
  ASSUME NEW P
  PROVE  Rebind(frames, P, NewRef(P)) =
           [i \in DOMAIN frames |->
              [frames[i] EXCEPT !.binds = [m \in DOMAIN @ |-> Moved(P, @[m])]]]
  BY DEF Rebind, Moved, First, NamesOf, Inner

\* What Capture promotes: names some frame binds to a scoped cell.
Promotable(P) ==
  P \subseteq Names /\ \A n \in P : FramesWith(n) # {} /\ Lookup(n).region = "scoped"

\* What is promoted is in use, and one cell is added for each name.
LEMMA PromotedCells ==
  ASSUME NamesOfPrograms, SoundNow, NEW P, Promotable(P)
  PROVE  /\ Copies(P) \in Seq(Cells)
         /\ \A i \in 1 .. Len(Copies(P)) : GoodVal(Copies(P)[i].val, garena)
         /\ \A n \in P : /\ NewRef(P)[n] \in GlobalEntries
                         /\ FoundIn(NewRef(P)[n], garena \o Copies(P))
                         /\ NewRef(P)[n].vid = Lookup(n).vid
<1> DEFINE k == Cardinality(P)
           order == SetToSeq(P)
<1>1. IsFiniteSet(P)
  BY FS_Subset DEF NamesOfPrograms, Promotable
<1>2. order \in [1 .. k -> P] /\ k \in Nat
  BY <1>1, Listed
<1>3. \A n \in P : \E i \in 1 .. k : order[i] = n
  BY <1>1, Listed
<1>4. \A n \in P : Lookup(n) \in Entries /\ Value(Lookup(n)) \in Vals
                   /\ GoodVal(Value(Lookup(n)), garena)
  BY LookupIsGood, ValueIsGood DEF Promotable
<1>5. \A n \in P : Cell(Lookup(n).vid, Value(Lookup(n))) \in Cells
  BY <1>4 DEF Cell, Cells, Entries
<1>6. Copies(P) = [i \in 1 .. k |-> Cell(Lookup(order[i]).vid, Value(Lookup(order[i])))]
  BY <1>2 DEF Copies
<1>7. Copies(P) \in [1 .. k -> Cells]
  BY <1>2, <1>5, <1>6
<1>8. Copies(P) \in Seq(Cells) /\ Len(Copies(P)) = k
  BY <1>2, <1>7, SeqDef, LenProperties
<1>9. \A i \in 1 .. k : Copies(P)[i].val = Value(Lookup(order[i]))
                        /\ Copies(P)[i].vid = Lookup(order[i]).vid
  BY <1>6 DEF Cell
<1>10. \A i \in 1 .. Len(Copies(P)) : GoodVal(Copies(P)[i].val, garena)
  BY <1>2, <1>4, <1>8, <1>9
<1>11. ASSUME NEW n \in P
       PROVE  /\ NewRef(P)[n] \in GlobalEntries /\ FoundIn(NewRef(P)[n], garena \o Copies(P))
              /\ NewRef(P)[n].vid = Lookup(n).vid
  <2>1. Place(P, n) \in 1 .. k /\ order[Place(P, n)] = n
    BY <1>2, <1>3 DEF Place
  <2>2. garena \in Seq(Cells) /\ Len(garena) \in Nat
    BY LenProperties DEF SoundNow, Sound, GoodArena
  <2>3. NewRef(P)[n] = [region |-> "global", index |-> Len(garena) + Place(P, n),
                        vid |-> Lookup(n).vid]
    BY DEF NewRef, Entry
  <2>4. Lookup(n).vid \in Nat
    BY <1>4 DEF Entries
  <2>5. Len(garena) + Place(P, n) \in Nat \ {0}
    BY <1>2, <2>1, <2>2
  <2>6. NewRef(P)[n] \in GlobalEntries
    BY <2>3, <2>4, <2>5 DEF GlobalEntries, Entries, Regions
  <2>7. Len(garena \o Copies(P)) = Len(garena) + k
    BY <1>8, <2>2, ConcatProperties
  <2>8. (garena \o Copies(P))[Len(garena) + Place(P, n)] = Copies(P)[Place(P, n)]
    <3> DEFINE j == Len(garena) + Place(P, n)
    <3>1. j \in 1 .. Len(garena) + Len(Copies(P)) /\ ~(j <= Len(garena)) /\ j - Len(garena) = Place(P, n)
      BY <1>2, <1>8, <2>1, <2>2
    <3> HIDE DEF j
    <3>2. (garena \o Copies(P))[j] = Copies(P)[j - Len(garena)]
      BY <1>8, <2>2, <3>1, ConcatProperties
    <3>3. QED
      BY <3>1, <3>2 DEF j
  <2>9. Copies(P)[Place(P, n)].vid = Lookup(n).vid
    BY <1>9, <2>1
  <2>10. Len(garena) + Place(P, n) \in 1 .. Len(garena) + k
    BY <1>2, <2>1, <2>2
  <2>11. FoundIn(NewRef(P)[n], garena \o Copies(P))
    BY <2>3, <2>7, <2>8, <2>9, <2>10 DEF FoundIn
  <2>12. QED
    BY <2>3, <2>6, <2>11
<1>12. QED
  BY <1>8, <1>10, <1>11

\* A binding either is where it was or is with the copy of its cell.
LEMMA MovedIs ==
  ASSUME NamesOfPrograms, SoundNow, NEW P, Promotable(P),
         NEW e
  PROVE  /\ NamesOf(P, e) = {} => Moved(P, e) = e
         /\ NamesOf(P, e) # {} =>
              /\ e.region = "scoped" /\ First(P, e) \in P /\ Lookup(First(P, e)) = e
              /\ \A k \in NamesOf(P, e) : Inner(k) <= Inner(First(P, e))
              /\ Moved(P, e) = NewRef(P)[First(P, e)]
              /\ Moved(P, e).vid = e.vid
<1>1. NamesOf(P, e) = {} => Moved(P, e) = e
  BY DEF Moved
<1>2. CASE NamesOf(P, e) # {}
  <2> DEFINE S == {Inner(n) : n \in NamesOf(P, e)}
  <2>1. frames \in Seq(FrameSet) /\ Len(frames) \in Nat
    BY LenProperties DEF SoundNow, Sound, GoodFrames
  <2>2. \A n \in NamesOf(P, e) : Inner(n) \in 1 .. Len(frames)
    BY <2>1, InnerFrame DEF NamesOf, Promotable
  <2>3. S \in SUBSET (1 .. Len(frames)) /\ S # {}
    BY <1>2, <2>2
  <2>4. \E i \in S : \A j \in S : j <= i
    BY <2>1, <2>3, Greatest
  <2>5. \E n \in NamesOf(P, e) : \A k \in NamesOf(P, e) : Inner(k) <= Inner(n)
    BY <2>4
  <2>6. /\ First(P, e) \in NamesOf(P, e)
        /\ \A k \in NamesOf(P, e) : Inner(k) <= Inner(First(P, e))
    BY <2>5 DEF First
  <2>7. First(P, e) \in P /\ Lookup(First(P, e)) = e /\ e.region = "scoped"
    BY <2>6 DEF NamesOf, Promotable
  <2>8. Moved(P, e) = NewRef(P)[First(P, e)]
    BY <1>2 DEF Moved
  <2>9. NewRef(P)[First(P, e)].vid = e.vid
    BY <2>7, PromotedCells
  <2>10. QED
    BY <1>1, <2>6, <2>7, <2>8, <2>9
<1>3. QED
  BY <1>1, <1>2


\* A frame after the promotion: the same but for where its bindings point.
LEMMA ReboundFrame ==
  ASSUME NamesOfPrograms, SoundNow, NEW P, Promotable(P),
         NEW c \in FrameSet, GoodFrame(c, garena, sarena),
         NEW d, d = [c EXCEPT !.binds = [m \in DOMAIN @ |-> Moved(P, @[m])]]
  PROVE  /\ d \in FrameSet /\ GoodFrame(d, garena \o Copies(P), sarena)
         /\ d.kind = c.kind /\ d.mark = c.mark /\ d.lex = c.lex /\ d.self = c.self
         /\ d.fresh = c.fresh /\ DOMAIN d.binds = DOMAIN c.binds
         /\ \A m \in DOMAIN c.binds : d.binds[m] = Moved(P, c.binds[m])
         /\ \A m \in DOMAIN c.binds : d.binds[m].region = "scoped" => d.binds[m] = c.binds[m]
         /\ \A j : Under(c, j) => Under(d, j)
<1>1. /\ d.kind = c.kind /\ d.mark = c.mark /\ d.lex = c.lex /\ d.self = c.self
      /\ d.fresh = c.fresh /\ d.binds = [m \in DOMAIN c.binds |-> Moved(P, c.binds[m])]
      /\ d = [kind |-> d.kind, mark |-> d.mark, binds |-> d.binds, lex |-> d.lex,
              self |-> d.self, fresh |-> d.fresh]
  BY DEF FrameSet
<1>2. /\ c.binds \in BindingsOf(Entries) /\ c.kind \in FrameKinds /\ c.mark \in Nat
      /\ c.lex \in SUBSET Names /\ c.self \in Names \cup {NoName} /\ c.fresh \in BOOLEAN
  BY DEF FrameSet
<1>3. garena \in Seq(Cells) /\ sarena \in Seq(Cells)
  BY DEF SoundNow, Sound, GoodArena
<1>4. /\ Copies(P) \in Seq(Cells)
      /\ Extends(garena, garena \o Copies(P)) /\ garena \o Copies(P) \in Seq(Cells)
      /\ Extends(sarena, sarena)
  BY <1>3, PromotedCells, Extended
<1>5. ASSUME NEW m \in DOMAIN c.binds
      PROVE  /\ Moved(P, c.binds[m]) \in Entries
             /\ GoodEntry(Moved(P, c.binds[m]), garena \o Copies(P), sarena)
             /\ Moved(P, c.binds[m]).region = "scoped" => Moved(P, c.binds[m]) = c.binds[m]
  <2> DEFINE e == c.binds[m]
  <2>1. e \in Entries /\ GoodEntry(e, garena, sarena)
    BY <1>2, BindingTypes DEF GoodFrame
  <2> HIDE DEF e
  <2>2. CASE NamesOf(P, e) = {}
    <3>1. Moved(P, e) = e
      BY <2>2, MovedIs
    <3>2. GoodEntry(e, garena \o Copies(P), sarena)
      BY <1>3, <1>4, <2>1, GoodEntryAfter
    <3>3. QED
      BY <2>1, <3>1, <3>2 DEF e
  <2>3. CASE NamesOf(P, e) # {}
    <3>1. First(P, e) \in P /\ Moved(P, e) = NewRef(P)[First(P, e)]
      BY <2>3, MovedIs
    <3>2. Moved(P, e) \in GlobalEntries /\ FoundIn(Moved(P, e), garena \o Copies(P))
      BY <3>1, PromotedCells
    <3>3. QED
      BY <3>2 DEF GlobalEntries, GoodEntry, e
  <2>4. QED
    BY <2>2, <2>3
<1>6. d.binds \in BindingsOf(Entries)
  <2>1. DOMAIN d.binds \subseteq Names /\ \A m \in DOMAIN d.binds : d.binds[m] \in Entries
    BY <1>1, <1>2, <1>5, BindingTypes
  <2>2. d.binds = [m \in DOMAIN d.binds |-> d.binds[m]]
    BY <1>1
  <2>3. QED
    BY <2>1, <2>2, BindingIs
<1>7. d \in FrameSet
  BY <1>1, <1>2, <1>6 DEF FrameSet
<1>8. GoodFrame(d, garena \o Copies(P), sarena)
  BY <1>1, <1>5 DEF GoodFrame
<1>9. ASSUME NEW j, Under(c, j) PROVE Under(d, j)
  BY <1>1, <1>5, <1>9 DEF Under
<1>10. QED
  BY <1>1, <1>5, <1>7, <1>8, <1>9

\* The stack after a promotion, frame by frame.
LEMMA ReboundFrames ==
  ASSUME NamesOfPrograms, SoundNow, NEW P, Promotable(P),
         NEW fs, fs = Rebind(frames, P, NewRef(P))
  PROVE  /\ GoodFrames(fs, garena \o Copies(P), sarena) /\ Len(fs) = Len(frames)
         /\ \A i \in 1 .. Len(frames) :
              /\ fs[i].kind = frames[i].kind /\ fs[i].mark = frames[i].mark
              /\ fs[i].lex = frames[i].lex /\ fs[i].self = frames[i].self
              /\ fs[i].fresh = frames[i].fresh
              /\ DOMAIN fs[i].binds = DOMAIN frames[i].binds
              /\ \A m \in DOMAIN frames[i].binds :
                   /\ fs[i].binds[m] = Moved(P, frames[i].binds[m])
                   /\ fs[i].binds[m].region = "scoped" => fs[i].binds[m] = frames[i].binds[m]
<1> DEFINE k == Len(frames)
           G(c) == [c EXCEPT !.binds = [m \in DOMAIN @ |-> Moved(P, @[m])]]
<1>1. frames \in Seq(FrameSet) /\ k \in Nat /\ DOMAIN frames = 1 .. k
  BY LenProperties DEF SoundNow, Sound, GoodFrames
<1>2. fs = [i \in 1 .. k |-> G(frames[i])]
  BY <1>1, RebindIs
<1>3. ASSUME NEW i \in 1 .. k
      PROVE  frames[i] \in FrameSet /\ GoodFrame(frames[i], garena, sarena)
  BY ElementOfSeq DEF SoundNow, Sound, GoodFrames
<1>4. ASSUME NEW i \in 1 .. k
      PROVE  /\ fs[i] \in FrameSet /\ GoodFrame(fs[i], garena \o Copies(P), sarena)
             /\ fs[i].kind = frames[i].kind /\ fs[i].mark = frames[i].mark
             /\ fs[i].lex = frames[i].lex /\ fs[i].self = frames[i].self
             /\ fs[i].fresh = frames[i].fresh
             /\ DOMAIN fs[i].binds = DOMAIN frames[i].binds
             /\ \A m \in DOMAIN frames[i].binds :
                  /\ fs[i].binds[m] = Moved(P, frames[i].binds[m])
                  /\ fs[i].binds[m].region = "scoped" => fs[i].binds[m] = frames[i].binds[m]
             /\ \A j : Under(frames[i], j) => Under(fs[i], j)
  <2>1. fs[i] = G(frames[i])
    BY <1>2
  <2>2. PICK c, d : c = frames[i] /\ d = fs[i]
    OBVIOUS
  <2>3. d = [c EXCEPT !.binds = [m \in DOMAIN @ |-> Moved(P, @[m])]]
    BY <2>1, <2>2
  <2>4. c \in FrameSet /\ GoodFrame(c, garena, sarena)
    BY <1>3, <2>2
  <2> HIDE DEF G
  <2>5. /\ d \in FrameSet /\ GoodFrame(d, garena \o Copies(P), sarena)
        /\ d.kind = c.kind /\ d.mark = c.mark /\ d.lex = c.lex /\ d.self = c.self
        /\ d.fresh = c.fresh /\ DOMAIN d.binds = DOMAIN c.binds
        /\ \A m \in DOMAIN c.binds : d.binds[m] = Moved(P, c.binds[m])
        /\ \A m \in DOMAIN c.binds : d.binds[m].region = "scoped" => d.binds[m] = c.binds[m]
        /\ \A j : Under(c, j) => Under(d, j)
    BY <2>3, <2>4, ReboundFrame
  <2>6. QED
    BY <2>2, <2>5
<1> HIDE DEF G
<1>5. fs \in [1 .. k -> FrameSet]
  BY <1>2, <1>4
<1>6. fs \in Seq(FrameSet) /\ Len(fs) = k
  BY <1>1, <1>5, SeqDef, LenProperties
<1>7. \A i, j \in 1 .. k : i < j => Under(fs[i], fs[j].mark)
  <2>1. ASSUME NEW i \in 1 .. k, NEW j \in 1 .. k, i < j PROVE Under(fs[i], fs[j].mark)
    <3>1. Under(frames[i], frames[j].mark)
      BY <2>1 DEF SoundNow, Sound, GoodFrames
    <3>2. QED
      BY <1>4, <3>1
  <2>2. QED
    BY <2>1
<1>8. (fs = <<>> <=> k = 0) /\ (frames = <<>> <=> k = 0)
  BY <1>1, <1>6, EmptySeq
<1>9. (fs = <<>> => sarena = <<>>) /\ (fs # <<>> => fs[1].mark = 0)
  <2>1. (frames = <<>> => sarena = <<>>) /\ (frames # <<>> => frames[1].mark = 0)
    BY DEF SoundNow, Sound, GoodFrames
  <2>2. k # 0 => 1 \in 1 .. k
    BY <1>1
  <2>3. QED
    BY <1>4, <1>8, <2>1, <2>2
<1>10. GoodFrames(fs, garena \o Copies(P), sarena)
  BY <1>4, <1>6, <1>7, <1>9 DEF GoodFrames
<1>11. QED
  BY <1>4, <1>6, <1>10


LEMMA PromotedIsPromotable ==
  ASSUME NEW wanted \in SUBSET Names
  PROVE  Promotable(Promoted(wanted))
  BY DEF Promotable, Promoted, BoundIn

\* What a function captures is found in the arena its capture leaves.
LEMMA CapturedIsGood ==
  ASSUME NamesOfPrograms, SoundNow, NEW wanted \in SUBSET Names, NEW n \in BoundIn(wanted)
  PROVE  /\ n \in Names /\ CapturedAs(wanted, n) \in GlobalEntries
         /\ FoundIn(CapturedAs(wanted, n), garena \o Copies(Promoted(wanted)))
<1> DEFINE P == Promoted(wanted)
<1>1. Promotable(P)
  BY PromotedIsPromotable
<1>2. n \in Names /\ FramesWith(n) # {}
  BY DEF BoundIn
<1>3. CASE n \in P
  BY <1>1, <1>2, <1>3, PromotedCells DEF CapturedAs
<1>4. CASE n \notin P
  <2>1. CapturedAs(wanted, n) = Lookup(n) /\ Lookup(n).region # "scoped"
    BY <1>2, <1>4 DEF CapturedAs, Promoted
  <2>2. Lookup(n) \in Entries /\ GoodEntry(Lookup(n), garena, sarena)
    BY <1>2, LookupIsGood
  <2>3. Lookup(n) \in GlobalEntries /\ FoundIn(Lookup(n), garena)
    BY <2>1, <2>2 DEF GlobalEntries, Entries, Regions, GoodEntry
  <2>4. garena \in Seq(Cells) /\ Copies(P) \in Seq(Cells)
    BY <1>1, PromotedCells DEF SoundNow, Sound, GoodArena
  <2>5. Extends(garena, garena \o Copies(P)) /\ garena \o Copies(P) \in Seq(Cells)
    BY <2>4, Extended
  <2> HIDE DEF P
  <2>6. FoundIn(Lookup(n), garena \o Copies(P))
    BY <2>3, <2>4, <2>5, FoundAfter DEF GlobalEntries
  <2>7. QED
    BY <1>2, <2>1, <2>3, <2>6 DEF P
<1>5. QED
  BY <1>3, <1>4

\* A capture leaves the memory sound.
LEMMA CaptureIsSound ==
  ASSUME NamesOfPrograms, SoundNow, NEW wanted \in SUBSET Names
  PROVE  /\ Sound(Capture(wanted).ga, sarena, Capture(wanted).fs, gbinds)
         /\ Extends(garena, Capture(wanted).ga)
         /\ DOMAIN Capture(wanted).caps = BoundIn(wanted)
         /\ \A n \in BoundIn(wanted) : /\ n \in Names
                                       /\ Capture(wanted).caps[n] \in GlobalEntries
                                       /\ FoundIn(Capture(wanted).caps[n], Capture(wanted).ga)
<1> DEFINE P == Promoted(wanted)
<1>1. /\ Capture(wanted).caps = [n \in BoundIn(wanted) |-> CapturedAs(wanted, n)]
      /\ Capture(wanted).ga = garena \o Copies(P)
      /\ Capture(wanted).fs = Rebind(frames, P, NewRef(P))
  BY CaptureIs
<1>2. Promotable(P)
  BY PromotedIsPromotable
<1> HIDE DEF P
<1>3. garena \in Seq(Cells) /\ GoodArena(garena, garena) /\ GoodArena(sarena, garena)
      /\ GoodBinds(gbinds, garena)
  BY DEF SoundNow, Sound, GoodArena
<1>4. Copies(P) \in Seq(Cells) /\ \A i \in 1 .. Len(Copies(P)) : GoodVal(Copies(P)[i].val, garena)
  BY <1>2, PromotedCells
<1>5. Extends(garena, garena \o Copies(P)) /\ garena \o Copies(P) \in Seq(Cells)
  BY <1>3, <1>4, Extended
<1>6. GoodArena(garena \o Copies(P), garena)
  <2>1. Len(garena) \in Nat /\ Len(Copies(P)) \in Nat
        /\ Len(garena \o Copies(P)) = Len(garena) + Len(Copies(P))
    BY <1>3, <1>4, ConcatProperties, LenProperties
  <2>2. ASSUME NEW i \in 1 .. Len(garena \o Copies(P))
        PROVE  GoodVal((garena \o Copies(P))[i].val, garena)
    <3>1. CASE i <= Len(garena)
      <4>1. (garena \o Copies(P))[i] = garena[i] /\ i \in 1 .. Len(garena)
        BY <1>3, <1>4, <2>1, <3>1, ConcatProperties
      <4>2. QED
        BY <1>3, <4>1 DEF GoodArena
    <3>2. CASE ~(i <= Len(garena))
      <4>1. (garena \o Copies(P))[i] = Copies(P)[i - Len(garena)]
            /\ i - Len(garena) \in 1 .. Len(Copies(P))
        BY <1>3, <1>4, <2>1, <3>2, ConcatProperties
      <4>2. QED
        BY <1>4, <4>1
    <3>3. QED
      BY <3>1, <3>2
  <2>3. QED
    BY <1>5, <2>2 DEF GoodArena
<1>7. GoodArena(garena \o Copies(P), garena \o Copies(P)) /\ GoodArena(sarena, garena \o Copies(P))
      /\ GoodBinds(gbinds, garena \o Copies(P))
  BY <1>3, <1>5, <1>6, GoodArenaAfter, GoodBindsAfter
<1>8. PICK fs : fs = Rebind(frames, P, NewRef(P))
  OBVIOUS
<1>9. GoodFrames(fs, garena \o Copies(P), sarena)
  BY <1>2, <1>8, ReboundFrames
<1>10. Sound(Capture(wanted).ga, sarena, Capture(wanted).fs, gbinds)
  BY <1>1, <1>7, <1>8, <1>9 DEF Sound
<1>11. \A n \in BoundIn(wanted) : /\ n \in Names /\ CapturedAs(wanted, n) \in GlobalEntries
                                  /\ FoundIn(CapturedAs(wanted, n), garena \o Copies(P))
  BY CapturedIsGood DEF P
<1>12. QED
  BY <1>1, <1>5, <1>10, <1>11

\* Globals a lambda captures live.
Live(mentions) == {n \in mentions \cap DOMAIN gbinds : FramesWith(n) = {} /\ ~Value(gbinds[n]).fn}

LEMMA LambdaIs ==
  ASSUME NEW mentions
  PROVE  /\ Lambda(mentions).ga = Capture(mentions \cup {This}).ga
         /\ Lambda(mentions).fs = Capture(mentions \cup {This}).fs
         /\ Lambda(mentions).val =
              [fn |-> TRUE,
               caps |-> [n \in DOMAIN Capture(mentions \cup {This}).caps \cup Live(mentions) |->
                           IF n \in Live(mentions) THEN gbinds[n]
                           ELSE Capture(mentions \cup {This}).caps[n]],
               lex |-> ((mentions \cup {This}) \cap LexLocals) \cup Live(mentions),
               self |-> NoName]
  BY DEF Lambda, Live, Function

\* The function that was made, and the memory it leaves.
IsMade(l) ==
  /\ Sound(l.ga, sarena, l.fs, gbinds) /\ Extends(garena, l.ga)
  /\ l.val \in Vals /\ GoodVal(l.val, l.ga)

LEMMA LambdaIsSound ==
  ASSUME NamesOfPrograms, SoundNow, NEW mentions \in SUBSET LexVisible
  PROVE  IsMade(Lambda(mentions))
<1> DEFINE w == mentions \cup {This}
           v == Lambda(mentions).val
<1>1. w \in SUBSET Names
  BY VisibleIsBound DEF Names
<1> HIDE DEF w
<1>2. /\ Sound(Capture(w).ga, sarena, Capture(w).fs, gbinds) /\ Extends(garena, Capture(w).ga)
      /\ DOMAIN Capture(w).caps = BoundIn(w)
      /\ \A n \in BoundIn(w) : /\ n \in Names /\ Capture(w).caps[n] \in GlobalEntries
                               /\ FoundIn(Capture(w).caps[n], Capture(w).ga)
  BY <1>1, CaptureIsSound
<1>3. /\ Lambda(mentions).ga = Capture(w).ga /\ Lambda(mentions).fs = Capture(w).fs
      /\ v = [fn |-> TRUE,
              caps |-> [n \in DOMAIN Capture(w).caps \cup Live(mentions) |->
                          IF n \in Live(mentions) THEN gbinds[n] ELSE Capture(w).caps[n]],
              lex |-> (w \cap LexLocals) \cup Live(mentions), self |-> NoName]
  BY LambdaIs DEF w
<1> HIDE DEF v
<1>4. ASSUME NEW n \in Live(mentions)
      PROVE  n \in Names /\ gbinds[n] \in GlobalEntries /\ FoundIn(gbinds[n], Capture(w).ga)
  BY <1>2, BindingTypes DEF Live, Sound, GoodBinds
<1>5. ASSUME NEW n \in DOMAIN v.caps
      PROVE  n \in Names /\ v.caps[n] \in GlobalEntries /\ FoundIn(v.caps[n], Capture(w).ga)
  BY <1>2, <1>3, <1>4
<1>6. v.lex \subseteq DOMAIN v.caps
  BY <1>2, <1>3, LocalsAreBound DEF BoundIn
<1>7. v.caps \in BindingsOf(GlobalEntries)
  <2>1. v.caps = [n \in DOMAIN v.caps |-> v.caps[n]]
    BY <1>3
  <2>2. QED
    BY <1>5, <2>1, BindingIs
<1>8. v \in Vals
  <2>1. v.lex \in SUBSET Names
    BY <1>5, <1>6
  <2>2. PICK caps \in BindingsOf(GlobalEntries), lex \in SUBSET Names :
          v = [fn |-> TRUE, caps |-> caps, lex |-> lex, self |-> NoName]
    BY <1>3, <1>7, <2>1
  <2>3. QED
    BY <2>2 DEF Vals
<1>9. GoodVal(v, Capture(w).ga)
  BY <1>5, <1>6 DEF GoodVal
<1>10. QED
  BY <1>2, <1>3, <1>8, <1>9 DEF IsMade, v

LEMMA FunctionIsSound ==
  ASSUME NamesOfPrograms, SoundNow, NEW n \in Names
  PROVE  IsMade(NamedFunction(n))
<1> DEFINE v == NamedFunction(n).val
<1>1. /\ Sound(Capture(Names).ga, sarena, Capture(Names).fs, gbinds)
      /\ Extends(garena, Capture(Names).ga)
      /\ DOMAIN Capture(Names).caps = BoundIn(Names)
      /\ \A m \in BoundIn(Names) : /\ m \in Names /\ Capture(Names).caps[m] \in GlobalEntries
                                   /\ FoundIn(Capture(Names).caps[m], Capture(Names).ga)
  BY CaptureIsSound
<1>2. /\ NamedFunction(n).ga = Capture(Names).ga /\ NamedFunction(n).fs = Capture(Names).fs
      /\ v = [fn |-> TRUE, caps |-> Capture(Names).caps, lex |-> LexLocals, self |-> n]
  BY DEF NamedFunction, Function
<1> HIDE DEF v
<1>3. Capture(Names).caps = [m \in DOMAIN Capture(Names).caps |-> Capture(Names).caps[m]]
  BY CaptureIs
<1>4. v.caps \in BindingsOf(GlobalEntries)
  BY <1>1, <1>2, <1>3, BindingIs
<1>5. LexLocals \subseteq BoundIn(Names)
  BY LocalsAreBound DEF BoundIn
<1>6. v \in Vals
  BY <1>1, <1>2, <1>4, <1>5 DEF Vals
<1>7. GoodVal(v, Capture(Names).ga)
  BY <1>1, <1>2, <1>5 DEF GoodVal
<1>8. QED
  BY <1>1, <1>2, <1>6, <1>7 DEF IsMade, v


-----------------------------------------------------------------------------
(* What statements do to a sound memory. *)

\* Cells are added or overwritten.
LEMMA GrowIsSound ==
  ASSUME NEW ga, NEW sa, NEW fs, NEW gb, Sound(ga, sa, fs, gb),
         NEW ga2, NEW sa2, Extends(ga, ga2), Extends(sa, sa2),
         GoodArena(ga2, ga2), GoodArena(sa2, ga2), fs = <<>> => sa2 = <<>>
  PROVE  Sound(ga2, sa2, fs, gb)
<1>1. /\ ga \in Seq(Cells) /\ sa \in Seq(Cells) /\ ga2 \in Seq(Cells) /\ sa2 \in Seq(Cells)
      /\ GoodFrames(fs, ga, sa) /\ GoodBinds(gb, ga)
  BY DEF Sound, GoodArena
<1>2. ASSUME NEW i \in 1 .. Len(fs) PROVE GoodFrame(fs[i], ga2, sa2)
  <2>1. fs[i] \in FrameSet /\ GoodFrame(fs[i], ga, sa)
    BY <1>1, ElementOfSeq DEF GoodFrames
  <2>2. QED
    BY <1>1, <2>1, GoodFrameAfter
<1>3. GoodFrames(fs, ga2, sa2)
  BY <1>1, <1>2 DEF GoodFrames
<1>4. GoodBinds(gb, ga2)
  BY <1>1, GoodBindsAfter
<1>5. QED
  BY <1>3, <1>4 DEF Sound

LEMMA GoodArenaAppend ==
  ASSUME NEW ga, NEW a, GoodArena(a, ga), NEW c \in Cells, GoodVal(c.val, ga)
  PROVE  /\ GoodArena(Append(a, c), ga) /\ Append(a, c) # <<>>
         /\ Len(a) \in Nat /\ Len(Append(a, c)) = Len(a) + 1
         /\ Append(a, c)[Len(a) + 1] = c
         /\ Extends(a, Append(a, c))
<1>1. a \in Seq(Cells) /\ Len(a) \in Nat
  BY LenProperties DEF GoodArena
<1>2. /\ Append(a, c) \in Seq(Cells) /\ Len(Append(a, c)) = Len(a) + 1
      /\ Append(a, c)[Len(a) + 1] = c /\ Append(a, c) # <<>>
      /\ \A i \in 1 .. Len(a) : Append(a, c)[i] = a[i]
  BY <1>1, AppendProperties
<1>3. ASSUME NEW i \in 1 .. Len(a) + 1 PROVE GoodVal(Append(a, c)[i].val, ga)
  <2>1. i \in 1 .. Len(a) \/ i = Len(a) + 1
    BY <1>1
  <2>2. QED
    BY <1>2, <2>1 DEF GoodArena
<1>4. Extends(a, Append(a, c))
  BY <1>1, Extended
<1>5. QED
  BY <1>1, <1>2, <1>3, <1>4 DEF GoodArena

LEMMA AllocScoped ==
  ASSUME NEW ga, NEW sa, NEW fs, NEW gb, Sound(ga, sa, fs, gb), fs # <<>>,
         NEW c \in Cells, GoodVal(c.val, ga)
  PROVE  Sound(ga, Append(sa, c), fs, gb)
<1>1. GoodArena(sa, ga) /\ GoodArena(ga, ga) /\ ga \in Seq(Cells)
  BY DEF Sound, GoodArena
<1>2. GoodArena(Append(sa, c), ga) /\ Extends(sa, Append(sa, c)) /\ Extends(ga, ga)
  BY <1>1, GoodArenaAppend, Extended
<1>3. QED
  BY <1>1, <1>2, GrowIsSound

LEMMA AllocGlobal ==
  ASSUME NEW ga, NEW sa, NEW fs, NEW gb, Sound(ga, sa, fs, gb),
         NEW c \in Cells, GoodVal(c.val, ga)
  PROVE  Sound(Append(ga, c), sa, fs, gb)
<1>1. /\ GoodArena(sa, ga) /\ GoodArena(ga, ga) /\ ga \in Seq(Cells) /\ sa \in Seq(Cells)
      /\ fs = <<>> => sa = <<>>
  BY DEF Sound, GoodArena, GoodFrames
<1>2. GoodArena(Append(ga, c), ga) /\ Extends(ga, Append(ga, c)) /\ Extends(sa, sa)
      /\ Append(ga, c) \in Seq(Cells)
  BY <1>1, GoodArenaAppend, Extended
<1>3. GoodArena(Append(ga, c), Append(ga, c)) /\ GoodArena(sa, Append(ga, c))
  BY <1>1, <1>2, GoodArenaAfter
<1>4. QED
  BY <1>1, <1>2, <1>3, GrowIsSound

LEMMA BindTypes ==
  ASSUME NEW S, NEW b \in BindingsOf(S), NEW n \in Names, NEW e \in S
  PROVE  Bind(b, n, e) \in BindingsOf(S)
<1>1. DOMAIN b \subseteq Names /\ \A m \in DOMAIN b : b[m] \in S
  BY BindingTypes
<1>2. PICK f : f = Bind(b, n, e)
  OBVIOUS
<1>3. DOMAIN f \subseteq Names /\ f = [m \in DOMAIN f |-> f[m]]
  BY <1>1, <1>2 DEF Bind
<1>4. \A m \in DOMAIN f : f[m] \in S
  BY <1>1, <1>2 DEF Bind
<1>5. QED
  BY <1>2, <1>3, <1>4, BindingIs

LEMMA BindGlobal ==
  ASSUME NEW ga, NEW sa, NEW fs, NEW gb, Sound(ga, sa, fs, gb),
         NEW n \in Names, NEW e \in GlobalEntries, FoundIn(e, ga)
  PROVE  Sound(ga, sa, fs, Bind(gb, n, e))
<1>1. gb \in BindingsOf(GlobalEntries) /\ \A m \in DOMAIN gb : FoundIn(gb[m], ga)
  BY DEF Sound, GoodBinds
<1>2. /\ Bind(gb, n, e) \in BindingsOf(GlobalEntries)
      /\ DOMAIN Bind(gb, n, e) = DOMAIN gb \cup {n} /\ Bind(gb, n, e)[n] = e
      /\ \A m \in DOMAIN gb \ {n} : Bind(gb, n, e)[m] = gb[m]
  BY <1>1, BindTypes DEF Bind
<1>3. GoodBinds(Bind(gb, n, e), ga)
  BY <1>1, <1>2 DEF GoodBinds
<1>4. QED
  BY <1>3 DEF Sound

\* The innermost frame is replaced by one with the same watermark.
LEMMA TopReplaced ==
  ASSUME NEW ga, NEW sa, NEW fs, NEW gb, Sound(ga, sa, fs, gb), fs # <<>>,
         NEW c \in FrameSet, GoodFrame(c, ga, sa), c.mark = fs[Len(fs)].mark
  PROVE  Sound(ga, sa, [fs EXCEPT ![Len(fs)] = c], gb)
<1>1. PICK gs : gs = [fs EXCEPT ![Len(fs)] = c]
  OBVIOUS
<1>2. fs \in Seq(FrameSet) /\ Len(fs) \in Nat /\ GoodFrames(fs, ga, sa)
  BY LenProperties DEF Sound, GoodFrames
<1>3. /\ gs \in Seq(FrameSet) /\ Len(gs) = Len(fs) /\ gs[Len(fs)] = c
      /\ \A i \in 1 .. Len(fs) - 1 : gs[i] = fs[i]
  BY <1>1, <1>2, Replaced
<1>4. ASSUME NEW i \in 1 .. Len(fs)
      PROVE  GoodFrame(gs[i], ga, sa) /\ gs[i].mark = fs[i].mark
  <2>1. i = Len(fs) \/ i \in 1 .. Len(fs) - 1
    BY <1>2
  <2>2. QED
    BY <1>2, <1>3, <2>1 DEF GoodFrames
<1>5. ASSUME NEW i \in 1 .. Len(fs), NEW j \in 1 .. Len(fs), i < j
      PROVE  Under(gs[i], gs[j].mark)
  <2>1. i \in 1 .. Len(fs) - 1
    BY <1>2, <1>5
  <2>2. Under(fs[i], fs[j].mark)
    BY <1>2, <1>5 DEF GoodFrames
  <2>3. QED
    BY <1>3, <1>4, <2>1, <2>2
<1>6. gs # <<>> /\ gs[1].mark = 0
  <2>1. Len(fs) # 0 /\ 1 \in 1 .. Len(fs)
    BY <1>2, EmptySeq
  <2>2. QED
    BY <1>2, <1>3, <1>4, <2>1, EmptySeq DEF GoodFrames
<1>7. GoodFrames(gs, ga, sa)
  BY <1>3, <1>4, <1>5, <1>6 DEF GoodFrames
<1>8. QED
  BY <1>1, <1>7 DEF Sound

\* A frame with one more name bound in it.
WithName(c, n, e) == [c EXCEPT !.binds = Bind(@, n, e), !.lex = @ \cup {n}]

LEMMA NamedFrame ==
  ASSUME NEW c \in FrameSet, NEW n \in Names, NEW e \in Entries,
         NEW d, d = WithName(c, n, e)
  PROVE  /\ d \in FrameSet /\ d.kind = c.kind /\ d.mark = c.mark /\ d.fresh = c.fresh
         /\ d.lex = c.lex \cup {n}
         /\ DOMAIN d.binds = DOMAIN c.binds \cup {n} /\ d.binds[n] = e
         /\ \A m \in DOMAIN c.binds \ {n} : d.binds[m] = c.binds[m]
<1>1. /\ d.kind = c.kind /\ d.mark = c.mark /\ d.lex = c.lex \cup {n} /\ d.self = c.self
      /\ d.fresh = c.fresh /\ d.binds = Bind(c.binds, n, e)
      /\ d = [kind |-> d.kind, mark |-> d.mark, binds |-> d.binds, lex |-> d.lex,
              self |-> d.self, fresh |-> d.fresh]
  BY DEF FrameSet, WithName
<1>2. PICK b \in BindingsOf(Entries) : b = c.binds
  BY DEF FrameSet
<1>3. /\ Bind(b, n, e) \in BindingsOf(Entries) /\ DOMAIN Bind(b, n, e) = DOMAIN b \cup {n}
      /\ Bind(b, n, e)[n] = e /\ \A m \in DOMAIN b \ {n} : Bind(b, n, e)[m] = b[m]
  BY <1>2, BindTypes DEF Bind
<1>4. /\ c.kind \in FrameKinds /\ c.mark \in Nat /\ c.lex \cup {n} \in SUBSET Names
      /\ c.self \in Names \cup {NoName} /\ c.fresh \in BOOLEAN
  BY DEF FrameSet
<1>5. d \in FrameSet
  BY <1>1, <1>2, <1>3, <1>4 DEF FrameSet
<1>6. QED
  BY <1>1, <1>2, <1>3, <1>5

LEMMA BindTop ==
  ASSUME NEW ga, NEW sa, NEW fs, NEW gb, Sound(ga, sa, fs, gb), fs # <<>>,
         NEW n \in Names, NEW e \in Entries, GoodEntry(e, ga, sa), n # This,
         NEW gs, gs = [fs EXCEPT ![Len(fs)] = WithName(fs[Len(fs)], n, e)]
  PROVE  Sound(ga, sa, gs, gb)
<1>1. fs \in Seq(FrameSet) /\ Len(fs) \in 1 .. Len(fs)
  BY LastIsIn DEF Sound, GoodFrames
<1>2. PICK c : c = fs[Len(fs)]
  OBVIOUS
<1>3. c \in FrameSet /\ GoodFrame(c, ga, sa)
  BY <1>1, <1>2, ElementOfSeq DEF Sound, GoodFrames
<1>4. PICK d : d = WithName(c, n, e)
  OBVIOUS
<1>5. /\ d \in FrameSet /\ d.kind = c.kind /\ d.mark = c.mark /\ d.lex = c.lex \cup {n}
      /\ DOMAIN d.binds = DOMAIN c.binds \cup {n} /\ d.binds[n] = e
      /\ \A m \in DOMAIN c.binds \ {n} : d.binds[m] = c.binds[m]
  BY <1>3, <1>4, NamedFrame
<1>6. GoodFrame(d, ga, sa)
  BY <1>3, <1>5 DEF GoodFrame
<1>7. QED
  BY <1>2, <1>4, <1>5, <1>6, TopReplaced


LEMMA NamedTop ==
  ASSUME NEW fs \in Seq(FrameSet), fs # <<>>, NEW n, NEW e,
         NEW gs, gs = [fs EXCEPT ![Len(fs)].binds = Bind(@, n, e), ![Len(fs)].lex = @ \cup {n}]
  PROVE  gs = [fs EXCEPT ![Len(fs)] = WithName(fs[Len(fs)], n, e)]
<1>1. Len(fs) \in 1 .. Len(fs) /\ DOMAIN fs = 1 .. Len(fs)
  BY LastIsIn, LenProperties
<1>2. fs[Len(fs)] \in FrameSet
  BY <1>1, ElementOfSeq
<1>3. QED
  BY <1>1, <1>2 DEF WithName, FrameSet

\* A frame is pushed at the end of the scoped arena, with a cell of its own or
\* none.
LEMMA PushIsSound ==
  ASSUME NEW ga, NEW sa, NEW fs, NEW gb, Sound(ga, sa, fs, gb),
         NEW sa2, Extends(sa, sa2), GoodArena(sa2, ga),
         NEW c \in FrameSet, c.mark = Len(sa), GoodFrame(c, ga, sa2)
  PROVE  Sound(ga, sa2, Append(fs, c), gb)
<1>1. PICK gs : gs = Append(fs, c)
  OBVIOUS
<1>2. /\ fs \in Seq(FrameSet) /\ Len(fs) \in Nat /\ GoodFrames(fs, ga, sa)
      /\ ga \in Seq(Cells) /\ sa \in Seq(Cells) /\ sa2 \in Seq(Cells) /\ Extends(ga, ga)
      /\ Len(sa) \in Nat
  BY LenProperties, Extended DEF Sound, GoodFrames, GoodArena
<1>3. /\ gs \in Seq(FrameSet) /\ Len(gs) = Len(fs) + 1 /\ gs[Len(fs) + 1] = c /\ gs # <<>>
      /\ \A i \in 1 .. Len(fs) : gs[i] = fs[i]
  BY <1>1, <1>2, AppendProperties
<1>4. ASSUME NEW i \in 1 .. Len(fs) PROVE GoodFrame(fs[i], ga, sa2) /\ Under(fs[i], Len(sa))
  <2>1. fs[i] \in FrameSet /\ GoodFrame(fs[i], ga, sa)
    BY <1>2, ElementOfSeq DEF GoodFrames
  <2>2. GoodFrame(fs[i], ga, sa2)
    BY <1>2, <2>1, GoodFrameAfter
  <2>3. Under(fs[i], Len(sa))
    <3>1. \A n \in DOMAIN fs[i].binds :
            fs[i].binds[n].region = "scoped" => fs[i].binds[n].index \in 1 .. Len(sa)
      BY <2>1 DEF GoodFrame, GoodEntry, FoundIn
    <3>2. QED
      BY <1>2, <2>1, <3>1 DEF GoodFrame, Under
  <2>4. QED
    BY <2>2, <2>3
<1>5. ASSUME NEW i \in 1 .. Len(gs) PROVE GoodFrame(gs[i], ga, sa2)
  <2>1. i \in 1 .. Len(fs) \/ i = Len(fs) + 1
    BY <1>2, <1>3
  <2>2. QED
    BY <1>3, <1>4, <2>1
<1>6. ASSUME NEW i \in 1 .. Len(gs), NEW j \in 1 .. Len(gs), i < j
      PROVE  Under(gs[i], gs[j].mark)
  <2>1. i \in 1 .. Len(fs) /\ (j \in 1 .. Len(fs) \/ j = Len(fs) + 1)
    <3>1. Len(fs) \in Nat /\ Len(gs) = Len(fs) + 1
      BY <1>2, <1>3
    <3>2. QED
      BY <1>6, <3>1
  <2>2. CASE j \in 1 .. Len(fs)
    BY <1>2, <1>3, <1>6, <2>1, <2>2 DEF GoodFrames
  <2>3. CASE j = Len(fs) + 1
    BY <1>3, <1>4, <2>1, <2>3
  <2>4. QED
    BY <2>1, <2>2, <2>3
<1>7. gs[1].mark = 0
  <2>1. CASE fs = <<>>
    <3>1. Len(fs) = 0 /\ sa = <<>>
      BY <1>2, <2>1, EmptySeq DEF GoodFrames
    <3>2. Len(sa) = 0
      BY <1>2, <3>1, EmptySeq
    <3>3. QED
      BY <1>3, <3>1, <3>2
  <2>2. CASE fs # <<>>
    <3>1. 1 \in 1 .. Len(fs)
      BY <1>2, <2>2, EmptySeq
    <3>2. QED
      BY <1>2, <1>3, <2>2, <3>1 DEF GoodFrames
  <2>3. QED
    BY <2>1, <2>2
<1>8. GoodFrames(gs, ga, sa2)
  BY <1>3, <1>5, <1>6, <1>7 DEF GoodFrames
<1>9. QED
  BY <1>1, <1>8 DEF Sound

\* Popping down to `depth` frames frees no cell they, the globals or a
\* function use.
LEMMA PopIsSound ==
  ASSUME NEW ga, NEW sa, NEW fs, NEW gb, Sound(ga, sa, fs, gb),
         NEW depth \in 0 .. Len(fs) - 1,
         NEW m, m = fs[depth + 1].mark
  PROVE  /\ Sound(ga, SubSeq(sa, 1, m), SubSeq(fs, 1, depth), gb)
         /\ Len(SubSeq(fs, 1, depth)) = depth /\ m \in Nat /\ Len(SubSeq(sa, 1, m)) = m
         /\ \A i \in 1 .. depth : SubSeq(fs, 1, depth)[i] = fs[i]
         /\ \A i \in 1 .. m : SubSeq(sa, 1, m)[i] = sa[i]
<1>1. PICK gs, s : gs = SubSeq(fs, 1, depth) /\ s = SubSeq(sa, 1, m)
  OBVIOUS
<1>2. /\ fs \in Seq(FrameSet) /\ Len(fs) \in Nat /\ GoodFrames(fs, ga, sa)
      /\ ga \in Seq(Cells) /\ sa \in Seq(Cells) /\ Len(sa) \in Nat /\ GoodArena(sa, ga)
  BY LenProperties DEF Sound, GoodFrames, GoodArena
<1>3. depth \in Nat /\ depth + 1 \in 1 .. Len(fs)
  BY <1>2
<1>4. fs[depth + 1] \in FrameSet /\ GoodFrame(fs[depth + 1], ga, sa)
  BY <1>2, <1>3, ElementOfSeq DEF GoodFrames
<1>5. m \in Nat /\ m <= Len(sa)
  BY <1>4 DEF FrameSet, GoodFrame
<1>6. /\ gs \in Seq(FrameSet) /\ Len(gs) = depth
      /\ \A i \in 1 .. depth : gs[i] = fs[i]
  <2>1. \A i \in 1 .. depth : fs[i] \in FrameSet
    BY <1>2, <1>3, ElementOfSeq
  <2>2. QED
    BY <1>1, <1>3, <2>1, SubSeqProperties
<1>7. /\ s \in Seq(Cells) /\ Len(s) = m
      /\ \A i \in 1 .. m : s[i] = sa[i]
  <2>1. \A i \in 1 .. m : sa[i] \in Cells
    BY <1>2, <1>5, ElementOfSeq
  <2>2. QED
    BY <1>1, <1>5, <2>1, SubSeqProperties
<1>8. GoodArena(s, ga)
  <2>1. \A i \in 1 .. m : i \in 1 .. Len(sa)
    BY <1>2, <1>5
  <2>2. QED
    BY <1>2, <1>7, <2>1 DEF GoodArena
<1>9. ASSUME NEW i \in 1 .. depth PROVE GoodFrame(gs[i], ga, s)
  <2>1. i \in 1 .. Len(fs) /\ i < depth + 1
    BY <1>2, <1>3
  <2>2. GoodFrame(fs[i], ga, sa) /\ Under(fs[i], m) /\ fs[i] \in FrameSet
    BY <1>2, <1>3, <2>1, ElementOfSeq DEF GoodFrames
  <2>3. ASSUME NEW n \in DOMAIN fs[i].binds PROVE GoodEntry(fs[i].binds[n], ga, s)
    <3>1. GoodEntry(fs[i].binds[n], ga, sa)
      BY <2>2 DEF GoodFrame
    <3>2. CASE fs[i].binds[n].region = "scoped"
      <4>1. FoundIn(fs[i].binds[n], sa) /\ fs[i].binds[n].index <= m
        BY <2>2, <3>1, <3>2 DEF GoodEntry, Under
      <4>2. PICK e : e = fs[i].binds[n]
        OBVIOUS
      <4>3. e.index \in 1 .. Len(sa) /\ sa[e.index].vid = e.vid /\ e.index <= m
        BY <4>1, <4>2 DEF FoundIn
      <4>4. e.index \in 1 .. m
        BY <1>2, <1>5, <4>3
      <4>5. FoundIn(e, s)
        BY <1>7, <4>3, <4>4 DEF FoundIn
      <4>6. QED
        BY <3>2, <4>2, <4>5 DEF GoodEntry
    <3>3. QED
      BY <3>1, <3>2 DEF GoodEntry
  <2>4. fs[i].mark <= Len(s)
    BY <1>7, <2>2 DEF Under
  <2>5. GoodFrame(fs[i], ga, s)
    BY <2>2, <2>3, <2>4 DEF GoodFrame
  <2>6. QED
    BY <1>6, <2>5
<1>10. ASSUME NEW i \in 1 .. depth, NEW j \in 1 .. depth, i < j
       PROVE  Under(gs[i], gs[j].mark)
  <2>1. i \in 1 .. Len(fs) /\ j \in 1 .. Len(fs)
    BY <1>2, <1>3
  <2>2. QED
    BY <1>2, <1>6, <1>10, <2>1 DEF GoodFrames
<1>11. (gs = <<>> => s = <<>>) /\ (gs # <<>> => gs[1].mark = 0)
  <2>1. fs # <<>> /\ fs[1].mark = 0
    BY <1>2, <1>3, EmptySeq DEF GoodFrames
  <2>2. CASE depth = 0
    <3>1. m = 0
      BY <2>1, <2>2
    <3>2. gs = <<>> /\ s = <<>>
      BY <1>6, <1>7, <2>2, <3>1, EmptySeq
    <3>3. QED
      BY <3>2
  <2>3. CASE depth # 0
    <3>1. gs # <<>> /\ 1 \in 1 .. depth
      BY <1>3, <1>6, <2>3, EmptySeq
    <3>2. QED
      BY <1>6, <2>1, <3>1
  <2>4. QED
    BY <2>2, <2>3
<1>12. GoodFrames(gs, ga, s)
  BY <1>6, <1>9, <1>10, <1>11 DEF GoodFrames
<1>13. Sound(ga, s, gs, gb)
  BY <1>8, <1>12 DEF Sound
<1>14. QED
  BY <1>1, <1>5, <1>6, <1>7, <1>13

\* Writing a cell changes what it holds, not whose it is.
LEMMA UpdatedIs ==
  ASSUME NEW ga, NEW a, GoodArena(a, ga), NEW i, NEW val \in Vals, GoodVal(val, ga)
  PROVE  /\ GoodArena(Updated(a, i, val), ga) /\ Len(Updated(a, i, val)) = Len(a)
         /\ Extends(a, Updated(a, i, val)) /\ (a = <<>> => Updated(a, i, val) = <<>>)
         /\ \A k \in 1 .. Len(a) :
              Updated(a, i, val)[k].val = IF k = i THEN val ELSE a[k].val
<1>1. a \in Seq(Cells) /\ Len(a) \in Nat /\ DOMAIN a = 1 .. Len(a)
  BY LenProperties DEF GoodArena
<1>2. PICK b : b = Updated(a, i, val)
  OBVIOUS
<1>3. ASSUME NEW k \in 1 .. Len(a)
      PROVE  /\ b[k] \in Cells /\ b[k].vid = a[k].vid /\ GoodVal(b[k].val, ga)
             /\ b[k].val = IF k = i THEN val ELSE a[k].val
  <2>1. a[k] \in Cells /\ GoodVal(a[k].val, ga)
    BY <1>1, ElementOfSeq DEF GoodArena
  <2>2. b[k] = IF k = i THEN [a[k] EXCEPT !.val = val] ELSE a[k]
    BY <1>1, <1>2 DEF Updated
  <2>3. CASE k = i
    BY <2>1, <2>2, <2>3 DEF Cells
  <2>4. CASE k # i
    BY <2>1, <2>2, <2>4
  <2>5. QED
    BY <2>3, <2>4
<1>4. b \in [1 .. Len(a) -> Cells]
  BY <1>1, <1>2, <1>3 DEF Updated
<1>5. b \in Seq(Cells) /\ Len(b) = Len(a)
  BY <1>1, <1>4, SeqDef, LenProperties
<1>6. GoodArena(b, ga)
  BY <1>3, <1>5 DEF GoodArena
<1>7. Extends(a, b)
  BY <1>1, <1>3, <1>5 DEF Extends
<1>8. a = <<>> => b = <<>>
  BY <1>1, <1>5, EmptySeq
<1>9. QED
  BY <1>2, <1>3, <1>5, <1>6, <1>7, <1>8


LEMMA GlobalBindings == \A b \in BindingsOf(GlobalEntries) : b \in BindingsOf(Entries)
<1>1. GlobalEntries \subseteq Entries
  BY DEF GlobalEntries
<1>2. QED
  BY <1>1 DEF BindingsOf

\* What one binding looks like.
LEMMA OneBinding ==
  ASSUME NEW n \in Names, NEW e \in Entries
  PROVE  /\ Bind(NoBinds, n, e) \in BindingsOf(Entries) /\ DOMAIN Bind(NoBinds, n, e) = {n}
         /\ Bind(NoBinds, n, e)[n] = e
<1>1. DOMAIN NoBinds = {}
  BY DEF NoBinds
<1>2. Bind(NoBinds, n, e) = [m \in {n} |-> IF m = n THEN e ELSE NoBinds[m]]
  BY <1>1 DEF Bind
<1>3. Bind(NoBinds, n, e) \in [{n} -> Entries]
  BY <1>2
<1>4. QED
  BY <1>2, <1>3 DEF BindingsOf

LEMMA EntryIs ==
  ASSUME NEW region \in Regions, NEW index \in Nat \ {0}, NEW vid \in Nat
  PROVE  /\ Entry(region, index, vid) \in Entries
         /\ Entry(region, index, vid).region = region /\ Entry(region, index, vid).index = index
         /\ Entry(region, index, vid).vid = vid
  BY DEF Entry, Entries

\* Only whether loop frames are fresh changes.
LEMMA SameFrames ==
  ASSUME NEW ga, NEW sa, NEW fs, NEW gb, Sound(ga, sa, fs, gb),
         NEW gs \in Seq(FrameSet), Len(gs) = Len(fs),
         \A i \in 1 .. Len(fs) : gs[i].kind = fs[i].kind /\ gs[i].mark = fs[i].mark
                                 /\ gs[i].binds = fs[i].binds /\ gs[i].lex = fs[i].lex
  PROVE  Sound(ga, sa, gs, gb)
<1>1. fs \in Seq(FrameSet) /\ Len(fs) \in Nat /\ GoodFrames(fs, ga, sa)
  BY LenProperties DEF Sound, GoodFrames
<1>2. \A i \in 1 .. Len(fs) : GoodFrame(gs[i], ga, sa)
  BY <1>1 DEF GoodFrames, GoodFrame
<1>3. \A i, j \in 1 .. Len(fs) : i < j => Under(gs[i], gs[j].mark)
  <2>1. ASSUME NEW i \in 1 .. Len(fs), NEW j \in 1 .. Len(fs), i < j
        PROVE  Under(gs[i], gs[j].mark)
    <3>1. Under(fs[i], fs[j].mark)
      BY <1>1, <2>1 DEF GoodFrames
    <3>2. QED
      BY <3>1 DEF Under
  <2>2. QED
    BY <2>1
<1>4. (gs = <<>> => sa = <<>>) /\ (gs # <<>> => gs[1].mark = 0)
  <2>1. gs = <<>> <=> fs = <<>>
    BY <1>1, EmptySeq
  <2>2. gs # <<>> => 1 \in 1 .. Len(fs)
    BY <1>1, <2>1, EmptySeq
  <2>3. QED
    BY <1>1, <2>1, <2>2 DEF GoodFrames
<1>5. GoodFrames(gs, ga, sa)
  BY <1>2, <1>3, <1>4 DEF GoodFrames
<1>6. QED
  BY <1>5 DEF Sound

LEMMA DeclareIsSound ==
  ASSUME NEW ga, NEW sa, NEW fs, Sound(ga, sa, fs, gbinds),
         NEW n \in Names, n # This, NEW val \in Vals, GoodVal(val, ga), NEW vid \in Nat,
         DeclareIn(ga, sa, fs, n, val, vid)
  PROVE  Sound(garena', sarena', frames', gbinds')
<1> DEFINE c == Cell(vid, val)
<1>1. c \in Cells /\ c.val = val /\ c.vid = vid
  BY DEF Cell, Cells
<1> HIDE DEF c
<1>2. ga \in Seq(Cells) /\ sa \in Seq(Cells) /\ Len(ga) \in Nat /\ Len(sa) \in Nat
      /\ GoodArena(ga, ga) /\ GoodArena(sa, ga)
  BY LenProperties DEF Sound, GoodArena
<1>3. CASE fs = <<>>
  <2> DEFINE e == Entry("global", Len(ga) + 1, vid)
  <2>1. /\ garena' = Append(ga, c) /\ gbinds' = Bind(gbinds, n, e)
        /\ sarena' = sa /\ frames' = fs
    BY <1>3 DEF DeclareIn, c
  <2>2. e \in GlobalEntries /\ e.index = Len(ga) + 1 /\ e.vid = vid
    BY <1>2, EntryIs DEF GlobalEntries, Regions
  <2> HIDE DEF e
  <2>3. Sound(Append(ga, c), sa, fs, gbinds)
    BY <1>1, AllocGlobal
  <2>4. Len(Append(ga, c)) = Len(ga) + 1 /\ Append(ga, c)[Len(ga) + 1] = c
    BY <1>1, <1>2, AppendProperties
  <2>5. FoundIn(e, Append(ga, c))
    BY <1>1, <1>2, <2>2, <2>4 DEF FoundIn
  <2>6. QED
    BY <2>1, <2>2, <2>3, <2>5, BindGlobal
<1>4. CASE fs # <<>>
  <2> DEFINE e == Entry("scoped", Len(sa) + 1, vid)
  <2>1. fs \in Seq(FrameSet)
    BY DEF Sound, GoodFrames
  <2>2. e \in Entries /\ e.region = "scoped" /\ e.index = Len(sa) + 1 /\ e.vid = vid
    BY <1>2, EntryIs DEF Regions
  <2>3. /\ garena' = ga /\ sarena' = Append(sa, c) /\ gbinds' = gbinds
        /\ frames' = [fs EXCEPT ![Len(fs)].binds = Bind(@, n, e), ![Len(fs)].lex = @ \cup {n}]
    BY <1>4 DEF DeclareIn, c
  <2> HIDE DEF e
  <2>4. frames' = [fs EXCEPT ![Len(fs)] = WithName(fs[Len(fs)], n, e)]
    BY <1>4, <2>1, <2>2, <2>3, NamedTop
  <2>5. Sound(ga, Append(sa, c), fs, gbinds)
    BY <1>1, <1>4, AllocScoped
  <2>6. Len(Append(sa, c)) = Len(sa) + 1 /\ Append(sa, c)[Len(sa) + 1] = c
    BY <1>1, <1>2, AppendProperties
  <2>7. GoodEntry(e, ga, Append(sa, c))
    BY <1>1, <1>2, <2>2, <2>6 DEF FoundIn, GoodEntry
  <2>8. Sound(ga, Append(sa, c), frames', gbinds)
    BY <1>4, <2>2, <2>4, <2>5, <2>7, BindTop
  <2>9. QED
    BY <2>3, <2>8
<1>5. QED
  BY <1>3, <1>4

LEMMA StoreIsSound ==
  ASSUME NEW ga, NEW fs, Sound(ga, sarena, fs, gbinds),
         NEW val \in Vals, GoodVal(val, ga), NEW e, Store(ga, sarena, e, val)
  PROVE  Sound(garena', sarena', fs, gbinds)
<1>1. /\ ga \in Seq(Cells) /\ sarena \in Seq(Cells) /\ GoodArena(ga, ga) /\ GoodArena(sarena, ga)
      /\ Extends(ga, ga) /\ Extends(sarena, sarena) /\ (fs = <<>> => sarena = <<>>)
  BY Extended DEF Sound, GoodArena, GoodFrames
<1>2. CASE e.region = "global"
  <2>1. garena' = Updated(ga, e.index, val) /\ sarena' = sarena
    BY <1>2 DEF Store
  <2>2. PICK a : a = Updated(ga, e.index, val)
    OBVIOUS
  <2>3. GoodArena(a, ga) /\ Extends(ga, a)
    BY <1>1, <2>2, UpdatedIs
  <2>4. a \in Seq(Cells)
    BY <2>3 DEF GoodArena
  <2>5. GoodArena(a, a) /\ GoodArena(sarena, a)
    BY <1>1, <2>3, <2>4, GoodArenaAfter
  <2>6. QED
    BY <1>1, <2>1, <2>2, <2>3, <2>5, GrowIsSound
<1>3. CASE e.region # "global"
  <2>1. sarena' = Updated(sarena, e.index, val) /\ garena' = ga
    BY <1>3 DEF Store
  <2>2. PICK a : a = Updated(sarena, e.index, val)
    OBVIOUS
  <2>3. GoodArena(a, ga) /\ Extends(sarena, a) /\ (sarena = <<>> => a = <<>>)
    BY <1>1, <2>2, UpdatedIs
  <2>4. QED
    BY <1>1, <2>1, <2>2, <2>3, GrowIsSound
<1>4. QED
  BY <1>2, <1>3

LEMMA ValuesAreGood ==
  ASSUME NamesOfPrograms, PlainCalls, SoundNow, NEW val \in Values
  PROVE  val \in Vals /\ GoodVal(val, garena)
<1>1. CASE val = Data
  BY <1>1, DataIsGood
<1>2. ASSUME NEW m \in LexVisible, val = Value(Lookup(m)) PROVE val \in Vals /\ GoodVal(val, garena)
  <2>1. Lookup(m) \in Entries
    BY VisibleIsBound, LookupIsGood
  <2>2. QED
    BY <1>2, <2>1, ValueIsGood
<1>3. QED
  BY <1>1, <1>2 DEF Values, PlainCalls

LEMMA Quiet ==
  ASSUME OutIsQuiet, Running \/ frames # <<>>
  PROVE  outMark = -1
  BY DEF OutIsQuiet, Running


-----------------------------------------------------------------------------
(* Every step leaves a sound memory. *)

SoundNext == Sound(garena', sarena', frames', gbinds') /\ OutIsQuiet'

Counted == vids \in 0 .. MaxVids
Inv == SoundNow /\ OutIsQuiet /\ Counted

LEMMA HereIsNames == NamesOfPrograms => \A n \in Here : n \in Names /\ n # This
  BY DEF Here, NamesOfPrograms, Names

LEMMA LetSound ==
  ASSUME NamesOfPrograms, PlainCalls, Inv, NEW n, NEW val \in Values, Let(n, val)
  PROVE  SoundNext
<1>1. n \in Names /\ n # This
  BY HereIsNames DEF Let
<1>2. val \in Vals /\ GoodVal(val, garena)
  BY ValuesAreGood DEF Inv
<1>3. vids \in Nat /\ outMark = -1
  BY Quiet DEF Let, Inv, Counted
<1>4. Sound(garena', sarena', frames', gbinds')
  BY <1>1, <1>2, <1>3, DeclareIsSound DEF Let, Inv, SoundNow
<1>5. QED
  BY <1>3, <1>4 DEF Let, SoundNext, OutIsQuiet

\* Declaring a function that was just made.
LEMMA MadeSound ==
  ASSUME NamesOfPrograms, Inv, Running, NEW n \in Here, NEW l, IsMade(l),
         DeclareIn(l.ga, sarena, l.fs, n, l.val, vids), outMark' = outMark
  PROVE  SoundNext
<1>1. n \in Names /\ n # This
  BY HereIsNames
<1>2. vids \in Nat /\ outMark = -1
  BY Quiet DEF Inv, Counted
<1>3. PICK ga, fs, val : ga = l.ga /\ fs = l.fs /\ val = l.val
  OBVIOUS
<1>4. Sound(garena', sarena', frames', gbinds')
  BY <1>1, <1>2, <1>3, DeclareIsSound DEF IsMade
<1>5. QED
  BY <1>2, <1>4 DEF SoundNext, OutIsQuiet

LEMMA AssignSound ==
  ASSUME NamesOfPrograms, PlainCalls, Inv, NEW n \in LexVisible, NEW val \in Values,
         Assign(n, val)
  PROVE  SoundNext
<1>1. val \in Vals /\ GoodVal(val, garena)
  BY ValuesAreGood DEF Inv
<1>2. outMark = -1 /\ outMark' = outMark /\ frames' = frames /\ gbinds' = gbinds
  BY Quiet DEF Assign, Inv
<1>3. Sound(garena', sarena', frames, gbinds)
  BY <1>1, StoreIsSound DEF Assign, Inv, SoundNow
<1>4. QED
  BY <1>2, <1>3 DEF SoundNext, OutIsQuiet

LEMMA StoreMadeSound ==
  ASSUME Inv, Running, NEW l, IsMade(l), NEW e, NEW val \in Vals, GoodVal(val, l.ga),
         Store(l.ga, sarena, e, val), frames' = l.fs, gbinds' = gbinds, outMark' = outMark
  PROVE  SoundNext
<1>1. outMark = -1
  BY Quiet DEF Inv
<1>2. PICK ga, fs : ga = l.ga /\ fs = l.fs
  OBVIOUS
<1>3. Sound(garena', sarena', fs, gbinds)
  BY <1>2, StoreIsSound DEF IsMade
<1>4. QED
  BY <1>1, <1>2, <1>3 DEF SoundNext, OutIsQuiet

LEMMA AssignLambdaSound ==
  ASSUME NamesOfPrograms, Inv, NEW n, NEW mentions \in SUBSET LexVisible,
         AssignLambda(n, mentions)
  PROVE  SoundNext
<1>1. PICK l : l = Lambda(mentions)
  OBVIOUS
<1>2. IsMade(l)
  BY <1>1, LambdaIsSound DEF Inv
<1>3. PICK e : Store(l.ga, sarena, e, l.val)
  BY <1>1 DEF AssignLambda
<1>4. Running /\ frames' = l.fs /\ gbinds' = gbinds /\ outMark' = outMark
  BY <1>1 DEF AssignLambda
<1>5. l.val \in Vals /\ GoodVal(l.val, l.ga)
  BY <1>2 DEF IsMade
<1>6. QED
  BY <1>2, <1>3, <1>4, <1>5, StoreMadeSound

LEMMA SetFieldSound ==
  ASSUME NamesOfPrograms, Inv, NEW n, NEW mentions \in SUBSET LexVisible,
         SetFieldLambda(n, mentions)
  PROVE  SoundNext
<1>1. PICK l : l = Lambda(mentions)
  OBVIOUS
<1>2. IsMade(l)
  BY <1>1, LambdaIsSound DEF Inv
<1>3. PICK e, val : Store(l.ga, sarena, e, val) /\ val = [l.val EXCEPT !.fn = FALSE]
  BY <1>1 DEF SetFieldLambda
<1>4. Running /\ frames' = l.fs /\ gbinds' = gbinds /\ outMark' = outMark
  BY <1>1 DEF SetFieldLambda
<1>5. PICK v : v = l.val
  OBVIOUS
<1>6. v \in Vals /\ GoodVal(v, l.ga)
  BY <1>2, <1>5 DEF IsMade
<1>7. val \in Vals /\ GoodVal(val, l.ga)
  BY <1>3, <1>5, <1>6 DEF Vals, GoodVal
<1>8. QED
  BY <1>2, <1>3, <1>4, <1>7, StoreMadeSound

LEMMA EnterBlockSound ==
  ASSUME NamesOfPrograms, Inv, EnterBlock
  PROVE  SoundNext
<1> DEFINE gs == [i \in DOMAIN frames |->
                    [frames[i] EXCEPT !.fresh = @ /\ frames[i].kind # "for"]]
           c == Frame("block", Len(sarena), NoBinds, {}, NoName)
<1>1. frames' = Append(gs, c) /\ garena' = garena /\ sarena' = sarena /\ gbinds' = gbinds
      /\ outMark' = outMark
  BY DEF EnterBlock, Push
<1>2. outMark = -1
  BY Quiet DEF EnterBlock, Inv
<1>3. /\ frames \in Seq(FrameSet) /\ Len(frames) \in Nat /\ DOMAIN frames = 1 .. Len(frames)
      /\ sarena \in Seq(Cells) /\ Len(sarena) \in Nat /\ GoodArena(sarena, garena)
      /\ Extends(sarena, sarena) /\ Sound(garena, sarena, frames, gbinds)
  BY LenProperties, Extended DEF Inv, SoundNow, Sound, GoodFrames, GoodArena
<1>4. ASSUME NEW i \in 1 .. Len(frames)
      PROVE  /\ gs[i] \in FrameSet /\ gs[i].kind = frames[i].kind /\ gs[i].mark = frames[i].mark
             /\ gs[i].binds = frames[i].binds /\ gs[i].lex = frames[i].lex
  <2>1. frames[i] \in FrameSet
    BY <1>3, ElementOfSeq
  <2>2. PICK b \in BOOLEAN : gs[i] = [frames[i] EXCEPT !.fresh = b]
    BY <1>3
  <2>3. QED
    BY <2>1, <2>2 DEF FrameSet
<1>5. gs \in [1 .. Len(frames) -> FrameSet]
  BY <1>3, <1>4
<1> HIDE DEF gs
<1>6. gs \in Seq(FrameSet) /\ Len(gs) = Len(frames)
  BY <1>3, <1>5, SeqDef, LenProperties
<1>7. Sound(garena, sarena, gs, gbinds)
  BY <1>3, <1>4, <1>6, SameFrames
<1>8. NoBinds \in BindingsOf(Entries) /\ DOMAIN NoBinds = {}
  <2>1. DOMAIN NoBinds = {} /\ NoBinds = [n \in DOMAIN NoBinds |-> NoBinds[n]]
    BY DEF NoBinds
  <2>2. QED
    BY <2>1, BindingIs
<1>9. c \in FrameSet /\ c.kind = "block" /\ c.mark = Len(sarena) /\ c.binds = NoBinds /\ c.lex = {}
  BY <1>3, <1>8 DEF FrameKinds, Frame, FrameSet
<1> HIDE DEF c
<1>10. GoodFrame(c, garena, sarena)
  BY <1>3, <1>8, <1>9 DEF GoodFrame
<1>11. Sound(garena, sarena, Append(gs, c), gbinds)
  BY <1>3, <1>7, <1>9, <1>10, PushIsSound
<1>12. QED
  BY <1>1, <1>2, <1>11 DEF SoundNext, OutIsQuiet

LEMMA ExitBlockSound ==
  ASSUME Inv, ExitBlock
  PROVE  SoundNext
<1>1. frames \in Seq(FrameSet) /\ frames # <<>> /\ Len(frames) \in Nat \ {0}
  BY EmptySeq, LenProperties DEF Inv, SoundNow, Sound, GoodFrames, ExitBlock
<1>2. PICK m : m = frames[Len(frames) - 1 + 1].mark
  OBVIOUS
<1>3. frames' = SubSeq(frames, 1, Len(frames) - 1) /\ sarena' = SubSeq(sarena, 1, m)
      /\ garena' = garena /\ gbinds' = gbinds /\ outMark' = outMark
  BY <1>2 DEF ExitBlock, Truncated, Front
<1>4. PICK d : d = Len(frames) - 1 /\ d \in 0 .. Len(frames) - 1
  BY <1>1
<1>5. Sound(garena, SubSeq(sarena, 1, m), SubSeq(frames, 1, d), gbinds)
  BY <1>2, <1>4, PopIsSound DEF Inv, SoundNow
<1>6. outMark = -1
  BY <1>1, Quiet DEF Inv
<1>7. QED
  BY <1>3, <1>4, <1>5, <1>6 DEF SoundNext, OutIsQuiet

LEMMA EnterForSound ==
  ASSUME NamesOfPrograms, Inv, NEW n, EnterFor(n)
  PROVE  SoundNext
<1> DEFINE e == Entry("scoped", Len(sarena) + 1, vids)
           c == Frame("for", Len(sarena), Bind(NoBinds, n, e), {n}, NoName)
           cell == Cell(vids, Data)
<1>1. /\ frames' = Append(frames, c) /\ sarena' = Append(sarena, cell) /\ garena' = garena
      /\ gbinds' = gbinds /\ outMark' = outMark
  BY DEF EnterFor, Push
<1>2. outMark = -1 /\ n \in Names /\ n # This /\ vids \in Nat
  BY Quiet DEF EnterFor, Inv, Counted, Names, NamesOfPrograms
<1>3. /\ sarena \in Seq(Cells) /\ Len(sarena) \in Nat /\ GoodArena(sarena, garena)
      /\ Sound(garena, sarena, frames, gbinds)
  BY LenProperties DEF Inv, SoundNow, Sound, GoodArena
<1>4. cell \in Cells /\ cell.vid = vids /\ GoodVal(cell.val, garena)
  BY <1>2, DataIsGood DEF Cell, Cells
<1> HIDE DEF cell
<1>5. e \in Entries /\ e.region = "scoped" /\ e.index = Len(sarena) + 1 /\ e.vid = vids
  BY <1>2, <1>3, EntryIs DEF Regions
<1> HIDE DEF e
<1>6. /\ Bind(NoBinds, n, e) \in BindingsOf(Entries) /\ DOMAIN Bind(NoBinds, n, e) = {n}
      /\ Bind(NoBinds, n, e)[n] = e
  BY <1>2, <1>5, OneBinding
<1>7. /\ c \in FrameSet /\ c.kind = "for" /\ c.mark = Len(sarena)
      /\ c.binds = Bind(NoBinds, n, e) /\ c.lex = {n}
  BY <1>2, <1>3, <1>6 DEF FrameKinds, Frame, FrameSet
<1> HIDE DEF c
<1>8. /\ GoodArena(Append(sarena, cell), garena) /\ Extends(sarena, Append(sarena, cell))
      /\ Len(Append(sarena, cell)) = Len(sarena) + 1
      /\ Append(sarena, cell)[Len(sarena) + 1] = cell
  BY <1>3, <1>4, GoodArenaAppend
<1>9. GoodEntry(e, garena, Append(sarena, cell))
  BY <1>3, <1>4, <1>5, <1>8 DEF GoodEntry, FoundIn
<1>10. GoodFrame(c, garena, Append(sarena, cell))
  BY <1>3, <1>6, <1>7, <1>8, <1>9 DEF GoodFrame
<1>11. Sound(garena, Append(sarena, cell), Append(frames, c), gbinds)
  BY <1>3, <1>7, <1>8, <1>10, PushIsSound
<1>12. QED
  BY <1>1, <1>2, <1>11 DEF SoundNext, OutIsQuiet


\* Bindings that only changed what `n` is bound to.
OnlyChanges(b, n, d) == \A m \in DOMAIN b : m # n => d[m] = b[m]

\* The loop frame with a fresh counter.
NextCounter(c, n, e) == [c EXCEPT !.fresh = TRUE, !.binds[n] = e]

LEMMA CounterFrame ==
  ASSUME NEW c \in FrameSet, NEW n \in DOMAIN c.binds, NEW e \in Entries,
         NEW d, d = NextCounter(c, n, e)
  PROVE  /\ d \in FrameSet /\ d.kind = c.kind /\ d.mark = c.mark /\ d.lex = c.lex
         /\ DOMAIN d.binds = DOMAIN c.binds /\ d.binds[n] = e
         /\ OnlyChanges(c.binds, n, d.binds)
<1>1. /\ d.kind = c.kind /\ d.mark = c.mark /\ d.lex = c.lex /\ d.self = c.self
      /\ d.fresh = TRUE /\ d.binds = [c.binds EXCEPT ![n] = e]
      /\ d = [kind |-> d.kind, mark |-> d.mark, binds |-> d.binds, lex |-> d.lex,
              self |-> d.self, fresh |-> d.fresh]
  BY DEF FrameSet, NextCounter
<1>2. PICK b \in BindingsOf(Entries) : b = c.binds
  BY DEF FrameSet
<1>3. [b EXCEPT ![n] = e] \in BindingsOf(Entries)
  BY <1>2 DEF BindingsOf
<1>4. DOMAIN d.binds = DOMAIN c.binds /\ d.binds[n] = e
      /\ OnlyChanges(c.binds, n, d.binds)
  BY <1>1, <1>2 DEF BindingsOf, OnlyChanges
<1>5. /\ c.kind \in FrameKinds /\ c.mark \in Nat /\ c.lex \in SUBSET Names
      /\ c.self \in Names \cup {NoName}
  BY DEF FrameSet
<1>6. d \in FrameSet
  BY <1>1, <1>2, <1>3, <1>5 DEF FrameSet
<1>7. QED
  BY <1>1, <1>4, <1>6

\* NextIteration's two ways.
NextFrames(e, k) ==
  [frames EXCEPT ![Len(frames)].fresh = TRUE, ![Len(frames)].binds[k] = e]
StillFrames == [frames EXCEPT ![Len(frames)].fresh = TRUE]

LEMMA NextFramesIs ==
  ASSUME frames \in Seq(FrameSet), frames # <<>>, NEW e, NEW n \in Top(frames).lex,
         Top(frames).lex \subseteq DOMAIN Top(frames).binds
  PROVE  NextFrames(e, n) = [frames EXCEPT ![Len(frames)] = NextCounter(frames[Len(frames)], n, e)]
<1>1. Len(frames) \in 1 .. Len(frames) /\ DOMAIN frames = 1 .. Len(frames)
  BY LastIsIn, LenProperties
<1>2. frames[Len(frames)] \in FrameSet
  BY <1>1, ElementOfSeq
<1>3. QED
  BY <1>1, <1>2 DEF NextFrames, NextCounter, FrameSet

LEMMA StillFramesIs ==
  ASSUME frames \in Seq(FrameSet), frames # <<>>
  PROVE  /\ StillFrames \in Seq(FrameSet) /\ Len(StillFrames) = Len(frames)
         /\ \A i \in 1 .. Len(frames) :
              /\ StillFrames[i].kind = frames[i].kind /\ StillFrames[i].mark = frames[i].mark
              /\ StillFrames[i].binds = frames[i].binds /\ StillFrames[i].lex = frames[i].lex
              /\ i # Len(frames) => StillFrames[i].fresh = frames[i].fresh
<1>1. Len(frames) \in Nat /\ DOMAIN frames = 1 .. Len(frames)
  BY LenProperties
<1>2. ASSUME NEW i \in 1 .. Len(frames)
      PROVE  /\ StillFrames[i] \in FrameSet
             /\ StillFrames[i].kind = frames[i].kind /\ StillFrames[i].mark = frames[i].mark
             /\ StillFrames[i].binds = frames[i].binds /\ StillFrames[i].lex = frames[i].lex
             /\ i # Len(frames) => StillFrames[i].fresh = frames[i].fresh
  <2>1. frames[i] \in FrameSet
    BY ElementOfSeq
  <2>2. StillFrames[i] = IF i = Len(frames) THEN [frames[i] EXCEPT !.fresh = TRUE] ELSE frames[i]
    BY <1>1 DEF StillFrames
  <2>3. QED
    BY <2>1, <2>2 DEF FrameSet
<1>3. StillFrames \in [1 .. Len(frames) -> FrameSet]
  BY <1>1, <1>2 DEF StillFrames
<1>4. StillFrames \in Seq(FrameSet) /\ Len(StillFrames) = Len(frames)
  BY <1>1, <1>3, SeqDef, LenProperties
<1>5. QED
  BY <1>2, <1>4

LEMMA NextIterationCases ==
  ASSUME NextIteration
  PROVE  /\ frames # <<>> /\ garena' = garena /\ gbinds' = gbinds /\ outMark' = outMark
         /\ Top(frames).kind = "for" /\ ~Top(frames).fresh
         /\ \E n \in Top(frames).lex :
              \/ /\ Top(frames).binds[n].region = "global"
                 /\ sarena' = Append(sarena, Cell(vids, Value(Top(frames).binds[n])))
                 /\ frames' = NextFrames(Entry("scoped", Len(sarena) + 1, vids), n)
                 /\ NewVid
              \/ /\ Top(frames).binds[n].region # "global"
                 /\ sarena' = sarena /\ frames' = StillFrames /\ vids' = vids
  BY DEF NextIteration, NextFrames, StillFrames

LEMMA NextIterationSound ==
  ASSUME NamesOfPrograms, Inv, NextIteration
  PROVE  SoundNext
<1>1. /\ frames # <<>> /\ garena' = garena /\ gbinds' = gbinds /\ outMark' = outMark
      /\ Top(frames).kind = "for"
  BY NextIterationCases
<1>2. outMark = -1 /\ vids \in Nat
  BY <1>1, Quiet DEF Inv, Counted
<1>3. /\ Sound(garena, sarena, frames, gbinds) /\ frames \in Seq(FrameSet)
      /\ Len(frames) \in 1 .. Len(frames)
      /\ sarena \in Seq(Cells) /\ Len(sarena) \in Nat /\ GoodArena(sarena, garena)
  BY <1>1, LastIsIn, LenProperties DEF Inv, SoundNow, Sound, GoodFrames, GoodArena
<1>4. PICK c : c = frames[Len(frames)]
  OBVIOUS
<1>5. c \in FrameSet /\ GoodFrame(c, garena, sarena) /\ Top(frames) = c
  BY <1>3, <1>4, ElementOfSeq DEF Sound, GoodFrames, Top
<1>6. PICK n \in c.lex :
        \/ /\ c.binds[n].region = "global"
           /\ sarena' = Append(sarena, Cell(vids, Value(c.binds[n])))
           /\ frames' = NextFrames(Entry("scoped", Len(sarena) + 1, vids), n)
        \/ sarena' = sarena /\ frames' = StillFrames
  BY <1>5, NextIterationCases
<1>7. n \in DOMAIN c.binds /\ c.binds[n] \in Entries
  BY <1>5, <1>6, BindingTypes DEF GoodFrame, FrameSet
<1>8. CASE /\ sarena' = Append(sarena, Cell(vids, Value(c.binds[n])))
           /\ frames' = NextFrames(Entry("scoped", Len(sarena) + 1, vids), n)
  <2> DEFINE e == Entry("scoped", Len(sarena) + 1, vids)
             cell == Cell(vids, Value(c.binds[n]))
  <2>1. e \in Entries /\ e.region = "scoped" /\ e.index = Len(sarena) + 1 /\ e.vid = vids
    <3>1. "scoped" \in Regions /\ Len(sarena) + 1 \in Nat \ {0} /\ vids \in Nat
      BY <1>2, <1>3 DEF Regions
    <3>2. QED
      BY <3>1, EntryIs
  <2>2. cell \in Cells /\ cell.vid = vids /\ GoodVal(cell.val, garena)
    BY <1>2, <1>7, ValueIsGood DEF Cell, Cells, Inv
  <2>3. sarena' = Append(sarena, cell) /\ frames' = NextFrames(e, n)
    BY <1>8
  <2> HIDE DEF e, cell
  <2>4. frames' = [frames EXCEPT ![Len(frames)] = NextCounter(c, n, e)]
    BY <1>1, <1>3, <1>4, <1>5, <1>6, <2>3, NextFramesIs DEF GoodFrame
  <2>5. PICK d : d = NextCounter(c, n, e)
    OBVIOUS
  <2>6. /\ d \in FrameSet /\ d.kind = c.kind /\ d.mark = c.mark /\ d.lex = c.lex
        /\ DOMAIN d.binds = DOMAIN c.binds /\ d.binds[n] = e
        /\ OnlyChanges(c.binds, n, d.binds)
    <3>1. c \in FrameSet /\ n \in DOMAIN c.binds /\ e \in Entries /\ d = NextCounter(c, n, e)
      BY <1>5, <1>7, <2>1, <2>5
    <3>2. QED
      BY <3>1, CounterFrame
  <2>7. /\ Sound(garena, Append(sarena, cell), frames, gbinds)
        /\ Len(Append(sarena, cell)) = Len(sarena) + 1
        /\ Append(sarena, cell)[Len(sarena) + 1] = cell
    BY <1>1, <1>3, <2>2, AllocScoped, GoodArenaAppend
  <2>8. GoodFrame(c, garena, Append(sarena, cell))
    BY <1>3, <1>4, <2>7 DEF Sound, GoodFrames
  <2>9. GoodEntry(e, garena, Append(sarena, cell))
    BY <1>3, <2>1, <2>2, <2>7 DEF GoodEntry, FoundIn
  <2>10. d.kind # "new"
    BY <1>1, <1>5, <2>6
  <2>11. GoodFrame(d, garena, Append(sarena, cell))
    BY <2>6, <2>8, <2>9, <2>10 DEF GoodFrame, OnlyChanges
  <2>12. Sound(garena, Append(sarena, cell), frames', gbinds)
    BY <1>1, <1>4, <2>4, <2>5, <2>6, <2>7, <2>11, TopReplaced
  <2>13. QED
    BY <1>1, <1>2, <2>3, <2>12 DEF SoundNext, OutIsQuiet
<1>9. CASE sarena' = sarena /\ frames' = StillFrames
  <2>1. Sound(garena, sarena, StillFrames, gbinds)
    BY <1>1, <1>3, StillFramesIs, SameFrames
  <2>2. QED
    BY <1>1, <1>2, <1>9, <2>1 DEF SoundNext, OutIsQuiet
<1>10. QED
  BY <1>6, <1>8, <1>9

LEMMA CallSound ==
  ASSUME NamesOfPrograms, PlainCalls, Inv, NEW f \in LexVisible, Call(f)
  PROVE  SoundNext
<1>1. PICK val : val = Value(Lookup(f))
  OBVIOUS
<1>2. val \in Vals /\ GoodVal(val, garena)
  <2>1. Lookup(f) \in Entries
    BY VisibleIsBound, LookupIsGood DEF Inv
  <2>2. QED
    BY <1>1, <2>1, ValueIsGood DEF Inv
<1>3. PICK c : c = Frame("call", Len(sarena), val.caps, val.lex, val.self)
  OBVIOUS
<1>4. /\ frames' = Append(frames, c) /\ sarena' = sarena /\ garena' = garena
      /\ gbinds' = gbinds /\ outMark' = outMark /\ Running
  BY <1>1, <1>3 DEF Call, Push, PlainCalls
<1>5. outMark = -1
  BY <1>4, Quiet DEF Inv
<1>6. /\ sarena \in Seq(Cells) /\ Len(sarena) \in Nat /\ GoodArena(sarena, garena)
      /\ Sound(garena, sarena, frames, gbinds) /\ Extends(sarena, sarena)
  BY LenProperties, Extended DEF Inv, SoundNow, Sound, GoodArena
<1>7. /\ val.caps \in BindingsOf(GlobalEntries) /\ val.lex \in SUBSET Names
      /\ val.self \in Names \cup {NoName} /\ val.lex \subseteq DOMAIN val.caps
      /\ \A n \in DOMAIN val.caps : FoundIn(val.caps[n], garena) /\ val.caps[n] \in GlobalEntries
  BY <1>2, BindingTypes DEF Vals, GoodVal
<1>8. val.caps \in BindingsOf(Entries)
  BY <1>7, GlobalBindings
<1>9. /\ c \in FrameSet /\ c.kind = "call" /\ c.mark = Len(sarena)
      /\ c.binds = val.caps /\ c.lex = val.lex
  BY <1>3, <1>6, <1>7, <1>8 DEF FrameKinds, Frame, FrameSet
<1>10. \A n \in DOMAIN c.binds : GoodEntry(c.binds[n], garena, sarena)
  BY <1>7, <1>9 DEF GoodEntry, GlobalEntries
<1>11. GoodFrame(c, garena, sarena)
  BY <1>6, <1>7, <1>9, <1>10 DEF GoodFrame
<1>12. Sound(garena, sarena, Append(frames, c), gbinds)
  BY <1>6, <1>9, <1>11, PushIsSound
<1>13. QED
  BY <1>4, <1>5, <1>12 DEF SoundNext, OutIsQuiet

\* The receiver may be promoted by a lambda among the arguments: the cell its
\* reference was to is still there.
LEMMA CallMethodSound ==
  ASSUME NamesOfPrograms, Inv, NEW o \in LexVisible, NEW mentions \in SUBSET LexVisible,
         CallMethod(o, mentions)
  PROVE  SoundNext
<1>1. PICK ga, fs : /\ ga = IF mentions = {} THEN garena ELSE Lambda(mentions).ga
                    /\ fs = IF mentions = {} THEN frames ELSE Lambda(mentions).fs
  OBVIOUS
<1>2. PICK e : e = Lookup(o)
  OBVIOUS
<1>3. PICK c : c = Frame("call", Len(sarena), Bind(NoBinds, This, e), {This}, NoName)
  OBVIOUS
<1>4. /\ frames' = Append(fs, c) /\ sarena' = sarena /\ garena' = ga
      /\ gbinds' = gbinds /\ outMark' = outMark /\ Running
  BY <1>1, <1>2, <1>3 DEF CallMethod, Push
<1>5. outMark = -1
  BY <1>4, Quiet DEF Inv
<1>6. /\ garena \in Seq(Cells) /\ Extends(garena, garena)
      /\ Sound(garena, sarena, frames, gbinds)
  BY Extended DEF Inv, SoundNow, Sound, GoodArena
<1>7. Sound(ga, sarena, fs, gbinds) /\ Extends(garena, ga)
  BY <1>1, <1>6, LambdaIsSound DEF IsMade, Inv
<1>8. /\ sarena \in Seq(Cells) /\ Len(sarena) \in Nat /\ GoodArena(sarena, ga)
      /\ Extends(sarena, sarena) /\ ga \in Seq(Cells)
  BY <1>7, LenProperties, Extended DEF Sound, GoodArena
<1>9. e \in Entries /\ GoodEntry(e, garena, sarena)
  BY <1>2, VisibleIsBound, LookupIsGood DEF Inv
<1>10. GoodEntry(e, ga, sarena)
  BY <1>6, <1>7, <1>8, <1>9, GoodEntryAfter
<1>11. This \in Names
  BY DEF Names
<1>12. PICK b : b = Bind(NoBinds, This, e)
  OBVIOUS
<1>13. b \in BindingsOf(Entries) /\ DOMAIN b = {This} /\ b[This] = e
  BY <1>9, <1>11, <1>12, OneBinding
<1>14. c \in FrameSet /\ c.kind = "call" /\ c.mark = Len(sarena) /\ c.binds = b /\ c.lex = {This}
  BY <1>3, <1>8, <1>11, <1>12, <1>13 DEF FrameKinds, Frame, FrameSet
<1>15. GoodFrame(c, ga, sarena)
  BY <1>8, <1>10, <1>13, <1>14 DEF GoodFrame
<1>16. Sound(ga, sarena, Append(fs, c), gbinds)
  BY <1>7, <1>8, <1>14, <1>15, PushIsSound
<1>17. QED
  BY <1>4, <1>5, <1>16 DEF SoundNext, OutIsQuiet


LEMMA ReturnSound ==
  ASSUME NamesOfPrograms, PlainCalls, Inv, NEW n, NEW val \in Values, Return(n, val)
  PROVE  SoundNext
<1> DEFINE calls == {i \in DOMAIN frames : frames[i].kind \in {"call", "new"}}
<1>1. /\ Sound(garena, sarena, frames, gbinds) /\ frames \in Seq(FrameSet)
      /\ Len(frames) \in Nat /\ DOMAIN frames = 1 .. Len(frames)
  BY LenProperties DEF Inv, SoundNow, Sound, GoodFrames
<1>2. CallIndex \in 1 .. Len(frames)
  <2>1. calls # {} /\ CallIndex = Innermost(calls)
    BY DEF Return, InCall, CallIndex
  <2>2. Innermost(calls) \in calls
    BY <1>1, <2>1, InnermostIsIn
  <2>3. QED
    BY <1>1, <2>1, <2>2
<1>3. PICK depth : depth = CallIndex - 1
  OBVIOUS
<1>4. depth \in 0 .. Len(frames) - 1
  BY <1>1, <1>2, <1>3
<1>5. PICK below, m, sa : /\ below = SubSeq(frames, 1, depth) /\ m = frames[depth + 1].mark
                          /\ sa = SubSeq(sarena, 1, m)
  OBVIOUS
<1>6. Sound(garena, sa, below, gbinds)
  BY <1>1, <1>4, <1>5, PopIsSound
<1>7. /\ outMark' = outMark
      /\ \/ frames' = below /\ sarena' = sa /\ garena' = garena /\ gbinds' = gbinds
         \/ /\ n \in (IF below = <<>> THEN Globals ELSE Locals) /\ NewVid
            /\ DeclareIn(garena, sa, below, n, val, vids)
  BY <1>3, <1>5 DEF Return, Truncated
<1>8. outMark = -1
  BY Quiet DEF Return, Inv
<1>9. CASE frames' = below /\ sarena' = sa /\ garena' = garena /\ gbinds' = gbinds
  BY <1>6, <1>7, <1>8, <1>9 DEF SoundNext, OutIsQuiet
<1>10. CASE /\ n \in (IF below = <<>> THEN Globals ELSE Locals)
            /\ DeclareIn(garena, sa, below, n, val, vids)
  <2>1. n \in Names /\ n # This /\ vids \in Nat
    BY <1>10 DEF Names, NamesOfPrograms, Inv, Counted
  <2>2. val \in Vals /\ GoodVal(val, garena)
    BY ValuesAreGood DEF Inv
  <2>3. Sound(garena', sarena', frames', gbinds')
    BY <1>6, <1>10, <2>1, <2>2, DeclareIsSound
  <2>4. QED
    BY <1>7, <1>8, <2>3 DEF SoundNext, OutIsQuiet
<1>11. QED
  BY <1>7, <1>9, <1>10

LEMMA StartNewSound ==
  ASSUME NamesOfPrograms, Inv, StartNew
  PROVE  SoundNext
<1> DEFINE cell == Cell(vids, Data)
<1>1. PICK e : e = IF frames = <<>> THEN Entry("global", Len(garena) + 1, vids)
                   ELSE Entry("scoped", Len(sarena) + 1, vids)
  OBVIOUS
<1>2. PICK c : c = Frame("new", Len(sarena'), Bind(NoBinds, This, e), {This}, NoName)
  OBVIOUS
<1>3. /\ garena' = IF frames = <<>> THEN Append(garena, cell) ELSE garena
      /\ sarena' = IF frames = <<>> THEN sarena ELSE Append(sarena, cell)
      /\ frames' = Append(frames, c) /\ gbinds' = gbinds /\ outMark' = outMark
  BY <1>1, <1>2 DEF StartNew
<1>4. outMark = -1 /\ vids \in Nat
  BY Quiet DEF StartNew, Inv, Counted
<1>5. cell \in Cells /\ cell.vid = vids /\ GoodVal(cell.val, garena)
  BY <1>4, DataIsGood DEF Cell, Cells
<1> HIDE DEF cell
<1>6. /\ garena \in Seq(Cells) /\ sarena \in Seq(Cells) /\ Len(garena) \in Nat
      /\ Len(sarena) \in Nat /\ GoodArena(garena, garena) /\ GoodArena(sarena, garena)
      /\ Sound(garena, sarena, frames, gbinds)
  BY LenProperties DEF Inv, SoundNow, Sound, GoodArena
<1>7. Sound(garena', sarena', frames, gbinds)
  BY <1>3, <1>5, <1>6, AllocScoped, AllocGlobal
<1>8. e \in Entries /\ GoodEntry(e, garena', sarena')
      /\ (e.region = "scoped" => e.index <= Len(sarena'))
  <2>1. CASE frames = <<>>
    <3>1. e \in Entries /\ e.region = "global" /\ e.index = Len(garena) + 1 /\ e.vid = vids
      BY <1>1, <1>4, <1>6, <2>1, EntryIs DEF Regions
    <3>2. Len(Append(garena, cell)) = Len(garena) + 1 /\ Append(garena, cell)[Len(garena) + 1] = cell
      BY <1>5, <1>6, AppendProperties
    <3>3. QED
      BY <1>3, <1>5, <1>6, <2>1, <3>1, <3>2 DEF GoodEntry, FoundIn
  <2>2. CASE frames # <<>>
    <3>1. e \in Entries /\ e.region = "scoped" /\ e.index = Len(sarena) + 1 /\ e.vid = vids
      BY <1>1, <1>4, <1>6, <2>2, EntryIs DEF Regions
    <3>2. Len(Append(sarena, cell)) = Len(sarena) + 1 /\ Append(sarena, cell)[Len(sarena) + 1] = cell
      BY <1>5, <1>6, AppendProperties
    <3>3. QED
      BY <1>3, <1>5, <1>6, <2>2, <3>1, <3>2 DEF GoodEntry, FoundIn
  <2>3. QED
    BY <2>1, <2>2
<1>9. sarena' \in Seq(Cells) /\ Len(sarena') \in Nat /\ GoodArena(sarena', garena')
      /\ Extends(sarena', sarena')
  BY <1>7, LenProperties, Extended DEF Sound, GoodArena
<1>10. This \in Names
  BY DEF Names
<1>11. PICK b : b = Bind(NoBinds, This, e)
  OBVIOUS
<1>12. b \in BindingsOf(Entries) /\ DOMAIN b = {This} /\ b[This] = e
  BY <1>8, <1>10, <1>11, OneBinding
<1>13. c \in FrameSet /\ c.kind = "new" /\ c.mark = Len(sarena') /\ c.binds = b /\ c.lex = {This}
  BY <1>2, <1>9, <1>10, <1>11, <1>12 DEF FrameKinds, Frame, FrameSet
<1>14. GoodFrame(c, garena', sarena')
  BY <1>8, <1>9, <1>12, <1>13 DEF GoodFrame
<1>15. Sound(garena', sarena', Append(frames, c), gbinds)
  BY <1>7, <1>9, <1>13, <1>14, PushIsSound
<1>16. QED
  BY <1>3, <1>4, <1>15 DEF SoundNext, OutIsQuiet

\* The receiver of the innermost constructor.
LEMMA InstanceIs ==
  ASSUME SoundNow, frames # <<>>, Top(frames).kind = "new"
  PROVE  /\ Len(frames) \in 1 .. Len(frames) /\ This \in DOMAIN frames[Len(frames)].binds
         /\ LiveInstance = frames[Len(frames)].binds[This]
         /\ LiveInstance \in Entries /\ GoodEntry(LiveInstance, garena, sarena)
         /\ LiveInstance.region = "scoped" => LiveInstance.index <= frames[Len(frames)].mark
<1>1. frames \in Seq(FrameSet) /\ Len(frames) \in 1 .. Len(frames) /\ GoodFrames(frames, garena, sarena)
  BY LastIsIn DEF SoundNow, Sound, GoodFrames
<1>2. GoodFrame(frames[Len(frames)], garena, sarena) /\ frames[Len(frames)].kind = "new"
  BY <1>1 DEF GoodFrames, Top
<1>3. /\ This \in DOMAIN frames[Len(frames)].binds
      /\ frames[Len(frames)].binds[This].region = "scoped"
           => frames[Len(frames)].binds[This].index <= frames[Len(frames)].mark
  BY <1>2 DEF GoodFrame
<1>4. FramesWith(This) # {}
  <2>1. Len(frames) \in DOMAIN frames
    BY <1>1, LenProperties
  <2>2. QED
    BY <1>3, <2>1 DEF FramesWith
<1>5. Inner(This) = Len(frames) /\ Lookup(This) = frames[Inner(This)].binds[This]
  <2>1. Len(frames) \in Nat
    BY <1>1, LenProperties
  <2>2. Inner(This) \in 1 .. Len(frames) /\ Len(frames) <= Inner(This)
        /\ Lookup(This) = frames[Inner(This)].binds[This]
    BY <1>1, <1>3, <1>4, InnerFrame
  <2>3. QED
    BY <2>1, <2>2
<1>6. QED
  BY <1>1, <1>3, <1>4, <1>5, LookupIsGood DEF LiveInstance

LEMMA EndNewSound ==
  ASSUME NamesOfPrograms, Inv, NEW n, EndNew(n)
  PROVE  SoundNext
<1>1. frames # <<>> /\ Top(frames).kind = "new"
  BY DEF EndNew
<1>2. PICK e : e = LiveInstance
  OBVIOUS
<1>3. /\ Len(frames) \in 1 .. Len(frames) /\ e \in Entries /\ GoodEntry(e, garena, sarena)
      /\ e.region = "scoped" => e.index <= frames[Len(frames)].mark
  BY <1>1, <1>2, InstanceIs DEF Inv
<1>4. /\ Sound(garena, sarena, frames, gbinds) /\ frames \in Seq(FrameSet)
      /\ Len(frames) \in Nat /\ GoodFrames(frames, garena, sarena)
      /\ sarena \in Seq(Cells) /\ Len(sarena) \in Nat
  BY LenProperties DEF Inv, SoundNow, Sound, GoodFrames, GoodArena
<1>5. PICK depth : depth = Len(frames) - 1 /\ depth \in 0 .. Len(frames) - 1
                   /\ depth + 1 = Len(frames)
  BY <1>3, <1>4
<1>6. PICK below, m, sa : /\ below = SubSeq(frames, 1, depth) /\ m = frames[depth + 1].mark
                          /\ sa = SubSeq(sarena, 1, m)
  OBVIOUS
<1>7. /\ Sound(garena, sa, below, gbinds) /\ m \in Nat /\ Len(sa) = m
      /\ \A i \in 1 .. m : sa[i] = sarena[i]
  BY <1>4, <1>5, <1>6, PopIsSound
<1>8. /\ sarena' = sa /\ garena' = garena /\ outMark' = outMark
      /\ \/ below = <<>> /\ n \in Globals /\ gbinds' = Bind(gbinds, n, e) /\ frames' = below
         \/ /\ below # <<>> /\ n \in Locals /\ gbinds' = gbinds
            /\ frames' = [below EXCEPT ![Len(below)].binds = Bind(@, n, e),
                                       ![Len(below)].lex = @ \cup {n}]
  BY <1>2, <1>5, <1>6 DEF EndNew, Truncated, Front
<1>9. outMark = -1 /\ n \in Names /\ n # This
  BY <1>1, <1>8, Quiet DEF Inv, Names, NamesOfPrograms
<1>10. GoodEntry(e, garena, sa)
  <2>1. CASE e.region = "scoped"
    <3>1. e.index \in 1 .. Len(sarena) /\ sarena[e.index].vid = e.vid /\ e.index <= m
      BY <1>3, <1>5, <1>6, <2>1 DEF GoodEntry, FoundIn
    <3>2. e.index \in 1 .. m
      BY <1>4, <1>7, <3>1
    <3>3. FoundIn(e, sa)
      BY <1>7, <3>1, <3>2 DEF FoundIn
    <3>4. QED
      BY <2>1, <3>3 DEF GoodEntry
  <2>2. CASE e.region # "scoped"
    BY <1>3, <2>2 DEF GoodEntry
  <2>3. QED
    BY <2>1, <2>2
<1>11. CASE /\ below = <<>> /\ gbinds' = Bind(gbinds, n, e) /\ frames' = below
  <2>1. sa = <<>>
    BY <1>7, <1>11 DEF Sound, GoodFrames
  <2>2. Len(sa) = 0
    BY <2>1, EmptySeq
  <2>3. e.region # "scoped"
    BY <1>10, <2>2 DEF GoodEntry, FoundIn
  <2>4. e \in GlobalEntries /\ FoundIn(e, garena)
    BY <1>3, <1>10, <2>3 DEF GlobalEntries, Entries, Regions, GoodEntry
  <2>5. Sound(garena, sa, below, Bind(gbinds, n, e))
    BY <1>7, <1>9, <2>4, BindGlobal
  <2>6. QED
    BY <1>8, <1>9, <1>11, <2>5 DEF SoundNext, OutIsQuiet
<1>12. CASE /\ below # <<>> /\ gbinds' = gbinds
            /\ frames' = [below EXCEPT ![Len(below)].binds = Bind(@, n, e),
                                       ![Len(below)].lex = @ \cup {n}]
  <2>1. below \in Seq(FrameSet)
    BY <1>7 DEF Sound, GoodFrames
  <2>2. frames' = [below EXCEPT ![Len(below)] = WithName(below[Len(below)], n, e)]
    BY <1>12, <2>1, NamedTop
  <2>3. Sound(garena, sa, frames', gbinds)
    BY <1>3, <1>7, <1>9, <1>10, <1>12, <2>2, BindTop
  <2>4. QED
    BY <1>8, <1>9, <1>12, <2>3 DEF SoundNext, OutIsQuiet
<1>13. QED
  BY <1>8, <1>11, <1>12

LEMMA OutSound ==
  ASSUME Inv, StartOut \/ EndOut
  PROVE  SoundNext
<1>1. garena \in Seq(Cells) /\ Len(garena) \in Nat
  BY LenProperties DEF Inv, SoundNow, Sound, GoodArena
<1>2. CASE StartOut
  BY <1>1, <1>2 DEF StartOut, SoundNext, OutIsQuiet, Inv, SoundNow
<1>3. CASE EndOut
  <2>1. outMark = Len(garena) /\ frames = <<>>
    BY <1>3 DEF EndOut, Inv, OutIsQuiet
  <2>2. garena' = garena
    BY <1>1, <1>3, <2>1, SubSeqFull DEF EndOut
  <2>3. QED
    BY <1>3, <2>2 DEF EndOut, SoundNext, OutIsQuiet, Inv, SoundNow
<1>4. QED
  BY <1>2, <1>3

LEMMA VidsStep ==
  ASSUME MaxVids \in Nat, Counted, Next
  PROVE  Counted' /\ (vids' = vids \/ vids' = vids + 1)
<1>1. vids' = vids \/ NewVid
  BY DEF Next, Statement, Calling, Let, LetLambda, DeclareFn, Assign, AssignLambda,
         SetFieldLambda, EnterFor, Call, CallMethod, Return, StartNew, EndNew, EnterBlock,
         ExitBlock, NextIteration, StartOut, EndOut
<1>2. QED
  BY <1>1 DEF Counted, NewVid

LEMMA SoundStep ==
  ASSUME NamesOfPrograms, PlainCalls, Inv, Next
  PROVE  Inv'
<1>1. SoundNext
  <2>1. CASE Statement
    <3>1. PICK n \in Names :
            \/ \E val \in Values : Let(n, val)
            \/ \E mentions \in Bodies : LetLambda(n, mentions)
            \/ DeclareFn(n)
            \/ n \in LexVisible /\ \E val \in Values : Assign(n, val)
            \/ \E mentions \in Bodies : AssignLambda(n, mentions)
            \/ \E mentions \in Bodies : SetFieldLambda(n, mentions)
            \/ EnterFor(n)
      BY <2>1 DEF Statement
    <3>2. ASSUME NEW mentions \in Bodies, LetLambda(n, mentions) PROVE SoundNext
      <4>1. PICK l : l = Lambda(mentions)
        OBVIOUS
      <4>2. IsMade(l)
        BY <4>1, LambdaIsSound DEF Inv, Bodies
      <4>3. /\ Running /\ n \in Here /\ outMark' = outMark
            /\ DeclareIn(l.ga, sarena, l.fs, n, l.val, vids)
        BY <3>2, <4>1 DEF LetLambda
      <4>4. QED
        BY <4>2, <4>3, MadeSound
    <3>3. CASE DeclareFn(n)
      <4>1. PICK l : l = NamedFunction(n)
        OBVIOUS
      <4>2. IsMade(l)
        BY <4>1, FunctionIsSound DEF Inv
      <4>3. /\ Running /\ n \in Here /\ outMark' = outMark
            /\ DeclareIn(l.ga, sarena, l.fs, n, l.val, vids)
        BY <3>3, <4>1 DEF DeclareFn
      <4>4. QED
        BY <4>2, <4>3, MadeSound
    <3>4. \A mentions \in Bodies : mentions \in SUBSET LexVisible
      BY DEF Bodies
    <3>5. QED
      BY <3>1, <3>2, <3>3, <3>4, LetSound, AssignSound, AssignLambdaSound, SetFieldSound,
         EnterForSound
  <2>2. CASE Calling
    <3>1. \A mentions \in Bodies : mentions \in SUBSET LexVisible
      BY DEF Bodies
    <3>2. QED
      BY <2>2, <3>1, CallSound, CallMethodSound, ReturnSound, StartNewSound, EndNewSound
         DEF Calling
  <2>3. CASE EnterBlock \/ ExitBlock \/ NextIteration
    BY <2>3, EnterBlockSound, ExitBlockSound, NextIterationSound
  <2>4. CASE StartOut \/ EndOut
    BY <2>4, OutSound
  <2>5. QED
    BY <2>1, <2>2, <2>3, <2>4 DEF Next
<1>2. Counted'
  BY VidsStep DEF Inv, NamesOfPrograms
<1>3. QED
  BY <1>1, <1>2 DEF Inv, SoundNext, SoundNow


LEMMA InvAlways == ASSUME NamesOfPrograms, PlainCalls PROVE Spec => []Inv
<1>1. Init => Inv
  <2> SUFFICES ASSUME Init PROVE Inv
    OBVIOUS
  <2>1. garena = <<>> /\ sarena = <<>> /\ frames = <<>> /\ gbinds = NoBinds /\ outMark = -1
        /\ vids = 0
    BY DEF Init
  <2>2. DOMAIN NoBinds = {} /\ NoBinds = [n \in DOMAIN NoBinds |-> NoBinds[n]]
    BY DEF NoBinds
  <2>3. NoBinds \in BindingsOf(GlobalEntries)
    BY <2>2, BindingIs
  <2>4. <<>> \in Seq(Cells) /\ <<>> \in Seq(FrameSet)
    BY EmptySeq
  <2>5. Len(garena) = 0 /\ Len(sarena) = 0 /\ Len(frames) = 0
    BY <2>1, <2>4, EmptySeq
  <2>6. Sound(garena, sarena, frames, gbinds)
    BY <2>1, <2>2, <2>3, <2>4, <2>5 DEF Sound, GoodArena, GoodFrames, GoodBinds
  <2>7. OutIsQuiet /\ Counted
    BY <2>1 DEF OutIsQuiet, Counted, NamesOfPrograms
  <2>8. QED
    BY <2>6, <2>7 DEF Inv, SoundNow
<1>2. Inv /\ [Next]_vars => Inv'
  <2>1. Inv /\ Next => Inv'
    BY SoundStep
  <2>2. Inv /\ UNCHANGED vars => Inv'
    BY DEF vars, Inv, SoundNow, OutIsQuiet, Counted
  <2>3. QED
    BY <2>1, <2>2
<1>3. QED
  BY <1>1, <1>2, PTL DEF Spec

-----------------------------------------------------------------------------
(* The properties of FlashScopes. *)

LEMMA GoodBindings ==
  ASSUME NEW b \in BindingsOf(Entries)
  PROVE  IsBinds(b)
  BY BindingTypes DEF IsBinds

\* Cells, frames and bindings of every program are of the right type.
THEOREM TypeCorrect == ASSUME NamesOfPrograms, PlainCalls PROVE Spec => []TypeOK
<1>1. Inv => TypeOK
  <2> SUFFICES ASSUME Inv PROVE TypeOK
    OBVIOUS
  <2>1. GoodArena(garena, garena) /\ GoodArena(sarena, garena)
        /\ GoodFrames(frames, garena, sarena) /\ gbinds \in BindingsOf(GlobalEntries)
    BY DEF Inv, SoundNow, Sound, GoodBinds
  <2>2. ASSUME NEW a \in {garena, sarena}, NEW i \in DOMAIN a
        PROVE  a[i].vid \in Nat /\ IsValue(a[i].val)
    <3>1. a \in Seq(Cells) /\ GoodArena(a, garena) /\ i \in 1 .. Len(a)
      BY <2>1, <2>2, LenProperties DEF GoodArena
    <3>2. a[i] \in Cells /\ GoodVal(a[i].val, garena)
      BY <3>1, ElementOfSeq DEF GoodArena
    <3>3. PICK v : v = a[i].val
      OBVIOUS
    <3>4. v \in Vals /\ GoodVal(v, garena) /\ a[i].vid \in Nat
      BY <3>2, <3>3 DEF Cells
    <3>5. v.caps \in BindingsOf(Entries) /\ v.fn \in BOOLEAN /\ v.self \in Names \cup {NoName}
      BY <3>4, GlobalBindings DEF Vals
    <3>6. QED
      BY <3>3, <3>4, <3>5, GoodBindings DEF IsValue, GoodVal
  <2>3. ASSUME NEW i \in DOMAIN frames
        PROVE  /\ frames[i].kind \in {"block", "call", "new", "for"}
               /\ frames[i].mark \in 0 .. Len(sarena)
               /\ IsBinds(frames[i].binds) /\ frames[i].lex \subseteq DOMAIN frames[i].binds
    <3>1. i \in 1 .. Len(frames) /\ Len(sarena) \in Nat
      BY <2>1, LenProperties DEF GoodFrames, GoodArena
    <3>2. /\ frames[i] \in FrameSet /\ frames[i].binds \in BindingsOf(Entries)
          /\ frames[i].lex \subseteq DOMAIN frames[i].binds
      BY <2>1, <3>1, FrameTypes
    <3>3. frames[i].mark <= Len(sarena)
      BY <2>1, <3>1 DEF GoodFrames, GoodFrame
    <3>4. QED
      BY <3>1, <3>2, <3>3, GoodBindings DEF FrameSet, FrameKinds
  <2>4. IsBinds(gbinds)
    BY <2>1, GlobalBindings, GoodBindings
  <2>5. QED
    BY <2>2, <2>3, <2>4 DEF TypeOK, Inv, OutIsQuiet, Counted
<1>2. QED
  BY <1>1, InvAlways, PTL

LEMMA GoodResolves ==
  ASSUME garena \in Seq(Cells), sarena \in Seq(Cells), NEW e \in Entries,
         GoodEntry(e, garena, sarena)
  PROVE  Resolves(e)
<1>1. CASE e.region = "global"
  BY <1>1, LenProperties DEF GoodEntry, FoundIn, Resolves, Arena
<1>2. CASE e.region # "global"
  <2>1. e.region = "scoped"
    BY <1>2 DEF Entries, Regions
  <2>2. QED
    BY <2>1, LenProperties DEF GoodEntry, FoundIn, Resolves, Arena
<1>3. QED
  BY <1>1, <1>2

LEMMA BoundAreGood ==
  ASSUME SoundNow, NEW e \in BoundEntries
  PROVE  e \in Entries /\ GoodEntry(e, garena, sarena)
<1>1. GoodFrames(frames, garena, sarena) /\ GoodBinds(gbinds, garena) /\ frames \in Seq(FrameSet)
  BY DEF SoundNow, Sound, GoodFrames
<1>2. ASSUME NEW n \in DOMAIN gbinds, e = gbinds[n]
      PROVE  e \in Entries /\ GoodEntry(e, garena, sarena)
  <2>1. e \in GlobalEntries /\ FoundIn(e, garena)
    BY <1>1, <1>2, BindingTypes DEF GoodBinds
  <2>2. QED
    BY <2>1 DEF GlobalEntries, GoodEntry
<1>3. ASSUME NEW i \in DOMAIN frames, NEW n \in DOMAIN frames[i].binds, e = frames[i].binds[n]
      PROVE  e \in Entries /\ GoodEntry(e, garena, sarena)
  <2>1. i \in 1 .. Len(frames)
    BY <1>1, LenProperties
  <2>2. QED
    BY <1>1, <1>3, <2>1, FrameTypes
<1>4. QED
  BY <1>2, <1>3 DEF BoundEntries

\* However frames are popped, closures capture and instances are built: a
\* name, and a name some function in reach captured, finds its own cell.  Frames
\* use no cell above the watermark of the one above them, and captures are in
\* the arena no frame truncates (ScopeStack::pop, capture_env).
THEOREM NothingDangles == ASSUME NamesOfPrograms, PlainCalls PROVE Spec => []NoDangling
<1>1. Inv => NoDangling
  <2> SUFFICES ASSUME Inv, NEW e \in BoundEntries \cup Captured(BoundEntries)
               PROVE  Resolves(e)
    BY DEF NoDangling
  <2>1. garena \in Seq(Cells) /\ sarena \in Seq(Cells) /\ SoundNow
    BY DEF Inv, SoundNow, Sound, GoodArena
  <2>2. CASE e \in BoundEntries
    BY <2>1, <2>2, BoundAreGood, GoodResolves
  <2>3. CASE e \in Captured(BoundEntries)
    <3>1. PICK f \in BoundEntries : Resolves(f)
                                    /\ \E n \in DOMAIN Value(f).caps : e = Value(f).caps[n]
      BY <2>3 DEF Captured
    <3>2. PICK n \in DOMAIN Value(f).caps : e = Value(f).caps[n]
      BY <3>1
    <3>3. f \in Entries /\ GoodEntry(f, garena, sarena)
      BY <2>1, BoundAreGood
    <3>4. PICK v : v = Value(f)
      OBVIOUS
    <3>5. v \in Vals /\ GoodVal(v, garena)
      BY <2>1, <3>3, <3>4, ValueIsGood
    <3>6. e \in GlobalEntries /\ FoundIn(e, garena)
      BY <3>2, <3>4, <3>5, BindingTypes DEF Vals, GoodVal
    <3>7. e \in Entries /\ GoodEntry(e, garena, sarena)
      BY <3>6 DEF GlobalEntries, GoodEntry
    <3>8. QED
      BY <2>1, <3>7, GoodResolves
  <2>4. QED
    BY <2>2, <2>3
<1>2. QED
  BY <1>1, InvAlways, PTL


-----------------------------------------------------------------------------
(* One variable, one cell.  Owned are the bindings the program's text can   *)
(* mention: in a frame or a function, the names of its `lex` and the names  *)
(* of globals; the others are the callers' and nobody writes through them.  *)

Mine(lex) == lex \cup Globals
Keeps(v, e) == \E n \in DOMAIN v.caps \cap Mine(v.lex) : v.caps[n] = e
FrameKeeps(c, e) == \E n \in DOMAIN c.binds \cap Mine(c.lex) : c.binds[n] = e

Owned(ga, sa, fs, gb) ==
  {e \in Entries : \/ \E n \in DOMAIN gb : gb[n] = e
                   \/ \E i \in 1 .. Len(fs) : FrameKeeps(fs[i], e)
                   \/ \E i \in 1 .. Len(ga) : Keeps(ga[i].val, e)
                   \/ \E i \in 1 .. Len(sa) : Keeps(sa[i].val, e)}

OneCell(S, nv) == \A e, f \in S : e.vid < nv /\ (e.vid = f.vid => e = f)

\* No two names of a frame share a scoped cell.
Distinct(c) ==
  \A n, k \in DOMAIN c.binds : c.binds[n].region = "scoped" /\ c.binds[n] = c.binds[k] => n = k

\* A frame shares a scoped cell with one below it as the receiver of a method.
ReceiverOnly(c, d) ==
  \A n \in DOMAIN c.binds, k \in DOMAIN d.binds :
    c.binds[n].region = "scoped" /\ c.binds[n] = d.binds[k] => k = This /\ d.kind = "call"

Alias(fs) ==
  /\ \A i \in 1 .. Len(fs) : Distinct(fs[i])
  /\ \A i, j \in 1 .. Len(fs) : i < j => ReceiverOnly(fs[i], fs[j])

\* Only a called function binds names its body cannot mention, and what is in
\* the scoped arena is a name of the frame's own.
OwnNames(c) ==
  /\ c.kind # "call" => c.lex = DOMAIN c.binds
  /\ \A n \in DOMAIN c.binds : c.binds[n].region = "scoped" => n \in c.lex /\ n \notin Globals

\* A loop's frame has its counter and the body's block above it; a fresh one is
\* innermost and no closure captured its counter.
LoopFrame(c) == \E n \in c.lex : c.lex = {n} /\ n \notin Globals
Scoped(c) == \A n \in c.lex : c.binds[n].region = "scoped"
Loops(fs) ==
  \A i \in 1 .. Len(fs) : fs[i].kind = "for" =>
    /\ LoopFrame(fs[i])
    /\ i < Len(fs) => fs[i + 1].kind = "block"
    /\ fs[i].fresh => i = Len(fs) /\ Scoped(fs[i])

Layout(fs, gb) ==
  /\ Alias(fs) /\ Loops(fs)
  /\ \A i \in 1 .. Len(fs) : OwnNames(fs[i])
  /\ DOMAIN gb \subseteq Globals

Own(ga, sa, fs, gb, nv) == OneCell(Owned(ga, sa, fs, gb), nv) /\ Layout(fs, gb)
OwnNow == Own(garena, sarena, frames, gbinds, vids)
OwnedNow == Owned(garena, sarena, frames, gbinds)

LEMMA OneCellOfFewer ==
  ASSUME NEW S, NEW T, T \subseteq S, NEW nv, OneCell(S, nv)
  PROVE  OneCell(T, nv)
  BY DEF OneCell

LEMMA OneCellOfMore ==
  ASSUME NEW S, S \subseteq Entries, NEW nv \in Nat, OneCell(S, nv),
         NEW e \in Entries, e.vid = nv, NEW T, T \subseteq S \cup {e}
  PROVE  OneCell(T, nv + 1)
<1>1. \A f \in S : f.vid \in Nat /\ f.vid < nv
  BY DEF OneCell, Entries
<1>2. ASSUME NEW x \in T, NEW y \in T PROVE x.vid < nv + 1 /\ (x.vid = y.vid => x = y)
  <2>1. (x \in S \/ x = e) /\ (y \in S \/ y = e)
    OBVIOUS
  <2>2. CASE x \in S /\ y \in S
    <3>1. x.vid < nv /\ (x.vid = y.vid => x = y) /\ x.vid \in Nat
      BY <1>1, <2>2 DEF OneCell
    <3>2. QED
      BY <3>1
  <2>3. CASE x \in S /\ y = e
    <3>1. x.vid < nv /\ x.vid \in Nat /\ y.vid = nv
      BY <1>1, <2>3
    <3>2. QED
      BY <3>1
  <2>4. CASE x = e /\ y \in S
    <3>1. y.vid < nv /\ y.vid \in Nat /\ x.vid = nv
      BY <1>1, <2>4
    <3>2. QED
      BY <3>1
  <2>5. CASE x = e /\ y = e
    BY <2>5
  <2>6. QED
    BY <2>1, <2>2, <2>3, <2>4, <2>5
<1>3. QED
  BY <1>2 DEF OneCell

\* The value of a reachable cell keeps nothing new.
LEMMA ValueKeeps ==
  ASSUME SoundNow, NEW e \in Entries, NEW f, Keeps(Value(e), f)
  PROVE  f \in OwnedNow /\ f \in GlobalEntries
<1>1. garena \in Seq(Cells) /\ sarena \in Seq(Cells)
  BY DEF SoundNow, Sound, GoodArena
<1>2. e.index \in DOMAIN Arena(e.region)
  <2>1. DOMAIN NoBinds = {}
    BY DEF NoBinds
  <2>2. ~Keeps(Data, f)
    BY <2>1 DEF Keeps, Data
  <2>3. QED
    BY <2>2 DEF Value
<1>3. PICK a, i : a = Arena(e.region) /\ i = e.index /\ (a = garena \/ a = sarena)
  BY DEF Arena
<1>4. i \in 1 .. Len(a) /\ Value(e) = a[i].val
  BY <1>1, <1>2, <1>3, LenProperties DEF Value
<1>5. a[i] \in Cells
  BY <1>1, <1>3, <1>4, ElementOfSeq
<1>6. PICK v : v = Value(e) /\ v \in Vals
  BY <1>4, <1>5 DEF Cells
<1>7. PICK n \in DOMAIN v.caps : v.caps[n] = f
  BY <1>6 DEF Keeps
<1>8. f \in GlobalEntries
  BY <1>6, <1>7, BindingTypes DEF Vals
<1>9. f \in OwnedNow
  BY <1>3, <1>4, <1>8 DEF OwnedNow, Owned, GlobalEntries
<1>10. QED
  BY <1>8, <1>9

\* What the body mentions is bound in the frame it resolves to as its own name.
LEMMA InnerIsLexical ==
  ASSUME SoundNow, OwnNow, NEW n \in LexLocals
  PROVE  Inner(n) \in Body /\ n \in frames[Inner(n)].lex
<1>1. frames \in Seq(FrameSet) /\ GoodFrames(frames, garena, sarena)
      /\ DOMAIN frames = 1 .. Len(frames) /\ Len(frames) \in Nat
  BY LenProperties DEF SoundNow, Sound, GoodFrames
<1>2. PICK i \in Body : n \in frames[i].lex
  BY DEF LexLocals, LexWith
<1>3. i \in 1 .. Len(frames) /\ n \in DOMAIN frames[i].binds
  BY <1>1, <1>2, BodyFrames, FrameTypes
<1>4. PICK j : j = Inner(n)
  OBVIOUS
<1>5. j \in 1 .. Len(frames) /\ n \in DOMAIN frames[j].binds /\ i <= j
  BY <1>1, <1>3, <1>4, LocalsAreBound, InnerFrame
<1>6. CASE i = j
  BY <1>2, <1>4, <1>6
<1>7. CASE i # j
  <2>1. i < j
    BY <1>1, <1>3, <1>5, <1>7
  <2>2. j \in Body /\ frames[j].kind \notin {"call", "new"}
    BY <1>1, <1>2, <1>5, <2>1, BodyFrames
  <2>3. OwnNames(frames[j])
    BY <1>5 DEF OwnNow, Own, Layout
  <2>4. QED
    BY <1>4, <1>5, <2>2, <2>3 DEF OwnNames
<1>8. QED
  BY <1>6, <1>7

\* So a visible name's reference is one of those that are unique.
LEMMA LookupIsOwned ==
  ASSUME SoundNow, OwnNow, NEW n,
         n \in LexLocals \/ (n \in Globals /\ FramesWith(n) # {}) \/ n \in DOMAIN gbinds
  PROVE  Lookup(n) \in OwnedNow
<1>1. CASE FramesWith(n) # {}
  <2>1. frames \in Seq(FrameSet)
    BY DEF SoundNow, Sound, GoodFrames
  <2>2. PICK j : j = Inner(n)
    OBVIOUS
  <2>3. j \in 1 .. Len(frames) /\ n \in DOMAIN frames[j].binds /\ Lookup(n) = frames[j].binds[n]
    BY <1>1, <2>1, <2>2, InnerFrame
  <2>4. n \in Mine(frames[j].lex)
    BY <2>2, InnerIsLexical DEF Mine, OwnNow, Own, Layout
  <2>5. Lookup(n) \in Entries
    BY <1>1, LookupIsGood
  <2>6. FrameKeeps(frames[j], Lookup(n))
    BY <2>3, <2>4 DEF FrameKeeps
  <2>7. QED
    BY <2>3, <2>5, <2>6 DEF OwnedNow, Owned
<1>2. CASE FramesWith(n) = {}
  <2>1. n \in DOMAIN gbinds
    BY <1>2, LocalsAreBound
  <2>2. Lookup(n) = gbinds[n] /\ Lookup(n) \in Entries
    BY <1>2, <2>1, LookupIsGood DEF Lookup
  <2>3. QED
    BY <2>1, <2>2 DEF OwnedNow, Owned
<1>3. QED
  BY <1>1, <1>2


-----------------------------------------------------------------------------
(* Capturing moves every binding of a variable to the same copy. *)

LEMMA GlobalStays ==
  ASSUME NamesOfPrograms, SoundNow, NEW P, Promotable(P), NEW e, e.region # "scoped"
  PROVE  Moved(P, e) = e
  BY MovedIs

LEMMA ReboundBinding ==
  ASSUME NamesOfPrograms, SoundNow, NEW P, Promotable(P),
         NEW fs, fs = Rebind(frames, P, NewRef(P)),
         NEW i \in 1 .. Len(frames), NEW n \in DOMAIN frames[i].binds
  PROVE  /\ Len(fs) = Len(frames) /\ fs[i].lex = frames[i].lex
         /\ DOMAIN fs[i].binds = DOMAIN frames[i].binds
         /\ fs[i].binds[n] = Moved(P, frames[i].binds[n])
  BY ReboundFrames

\* The stack a capture leaves: frames as they were, scoped bindings untouched.
LEMMA ReboundLayout ==
  ASSUME NamesOfPrograms, SoundNow, OwnNow, Running, NEW P, Promotable(P),
         NEW fs, fs = Rebind(frames, P, NewRef(P))
  PROVE  Layout(fs, gbinds)
<1> DEFINE k == Len(frames)
<1>1. /\ Len(fs) = k /\ k \in Nat
      /\ \A i \in 1 .. k :
           /\ fs[i].kind = frames[i].kind /\ fs[i].lex = frames[i].lex
           /\ fs[i].fresh = frames[i].fresh
           /\ DOMAIN fs[i].binds = DOMAIN frames[i].binds
           /\ \A m \in DOMAIN frames[i].binds :
                fs[i].binds[m].region = "scoped" => fs[i].binds[m] = frames[i].binds[m]
      /\ \A i \in 1 .. k : \A m \in DOMAIN frames[i].binds :
           fs[i].binds[m] = Moved(P, frames[i].binds[m])
  <2>1. frames \in Seq(FrameSet)
    BY DEF SoundNow, Sound, GoodFrames
  <2>2. k \in Nat
    BY <2>1, LenProperties
  <2>3. QED
    BY <2>2, ReboundFrames
<1>2. Layout(frames, gbinds)
  BY DEF OwnNow, Own
<1>3. ASSUME NEW i \in 1 .. k PROVE Distinct(fs[i])
  <2>1. Distinct(frames[i])
    BY <1>2 DEF Layout, Alias
  <2>2. ASSUME NEW n \in DOMAIN fs[i].binds, NEW m \in DOMAIN fs[i].binds,
               fs[i].binds[n].region = "scoped", fs[i].binds[n] = fs[i].binds[m]
        PROVE  n = m
    <3>1. /\ fs[i].binds[n] = frames[i].binds[n] /\ fs[i].binds[m] = frames[i].binds[m]
          /\ n \in DOMAIN frames[i].binds /\ m \in DOMAIN frames[i].binds
      BY <1>1, <2>2
    <3>2. QED
      BY <2>1, <2>2, <3>1 DEF Distinct
  <2>3. QED
    BY <2>2 DEF Distinct
<1>4. ASSUME NEW i \in 1 .. k, NEW j \in 1 .. k, i < j PROVE ReceiverOnly(fs[i], fs[j])
  <2>1. ReceiverOnly(frames[i], frames[j])
    BY <1>2, <1>4 DEF Layout, Alias
  <2>2. ASSUME NEW n \in DOMAIN fs[i].binds, NEW m \in DOMAIN fs[j].binds,
               fs[i].binds[n].region = "scoped", fs[i].binds[n] = fs[j].binds[m]
        PROVE  m = This /\ fs[j].kind = "call"
    <3>1. /\ fs[i].binds[n] = frames[i].binds[n] /\ fs[j].binds[m] = frames[j].binds[m]
          /\ n \in DOMAIN frames[i].binds /\ m \in DOMAIN frames[j].binds
          /\ fs[j].kind = frames[j].kind
      BY <1>1, <2>2
    <3>2. QED
      BY <2>1, <2>2, <3>1 DEF ReceiverOnly
  <2>3. QED
    BY <2>2 DEF ReceiverOnly
<1>5. ASSUME NEW i \in 1 .. k PROVE OwnNames(fs[i])
  <2>1. OwnNames(frames[i])
    BY <1>2 DEF Layout
  <2>2. QED
    BY <1>1, <2>1 DEF OwnNames
<1>6. ASSUME NEW i \in 1 .. k, fs[i].kind = "for"
      PROVE  /\ LoopFrame(fs[i])
             /\ i < k => fs[i + 1].kind = "block"
             /\ ~fs[i].fresh
  <2>1. /\ frames[i].kind = "for" /\ LoopFrame(frames[i])
        /\ i < k => frames[i + 1].kind = "block"
        /\ frames[i].fresh => i = k
    BY <1>1, <1>2, <1>6 DEF Layout, Loops
  <2>2. i # k
    BY <2>1, EmptySeq DEF Running
  <2>3. i < k => i + 1 \in 1 .. k
    BY <1>1
  <2>4. LoopFrame(fs[i])
    BY <1>1, <2>1 DEF LoopFrame
  <2>5. i < k => fs[i + 1].kind = "block"
    BY <1>1, <2>1, <2>3
  <2>6. ~fs[i].fresh
    BY <1>1, <2>1, <2>2
  <2>7. QED
    BY <2>4, <2>5, <2>6
<1>7. Loops(fs)
  BY <1>1, <1>6 DEF Loops
<1>8. Alias(fs)
  BY <1>1, <1>3, <1>4 DEF Alias
<1>9. QED
  BY <1>1, <1>2, <1>5, <1>7, <1>8 DEF Layout

\* Everything owned afterwards is what it was, or the copy it moved to.
LEMMA OwnedMoved ==
  ASSUME NamesOfPrograms, SoundNow, NEW P, Promotable(P),
         NEW fs, fs = Rebind(frames, P, NewRef(P)),
         NEW t \in Owned(garena \o Copies(P), sarena, fs, gbinds)
  PROVE  \E e \in OwnedNow : t = Moved(P, e)
<1>1. /\ garena \in Seq(Cells) /\ sarena \in Seq(Cells) /\ frames \in Seq(FrameSet)
      /\ GoodFrames(frames, garena, sarena) /\ Copies(P) \in Seq(Cells)
      /\ gbinds \in BindingsOf(GlobalEntries)
  BY PromotedCells DEF SoundNow, Sound, GoodArena, GoodFrames, GoodBinds
<1>2. ASSUME t \in OwnedNow, t \in GlobalEntries
      PROVE  \E e \in OwnedNow : t = Moved(P, e)
  BY <1>2, GlobalStays DEF GlobalEntries
<1>3. ASSUME NEW n \in DOMAIN gbinds, gbinds[n] = t
      PROVE  \E e \in OwnedNow : t = Moved(P, e)
  <2>1. t \in GlobalEntries
    BY <1>1, <1>3, BindingTypes
  <2>2. t \in OwnedNow
    BY <1>3, <2>1 DEF OwnedNow, Owned, GlobalEntries
  <2>3. QED
    BY <1>2, <2>1, <2>2
<1>4. ASSUME NEW i \in 1 .. Len(fs), FrameKeeps(fs[i], t)
      PROVE  \E e \in OwnedNow : t = Moved(P, e)
  <2>1. PICK n \in DOMAIN fs[i].binds \cap Mine(fs[i].lex) : fs[i].binds[n] = t
    BY <1>4 DEF FrameKeeps
  <2>2. /\ Len(fs) = Len(frames) /\ fs[i].lex = frames[i].lex
        /\ DOMAIN fs[i].binds = DOMAIN frames[i].binds
        /\ fs[i].binds[n] = Moved(P, frames[i].binds[n])
    BY <2>1, ReboundFrames
  <2>3. i \in 1 .. Len(frames) /\ n \in DOMAIN frames[i].binds \cap Mine(frames[i].lex)
    BY <2>1, <2>2
  <2>4. PICK e : e = frames[i].binds[n]
    OBVIOUS
  <2>5. e \in Entries
    BY <1>1, <2>3, <2>4, FrameTypes
  <2>6. FrameKeeps(frames[i], e)
    BY <2>3, <2>4 DEF FrameKeeps
  <2>7. e \in OwnedNow
    BY <2>3, <2>5, <2>6 DEF OwnedNow, Owned
  <2>8. QED
    BY <2>1, <2>2, <2>4, <2>7
<1>5. ASSUME NEW v \in Vals, Keeps(v, t) PROVE t \in GlobalEntries
  <2>1. PICK n \in DOMAIN v.caps : v.caps[n] = t
    BY <1>5 DEF Keeps
  <2>2. QED
    BY <2>1, BindingTypes DEF Vals
<1>6. ASSUME NEW i \in 1 .. Len(sarena), Keeps(sarena[i].val, t)
      PROVE  \E e \in OwnedNow : t = Moved(P, e)
  <2>1. PICK c : c = sarena[i] /\ c \in Cells
    BY <1>1, ElementOfSeq
  <2>2. c.val \in Vals /\ Keeps(c.val, t)
    BY <1>6, <2>1 DEF Cells
  <2>3. t \in GlobalEntries
    BY <1>5, <2>2
  <2>4. t \in OwnedNow
    BY <1>6, <2>3 DEF OwnedNow, Owned, GlobalEntries
  <2>5. QED
    BY <1>2, <2>3, <2>4
<1>7. ASSUME NEW i \in 1 .. Len(garena \o Copies(P)), Keeps((garena \o Copies(P))[i].val, t)
      PROVE  \E e \in OwnedNow : t = Moved(P, e)
  <2>1. Len(garena) \in Nat /\ Len(Copies(P)) \in Nat
        /\ Len(garena \o Copies(P)) = Len(garena) + Len(Copies(P))
    BY <1>1, LenProperties, ConcatProperties
  <2>2. CASE i <= Len(garena)
    <3>1. (garena \o Copies(P))[i] = garena[i] /\ i \in 1 .. Len(garena)
      BY <1>1, <2>1, <2>2, ConcatProperties
    <3>2. PICK c : c = garena[i] /\ c \in Cells
      BY <1>1, <3>1, ElementOfSeq
    <3>3. c.val \in Vals /\ Keeps(c.val, t)
      BY <1>7, <3>1, <3>2 DEF Cells
    <3>4. t \in GlobalEntries
      BY <1>5, <3>3
    <3>5. t \in OwnedNow
      BY <3>1, <3>2, <3>3, <3>4 DEF OwnedNow, Owned, GlobalEntries
    <3>6. QED
      BY <1>2, <3>4, <3>5
  <2>3. CASE ~(i <= Len(garena))
    <3>1. PICK j : j = i - Len(garena) /\ (garena \o Copies(P))[i] = Copies(P)[j]
                   /\ j \in 1 .. Len(Copies(P))
      BY <1>1, <2>1, <2>3, ConcatProperties
    <3>2. j \in DOMAIN SetToSeq(P) /\ SetToSeq(P)[j] \in P
      <4>1. IsFiniteSet(P)
        BY FS_Subset DEF NamesOfPrograms, Promotable
      <4>2. SetToSeq(P) \in [1 .. Cardinality(P) -> P]
        BY <4>1, Listed
      <4>3. DOMAIN Copies(P) = DOMAIN SetToSeq(P) /\ DOMAIN Copies(P) = 1 .. Len(Copies(P))
        BY <1>1, LenProperties DEF Copies
      <4>4. QED
        BY <3>1, <4>2, <4>3
    <3>3. PICK n : n = SetToSeq(P)[j] /\ n \in P
      BY <3>2
    <3>4. Copies(P)[j].val = Value(Lookup(n))
      BY <3>2, <3>3 DEF Copies, Cell
    <3>5. Lookup(n) \in Entries
      BY <3>3, LookupIsGood DEF Promotable
    <3>6. Keeps(Value(Lookup(n)), t)
      BY <1>7, <3>1, <3>4
    <3>7. QED
      BY <1>2, <3>5, <3>6, ValueKeeps
  <2>4. QED
    BY <2>2, <2>3
<1>8. QED
  BY <1>3, <1>4, <1>6, <1>7 DEF Owned

\* A promoted name of the body's own is the one its cell's bindings follow: a
\* receiver's other name is bound further out, `this` of an inner method would
\* be in a body of its own.
LEMMA FirstIsOwn ==
  ASSUME NamesOfPrograms, SoundNow, OwnNow, NEW P, Promotable(P), NEW n \in P, n \in LexLocals
  PROVE  First(P, Lookup(n)) = n
<1>1. PICK e : e = Lookup(n)
  OBVIOUS
<1>2. NamesOf(P, e) # {} /\ n \in NamesOf(P, e)
  BY <1>1 DEF NamesOf
<1>3. PICK f : f = First(P, e)
  OBVIOUS
<1>4. e.region = "scoped" /\ f \in P /\ Lookup(f) = e /\ Inner(n) <= Inner(f)
  BY <1>2, <1>3, MovedIs
<1>5. frames \in Seq(FrameSet) /\ Len(frames) \in Nat
  BY LenProperties DEF SoundNow, Sound, GoodFrames
<1>6. PICK i, j : i = Inner(n) /\ j = Inner(f)
  OBVIOUS
<1>7. /\ i \in 1 .. Len(frames) /\ n \in DOMAIN frames[i].binds /\ frames[i].binds[n] = e
      /\ j \in 1 .. Len(frames) /\ f \in DOMAIN frames[j].binds /\ frames[j].binds[f] = e
  BY <1>1, <1>4, <1>5, <1>6, InnerFrame DEF Promotable
<1>8. Alias(frames)
  BY DEF OwnNow, Own, Layout
<1>9. CASE i = j
  <2>1. Distinct(frames[i])
    BY <1>7, <1>8 DEF Alias
  <2>2. QED
    BY <1>1, <1>3, <1>4, <1>7, <1>9, <2>1 DEF Distinct
<1>10. CASE i # j
  <2>1. i < j
    BY <1>4, <1>5, <1>6, <1>7, <1>10
  <2>2. ReceiverOnly(frames[i], frames[j])
    BY <1>7, <1>8, <2>1 DEF Alias
  <2>3. frames[j].kind = "call"
    BY <1>4, <1>7, <2>2 DEF ReceiverOnly
  <2>4. i \in Body
    BY <1>6, InnerIsLexical
  <2>5. frames[j].kind \notin {"call", "new"}
    BY <1>5, <1>7, <2>1, <2>4, BodyFrames
  <2>6. QED
    BY <2>3, <2>5
<1>11. QED
  BY <1>9, <1>10

\* What a function captured of the names its body mentions is what their
\* frames are bound to afterwards.
LEMMA CapturedIsOwned ==
  ASSUME NamesOfPrograms, SoundNow, OwnNow, NEW wanted \in SUBSET Names,
         NEW n \in BoundIn(wanted), n \in LexLocals \/ n \in Globals
  PROVE  CapturedAs(wanted, n)
           \in Owned(Capture(wanted).ga, sarena, Capture(wanted).fs, gbinds)
<1>1. PICK P : P = Promoted(wanted) /\ Promotable(P)
  BY PromotedIsPromotable
<1>2. PICK e, j : e = Lookup(n) /\ j = Inner(n)
  OBVIOUS
<1>3. FramesWith(n) # {} /\ n \in wanted
  BY DEF BoundIn
<1>4. frames \in Seq(FrameSet)
  BY DEF SoundNow, Sound, GoodFrames
<1>5. j \in 1 .. Len(frames) /\ n \in DOMAIN frames[j].binds /\ frames[j].binds[n] = e
  BY <1>2, <1>3, <1>4, InnerFrame
<1>6. n \in Mine(frames[j].lex)
  BY <1>2, InnerIsLexical DEF Mine
<1>7. CapturedAs(wanted, n) = Moved(P, e)
  <2>1. CASE n \in P
    <3>1. e.region = "scoped"
      BY <1>1, <1>2, <2>1 DEF Promoted
    <3>2. n \notin Globals
      BY <1>5, <3>1 DEF OwnNow, Own, Layout, OwnNames
    <3>3. First(P, e) = n
      BY <1>1, <1>2, <2>1, <3>2, FirstIsOwn
    <3>4. NamesOf(P, e) # {}
      BY <1>2, <2>1 DEF NamesOf
    <3>5. QED
      BY <1>1, <2>1, <3>3, <3>4 DEF CapturedAs, Moved
  <2>2. CASE n \notin P
    <3>1. e.region # "scoped"
      BY <1>1, <1>2, <2>2 DEF Promoted
    <3>2. Moved(P, e) = e
      BY <1>1, <3>1, GlobalStays
    <3>3. QED
      BY <1>1, <1>2, <2>2, <3>2 DEF CapturedAs
  <2>3. QED
    BY <2>1, <2>2
<1>8. PICK fs : fs = Rebind(frames, P, NewRef(P))
  OBVIOUS
<1>9. /\ Len(fs) = Len(frames) /\ fs[j].lex = frames[j].lex
      /\ DOMAIN fs[j].binds = DOMAIN frames[j].binds /\ fs[j].binds[n] = Moved(P, e)
  <2>1. PICK k : k = n /\ k \in DOMAIN frames[j].binds
    BY <1>5
  <2>2. fs[j].binds[k] = Moved(P, frames[j].binds[k])
    BY <1>1, <1>5, <1>8, <2>1, ReboundBinding
  <2>3. Len(fs) = Len(frames) /\ fs[j].lex = frames[j].lex
        /\ DOMAIN fs[j].binds = DOMAIN frames[j].binds
    BY <1>1, <1>5, <1>8, <2>1, ReboundBinding
  <2>4. QED
    BY <1>5, <2>1, <2>2, <2>3
<1>10. FrameKeeps(fs[j], Moved(P, e))
  BY <1>5, <1>6, <1>9 DEF FrameKeeps
<1>11. CapturedAs(wanted, n) \in Entries
  BY CapturedIsGood DEF GlobalEntries
<1>12. QED
  BY <1>1, <1>5, <1>7, <1>8, <1>9, <1>10, <1>11, CaptureIs DEF Owned


LEMMA ReboundOwn ==
  ASSUME NamesOfPrograms, SoundNow, OwnNow, Running, NEW P, Promotable(P),
         NEW fs, fs = Rebind(frames, P, NewRef(P))
  PROVE  Own(garena \o Copies(P), sarena, fs, gbinds, vids)
<1>1. PICK S : S = Owned(garena \o Copies(P), sarena, fs, gbinds)
  OBVIOUS
<1>2. ASSUME NEW t \in S PROVE \E e \in OwnedNow : t = Moved(P, e) /\ t.vid = e.vid
  <2>1. PICK e \in OwnedNow : t = Moved(P, e)
    BY <1>1, OwnedMoved
  <2>2. Moved(P, e).vid = e.vid
    BY MovedIs
  <2>3. QED
    BY <2>1, <2>2
<1>3. OneCell(OwnedNow, vids)
  BY DEF OwnNow, Own, OwnedNow
<1>4. ASSUME NEW t \in S, NEW u \in S PROVE t.vid < vids /\ (t.vid = u.vid => t = u)
  <2>1. PICK e \in OwnedNow : t = Moved(P, e) /\ t.vid = e.vid
    BY <1>2
  <2>2. PICK f \in OwnedNow : u = Moved(P, f) /\ u.vid = f.vid
    BY <1>2
  <2>3. e.vid < vids /\ (e.vid = f.vid => e = f)
    BY <1>3 DEF OneCell
  <2>4. QED
    BY <2>1, <2>2, <2>3
<1>5. OneCell(S, vids)
  BY <1>4 DEF OneCell
<1>6. QED
  BY <1>1, <1>5, ReboundLayout DEF Own

\* The function that was made captured references that are unique.
IsOwn(l) ==
  /\ Own(l.ga, sarena, l.fs, gbinds, vids)
  /\ \A e \in Entries : Keeps(l.val, e) => e \in Owned(l.ga, sarena, l.fs, gbinds)
  /\ Len(l.fs) = Len(frames)
  /\ \A i \in 1 .. Len(frames) : l.fs[i].kind = frames[i].kind

LEMMA CaptureOwn ==
  ASSUME NamesOfPrograms, SoundNow, OwnNow, Running, NEW wanted \in SUBSET Names
  PROVE  /\ Own(Capture(wanted).ga, sarena, Capture(wanted).fs, gbinds, vids)
         /\ Len(Capture(wanted).fs) = Len(frames)
         /\ \A i \in 1 .. Len(frames) : Capture(wanted).fs[i].kind = frames[i].kind
<1>1. PICK P : P = Promoted(wanted) /\ Promotable(P)
  BY PromotedIsPromotable
<1>2. PICK fs, ga : fs = Rebind(frames, P, NewRef(P)) /\ ga = garena \o Copies(P)
  OBVIOUS
<1>3. fs = Capture(wanted).fs /\ ga = Capture(wanted).ga
  BY <1>1, <1>2, CaptureIs
<1>4. Own(ga, sarena, fs, gbinds, vids)
  BY <1>1, <1>2, ReboundOwn
<1>5. Len(fs) = Len(frames) /\ \A i \in 1 .. Len(frames) : fs[i].kind = frames[i].kind
  BY <1>1, <1>2, ReboundFrames
<1>6. QED
  BY <1>3, <1>4, <1>5

LEMMA LambdaOwned ==
  ASSUME NamesOfPrograms, SoundNow, OwnNow, Running, NEW mentions \in SUBSET LexVisible
  PROVE  IsOwn(Lambda(mentions))
<1>1. PICK w : w = mentions \cup {This} /\ w \in SUBSET Names
  BY VisibleIsBound DEF Names
<1>2. PICK v, ga, fs, caps : /\ v = Lambda(mentions).val /\ ga = Capture(w).ga
                             /\ fs = Capture(w).fs /\ caps = Capture(w).caps
  OBVIOUS
<1>3. /\ Lambda(mentions).ga = ga /\ Lambda(mentions).fs = fs
      /\ v = [fn |-> TRUE,
              caps |-> [n \in DOMAIN caps \cup Live(mentions) |->
                          IF n \in Live(mentions) THEN gbinds[n] ELSE caps[n]],
              lex |-> (w \cap LexLocals) \cup Live(mentions), self |-> NoName]
  BY <1>1, <1>2, LambdaIs
<1>4. /\ Own(ga, sarena, fs, gbinds, vids) /\ Len(fs) = Len(frames)
      /\ \A i \in 1 .. Len(frames) : fs[i].kind = frames[i].kind
  BY <1>1, <1>2, CaptureOwn
<1>5. caps = [n \in BoundIn(w) |-> CapturedAs(w, n)]
  BY <1>2, CaptureIs
<1>6. ASSUME NEW e \in Entries, Keeps(v, e) PROVE e \in Owned(ga, sarena, fs, gbinds)
  <2>1. PICK n \in DOMAIN v.caps \cap Mine(v.lex) : v.caps[n] = e
    BY <1>6 DEF Keeps
  <2>2. CASE n \in Live(mentions)
    <3>1. e = gbinds[n] /\ n \in DOMAIN gbinds
      BY <1>3, <2>1, <2>2 DEF Live
    <3>2. QED
      BY <3>1 DEF Owned
  <2>3. CASE n \notin Live(mentions)
    <3>1. n \in BoundIn(w) /\ e = CapturedAs(w, n)
      BY <1>3, <1>5, <2>1, <2>3
    <3>2. n \in LexLocals \/ n \in Globals
      BY <1>3, <2>1, <2>3 DEF Mine
    <3>3. QED
      BY <1>1, <1>2, <3>1, <3>2, CapturedIsOwned
  <2>4. QED
    BY <2>2, <2>3
<1>7. QED
  BY <1>2, <1>3, <1>4, <1>6 DEF IsOwn

LEMMA FunctionOwned ==
  ASSUME NamesOfPrograms, SoundNow, OwnNow, Running, NEW n \in Names
  PROVE  IsOwn(NamedFunction(n))
<1>1. PICK w : w = Names
  OBVIOUS
<1>2. PICK v, ga, fs, caps : /\ v = NamedFunction(n).val /\ ga = Capture(w).ga
                             /\ fs = Capture(w).fs /\ caps = Capture(w).caps
  OBVIOUS
<1>3. /\ NamedFunction(n).ga = ga /\ NamedFunction(n).fs = fs
      /\ v = [fn |-> TRUE, caps |-> caps, lex |-> LexLocals, self |-> n]
  BY <1>1, <1>2 DEF NamedFunction, Function
<1>4. /\ Own(ga, sarena, fs, gbinds, vids) /\ Len(fs) = Len(frames)
      /\ \A i \in 1 .. Len(frames) : fs[i].kind = frames[i].kind
  BY <1>1, <1>2, CaptureOwn
<1>5. caps = [m \in BoundIn(w) |-> CapturedAs(w, m)]
  BY <1>2, CaptureIs
<1>6. ASSUME NEW e \in Entries, Keeps(v, e) PROVE e \in Owned(ga, sarena, fs, gbinds)
  <2>1. PICK m \in DOMAIN v.caps \cap Mine(v.lex) : v.caps[m] = e
    BY <1>6 DEF Keeps
  <2>2. m \in BoundIn(w) /\ e = CapturedAs(w, m) /\ (m \in LexLocals \/ m \in Globals)
    BY <1>3, <1>5, <2>1 DEF Mine
  <2>3. QED
    BY <1>1, <1>2, <2>2, CapturedIsOwned
<1>7. QED
  BY <1>2, <1>3, <1>4, <1>6 DEF IsOwn



-----------------------------------------------------------------------------
(* What the other steps do to the references: which are owned afterwards,   *)
(* and how the frames lie.                                                  *)

\* The innermost frame is replaced.
LEMMA LayoutTop ==
  ASSUME NEW k \in Nat \ {0}, NEW fs, Len(fs) = k, NEW gb, Layout(fs, gb),
         NEW d, d.kind = fs[k].kind, Distinct(d), OwnNames(d),
         \A i \in 1 .. k - 1 : ReceiverOnly(fs[i], d),
         d.kind = "for" => LoopFrame(d) /\ Scoped(d),
         NEW gs, Len(gs) = k, gs[k] = d, \A i \in 1 .. k - 1 : gs[i] = fs[i]
  PROVE  Layout(gs, gb)
<1>1. ASSUME NEW i \in 1 .. k
      PROVE  /\ Distinct(gs[i]) /\ OwnNames(gs[i]) /\ gs[i].kind = fs[i].kind
             /\ i # k => gs[i] = fs[i] /\ i \in 1 .. k - 1
  <2>1. i = k \/ (i \in 1 .. k - 1 /\ i # k)
    OBVIOUS
  <2>2. QED
    BY <2>1 DEF Layout, Alias
<1>2. ASSUME NEW i \in 1 .. k, NEW j \in 1 .. k, i < j
      PROVE  ReceiverOnly(gs[i], gs[j])
  <2>1. i # k
    BY <1>2
  <2>2. gs[i] = fs[i] /\ i \in 1 .. k - 1
    BY <1>1, <2>1
  <2>3. CASE j = k
    BY <2>2, <2>3
  <2>4. CASE j # k
    <3>1. gs[j] = fs[j]
      BY <1>1, <2>4
    <3>2. ReceiverOnly(fs[i], fs[j])
      BY <1>2 DEF Layout, Alias
    <3>3. QED
      BY <2>2, <3>1, <3>2
  <2>5. QED
    BY <2>3, <2>4
<1>3. ASSUME NEW i \in 1 .. k, gs[i].kind = "for"
      PROVE  /\ LoopFrame(gs[i])
             /\ i < k => gs[i + 1].kind = "block"
             /\ gs[i].fresh => i = k /\ Scoped(gs[i])
  <2>1. CASE i = k
    BY <1>3, <2>1
  <2>2. CASE i # k
    <3>1. gs[i] = fs[i] /\ i + 1 \in 1 .. k
      BY <1>1, <2>2
    <3>2. gs[i + 1].kind = fs[i + 1].kind
      BY <1>1, <3>1
    <3>3. /\ LoopFrame(fs[i])
          /\ i < k => fs[i + 1].kind = "block"
          /\ fs[i].fresh => i = k
      BY <1>3, <3>1 DEF Layout, Loops
    <3>4. QED
      BY <2>2, <3>1, <3>2, <3>3
  <2>3. QED
    BY <2>1, <2>2
<1>4. Loops(gs)
  BY <1>3 DEF Loops
<1>5. Alias(gs)
  BY <1>1, <1>2 DEF Alias
<1>6. QED
  BY <1>1, <1>4, <1>5 DEF Layout

\* A frame is pushed.
LEMMA LayoutPushed ==
  ASSUME NEW fs \in Seq(FrameSet), NEW gb, Layout(fs, gb),
         NEW c \in FrameSet, Distinct(c), OwnNames(c),
         \A i \in 1 .. Len(fs) : ReceiverOnly(fs[i], c),
         c.kind = "for" => LoopFrame(c) /\ Scoped(c),
         \A i \in 1 .. Len(fs) : fs[i].kind = "for" =>
           ~fs[i].fresh /\ (i = Len(fs) => c.kind = "block"),
         NEW gs, gs = Append(fs, c)
  PROVE  Layout(gs, gb)
<1>1. /\ Len(gs) = Len(fs) + 1 /\ gs[Len(fs) + 1] = c
      /\ \A i \in 1 .. Len(fs) : gs[i] = fs[i]
  BY AppendProperties
<1>2. Len(fs) \in Nat
  BY LenProperties
<1>3. ASSUME NEW i \in 1 .. Len(gs)
      PROVE  /\ Distinct(gs[i]) /\ OwnNames(gs[i])
             /\ i # Len(fs) + 1 => gs[i] = fs[i] /\ i \in 1 .. Len(fs)
  <2>1. i = Len(fs) + 1 \/ (i \in 1 .. Len(fs) /\ i # Len(fs) + 1)
    BY <1>1, <1>2
  <2>2. QED
    BY <1>1, <2>1 DEF Layout, Alias
<1>4. ASSUME NEW i \in 1 .. Len(gs), NEW j \in 1 .. Len(gs), i < j
      PROVE  ReceiverOnly(gs[i], gs[j])
  <2>1. i # Len(fs) + 1
    BY <1>1, <1>2, <1>4
  <2>2. gs[i] = fs[i] /\ i \in 1 .. Len(fs)
    BY <1>3, <2>1
  <2>3. CASE j = Len(fs) + 1
    BY <1>1, <2>2, <2>3
  <2>4. CASE j # Len(fs) + 1
    BY <1>3, <1>4, <2>2, <2>4 DEF Layout, Alias
  <2>5. QED
    BY <2>3, <2>4
<1>5. ASSUME NEW i \in 1 .. Len(gs), gs[i].kind = "for"
      PROVE  /\ LoopFrame(gs[i])
             /\ i < Len(gs) => gs[i + 1].kind = "block"
             /\ gs[i].fresh => i = Len(gs) /\ Scoped(gs[i])
  <2>1. CASE i = Len(fs) + 1
    BY <1>1, <1>2, <1>5, <2>1
  <2>2. CASE i # Len(fs) + 1
    <3>1. gs[i] = fs[i] /\ i \in 1 .. Len(fs)
      BY <1>3, <2>2
    <3>2. /\ LoopFrame(fs[i]) /\ ~fs[i].fresh
          /\ i < Len(fs) => fs[i + 1].kind = "block"
          /\ i = Len(fs) => c.kind = "block"
      BY <1>5, <3>1 DEF Layout, Loops
    <3>3. CASE i = Len(fs)
      BY <1>1, <3>1, <3>2, <3>3
    <3>4. CASE i # Len(fs)
      <4>1. i < Len(fs) /\ i + 1 \in 1 .. Len(fs)
        BY <1>2, <3>1, <3>4
      <4>2. gs[i + 1] = fs[i + 1]
        BY <1>1, <4>1
      <4>3. QED
        BY <3>1, <3>2, <4>1, <4>2
    <3>5. QED
      BY <3>3, <3>4
  <2>3. QED
    BY <2>1, <2>2
<1>6. Loops(gs)
  BY <1>5 DEF Loops
<1>7. Alias(gs)
  BY <1>3, <1>4 DEF Alias
<1>8. QED
  BY <1>3, <1>6, <1>7 DEF Layout

\* Frames are popped.
LEMMA LayoutPopped ==
  ASSUME NEW fs \in Seq(FrameSet), NEW gb, Layout(fs, gb), NEW depth \in 0 .. Len(fs) - 1,
         NEW gs, Len(gs) = depth, \A i \in 1 .. depth : gs[i] = fs[i]
  PROVE  /\ Layout(gs, gb)
         /\ \A i \in 1 .. depth : i = depth /\ fs[depth + 1].kind # "block" => gs[i].kind # "for"
<1>1. Len(fs) \in Nat
  BY LenProperties
<1>2. \A i \in 1 .. depth : i \in 1 .. Len(fs) /\ i # Len(fs) /\ i < Len(fs) /\ i + 1 \in 1 .. Len(fs)
  BY <1>1
<1>3. ASSUME NEW i \in 1 .. depth, NEW j \in 1 .. depth, i < j PROVE ReceiverOnly(gs[i], gs[j])
  BY <1>2, <1>3 DEF Layout, Alias
<1>4. \A i \in 1 .. depth : Distinct(gs[i]) /\ OwnNames(gs[i])
  BY <1>2 DEF Layout, Alias
<1>5. ASSUME NEW i \in 1 .. depth, gs[i].kind = "for"
      PROVE  /\ LoopFrame(gs[i]) /\ fs[i + 1].kind = "block"
             /\ i < Len(gs) => gs[i + 1].kind = "block"
             /\ gs[i].fresh => i = Len(gs) /\ Scoped(gs[i])
  <2>1. gs[i] = fs[i] /\ i \in 1 .. Len(fs) /\ i # Len(fs) /\ i < Len(fs)
    BY <1>2
  <2>2. /\ LoopFrame(fs[i]) /\ fs[i + 1].kind = "block"
        /\ ~fs[i].fresh
    BY <1>5, <2>1 DEF Layout, Loops
  <2>3. ASSUME i < Len(gs) PROVE gs[i + 1] = fs[i + 1]
    BY <2>3, <1>1
  <2>4. QED
    BY <2>1, <2>2, <2>3
<1>6. Loops(gs)
  BY <1>5 DEF Loops
<1>7. Alias(gs)
  BY <1>3, <1>4 DEF Alias
<1>8. Layout(gs, gb)
  BY <1>4, <1>6, <1>7 DEF Layout
<1>9. QED
  BY <1>5, <1>8


LEMMA DataKeeps == \A e : ~Keeps(Data, e)
<1>1. DOMAIN NoBinds = {}
  BY DEF NoBinds
<1>2. QED
  BY <1>1 DEF Keeps, Data

LEMMA AppendKeeps ==
  ASSUME NEW a \in Seq(Cells), NEW c, c \in Cells, NEW e,
         NEW i \in 1 .. Len(Append(a, c)), Keeps(Append(a, c)[i].val, e)
  PROVE  Keeps(c.val, e) \/ \E j \in 1 .. Len(a) : Keeps(a[j].val, e)
<1>1. /\ Len(a) \in Nat /\ Len(Append(a, c)) = Len(a) + 1 /\ Append(a, c)[Len(a) + 1] = c
      /\ \A j \in 1 .. Len(a) : Append(a, c)[j] = a[j]
  BY AppendProperties, LenProperties
<1>2. i \in 1 .. Len(a) \/ i = Len(a) + 1
  BY <1>1
<1>3. QED
  BY <1>1, <1>2

\* Nothing is bound to the cell.
Unbound(e, fs) ==
  e.region = "scoped" => \A i \in 1 .. Len(fs) : \A m \in DOMAIN fs[i].binds : fs[i].binds[m] # e

LEMMA NewIsUnbound ==
  ASSUME NEW ga, NEW sa, NEW fs, NEW gb, Sound(ga, sa, fs, gb),
         NEW e, e.region = "scoped" => e.index = Len(sa) + 1
  PROVE  Unbound(e, fs)
<1>1. GoodFrames(fs, ga, sa) /\ Len(sa) \in Nat
  BY LenProperties DEF Sound, GoodArena
<1>2. ASSUME e.region = "scoped", NEW i \in 1 .. Len(fs), NEW m \in DOMAIN fs[i].binds,
             fs[i].binds[m] = e
      PROVE  FALSE
  <2>1. GoodEntry(e, ga, sa)
    BY <1>1, <1>2, FrameTypes
  <2>2. e.index \in 1 .. Len(sa) /\ e.index = Len(sa) + 1
    BY <1>2, <2>1 DEF GoodEntry, FoundIn
  <2>3. QED
    BY <1>1, <2>2
<1>3. QED
  BY <1>2 DEF Unbound

\* Where a name can be declared.
Bindable(fs, n) ==
  IF fs = <<>> THEN n \in Globals ELSE n \in Locals /\ fs[Len(fs)].kind # "for"

\* The frames of `gs` own what those of `fs` do and `e`.
OnlyAdds(gs, fs, e) ==
  \A i \in 1 .. Len(gs), t \in Entries :
    FrameKeeps(gs[i], t) => t = e \/ \E j \in 1 .. Len(fs) : FrameKeeps(fs[j], t)

\* A name of the innermost frame is bound to a cell nobody else is bound to.
LEMMA TopBound ==
  ASSUME PlainReceivers, NEW ga, NEW sa, NEW fs, NEW gb, Sound(ga, sa, fs, gb), fs # <<>>,
         Layout(fs, gb), NEW n \in Names, Bindable(fs, n), NEW e \in Entries, Unbound(e, fs),
         NEW gs, gs = [fs EXCEPT ![Len(fs)] = WithName(fs[Len(fs)], n, e)]
  PROVE  Layout(gs, gb) /\ OnlyAdds(gs, fs, e)
<1>1. fs \in Seq(FrameSet) /\ Len(fs) \in 1 .. Len(fs) /\ Len(fs) \in Nat \ {0}
  BY LastIsIn, LenProperties, EmptySeq DEF Sound, GoodFrames
<1>2. PICK k : k = Len(fs)
  OBVIOUS
<1>3. PICK c : c = fs[k] /\ c \in FrameSet
  BY <1>1, <1>2, ElementOfSeq
<1>4. PICK d : d = WithName(c, n, e)
  OBVIOUS
<1>5. /\ d \in FrameSet /\ d.kind = c.kind /\ d.lex = c.lex \cup {n}
      /\ DOMAIN d.binds = DOMAIN c.binds \cup {n} /\ d.binds[n] = e
      /\ \A m \in DOMAIN c.binds \ {n} : d.binds[m] = c.binds[m]
  BY <1>3, <1>4, NamedFrame
<1>6. Len(gs) = k /\ gs[k] = d /\ \A i \in 1 .. k - 1 : gs[i] = fs[i]
  <2>1. gs = [fs EXCEPT ![Len(fs)] = d]
    BY <1>2, <1>3, <1>4
  <2>2. QED
    BY <1>1, <1>2, <1>5, <2>1, Replaced
<1>7. k \in Nat \ {0} /\ k \in 1 .. k /\ n \in Locals /\ n \notin Globals /\ c.kind # "for"
  BY <1>1, <1>2, <1>3 DEF Bindable, PlainReceivers
<1>8. /\ e.region = "scoped" =>
           \A i \in 1 .. k : \A m \in DOMAIN fs[i].binds : fs[i].binds[m] # e
  BY <1>2 DEF Unbound
<1>9. Distinct(c) /\ OwnNames(c) /\ \A i \in 1 .. k - 1 : ReceiverOnly(fs[i], c)
  <2>1. \A i \in 1 .. k - 1 : i \in 1 .. k /\ i < k
    BY <1>7
  <2>2. QED
    BY <1>2, <1>3, <1>7, <2>1 DEF Layout, Alias
<1>10. ASSUME NEW m \in DOMAIN d.binds, NEW h \in DOMAIN d.binds,
              d.binds[m].region = "scoped", d.binds[m] = d.binds[h]
       PROVE  m = h
  <2>1. CASE m = n /\ h # n
    <3>1. h \in DOMAIN c.binds /\ c.binds[h] = e /\ e.region = "scoped"
      BY <1>5, <1>10, <2>1
    <3>2. QED
      BY <1>3, <1>7, <1>8, <3>1
  <2>2. CASE m # n /\ h = n
    <3>1. m \in DOMAIN c.binds /\ c.binds[m] = e /\ e.region = "scoped"
      BY <1>5, <1>10, <2>2
    <3>2. QED
      BY <1>3, <1>7, <1>8, <3>1
  <2>3. CASE m # n /\ h # n
    <3>1. m \in DOMAIN c.binds /\ h \in DOMAIN c.binds /\ c.binds[m].region = "scoped"
          /\ c.binds[m] = c.binds[h]
      BY <1>5, <1>10, <2>3
    <3>2. QED
      BY <1>9, <3>1 DEF Distinct
  <2>4. QED
    BY <2>1, <2>2, <2>3
<1>11. OwnNames(d)
  <2>1. ASSUME NEW m \in DOMAIN d.binds, d.binds[m].region = "scoped"
        PROVE  m \in d.lex /\ m \notin Globals
    <3>1. CASE m = n
      BY <1>5, <1>7, <3>1
    <3>2. CASE m # n
      BY <1>5, <1>9, <2>1, <3>2 DEF OwnNames
    <3>3. QED
      BY <3>1, <3>2
  <2>2. d.kind # "call" => d.lex = DOMAIN d.binds
    BY <1>5, <1>9 DEF OwnNames
  <2>3. QED
    BY <2>1, <2>2 DEF OwnNames
<1>12. ASSUME NEW i \in 1 .. k - 1 PROVE ReceiverOnly(fs[i], d)
  <2>1. i \in 1 .. k
    BY <1>7
  <2>2. ASSUME NEW m \in DOMAIN fs[i].binds, NEW h \in DOMAIN d.binds,
               fs[i].binds[m].region = "scoped", fs[i].binds[m] = d.binds[h]
        PROVE  h = This /\ d.kind = "call"
    <3>1. h # n
      BY <1>5, <1>8, <2>1, <2>2
    <3>2. h \in DOMAIN c.binds /\ fs[i].binds[m] = c.binds[h]
      BY <1>5, <2>2, <3>1
    <3>3. QED
      BY <1>5, <1>9, <2>2, <3>2 DEF ReceiverOnly
  <2>3. QED
    BY <2>2 DEF ReceiverOnly
<1>13. Distinct(d)
  BY <1>10 DEF Distinct
<1>14. Layout(gs, gb)
  <2>1. /\ k \in Nat \ {0} /\ Len(fs) = k /\ d.kind = fs[k].kind /\ Distinct(d) /\ OwnNames(d)
        /\ \A i \in 1 .. k - 1 : ReceiverOnly(fs[i], d)
        /\ d.kind = "for" => LoopFrame(d) /\ Scoped(d)
        /\ Len(gs) = k /\ gs[k] = d /\ \A i \in 1 .. k - 1 : gs[i] = fs[i]
    BY <1>2, <1>3, <1>5, <1>6, <1>7, <1>11, <1>12, <1>13
  <2>2. QED
    BY <2>1, LayoutTop
<1>15. ASSUME NEW i \in 1 .. k, NEW t \in Entries, FrameKeeps(gs[i], t)
       PROVE  t = e \/ \E j \in 1 .. k : FrameKeeps(fs[j], t)
  <2>1. i = k \/ i \in 1 .. k - 1
    BY <1>7
  <2>2. CASE i = k
    <3>1. PICK m \in DOMAIN d.binds \cap Mine(d.lex) : d.binds[m] = t
      BY <1>6, <1>15, <2>2 DEF FrameKeeps
    <3>2. CASE m = n
      BY <1>5, <3>1, <3>2
    <3>3. CASE m # n
      <4>1. m \in DOMAIN c.binds \cap Mine(c.lex) /\ c.binds[m] = t
        BY <1>5, <3>1, <3>3 DEF Mine
      <4>2. QED
        BY <1>3, <1>7, <4>1 DEF FrameKeeps
    <3>4. QED
      BY <3>2, <3>3
  <2>3. CASE i \in 1 .. k - 1
    BY <1>6, <1>15, <2>3
  <2>4. QED
    BY <2>1, <2>2, <2>3
<1>16. QED
  BY <1>2, <1>6, <1>14, <1>15 DEF OnlyAdds

\* A variable is declared.  `S` may hold more than what is still reachable: the
\* references the frames just popped had.
LEMMA DeclareOwned ==
  ASSUME NamesOfPrograms, PlainReceivers, NEW ga, NEW sa, NEW fs, Sound(ga, sa, fs, gbinds),
         Layout(fs, gbinds), NEW vid \in Nat, NEW S \in SUBSET Entries, OneCell(S, vid),
         Owned(ga, sa, fs, gbinds) \subseteq S, NEW n, Bindable(fs, n), NEW val \in Vals,
         \A e \in Entries : Keeps(val, e) => e \in S, DeclareIn(ga, sa, fs, n, val, vid)
  PROVE  Own(garena', sarena', frames', gbinds', vid + 1)
<1>1. PICK c : c = Cell(vid, val)
  OBVIOUS
<1>2. c \in Cells /\ c.val = val
  BY <1>1 DEF Cell, Cells
<1>3. ga \in Seq(Cells) /\ sa \in Seq(Cells) /\ Len(ga) \in Nat /\ Len(sa) \in Nat
  BY LenProperties DEF Sound, GoodArena
<1>4. n \in Names
  BY DEF Bindable, Names
<1>5. \A t \in Entries : (\/ \E m \in DOMAIN gbinds : gbinds[m] = t
                          \/ \E i \in 1 .. Len(fs) : FrameKeeps(fs[i], t)
                          \/ \E i \in 1 .. Len(ga) : Keeps(ga[i].val, t)
                          \/ \E i \in 1 .. Len(sa) : Keeps(sa[i].val, t)) => t \in S
  BY DEF Owned
<1>6. PICK T : T = Owned(garena', sarena', frames', gbinds')
  OBVIOUS
<1>7. CASE fs = <<>>
  <2>1. PICK e : e = Entry("global", Len(ga) + 1, vid)
    OBVIOUS
  <2>2. /\ garena' = Append(ga, c) /\ gbinds' = Bind(gbinds, n, e)
        /\ sarena' = sa /\ frames' = fs
    BY <1>1, <1>7, <2>1 DEF DeclareIn
  <2>3. e \in Entries /\ e.vid = vid
    BY <1>3, <2>1, EntryIs DEF Regions
  <2>4. DOMAIN gbinds' = DOMAIN gbinds \cup {n} /\ gbinds'[n] = e
        /\ \A m \in DOMAIN gbinds \ {n} : gbinds'[m] = gbinds[m]
    BY <2>2 DEF Bind
  <2>5. ASSUME NEW t \in T PROVE t \in S \cup {e}
    <3>1. /\ t \in Entries
          /\ \/ \E m \in DOMAIN gbinds' : gbinds'[m] = t
             \/ \E i \in 1 .. Len(fs) : FrameKeeps(fs[i], t)
             \/ \E i \in 1 .. Len(Append(ga, c)) : Keeps(Append(ga, c)[i].val, t)
             \/ \E i \in 1 .. Len(sa) : Keeps(sa[i].val, t)
      BY <1>6, <2>2 DEF Owned
    <3>2. ASSUME NEW m \in DOMAIN gbinds', gbinds'[m] = t PROVE t \in S \cup {e}
      BY <1>5, <2>4, <3>1, <3>2
    <3>3. ASSUME NEW i \in 1 .. Len(Append(ga, c)), Keeps(Append(ga, c)[i].val, t)
          PROVE  t \in S
      <4>1. Keeps(c.val, t) \/ \E j \in 1 .. Len(ga) : Keeps(ga[j].val, t)
        BY <1>2, <1>3, <3>3, AppendKeeps
      <4>2. QED
        BY <1>2, <1>5, <3>1, <4>1
    <3>4. QED
      BY <1>5, <3>1, <3>2, <3>3
  <2>6. OneCell(T, vid + 1)
    BY <2>3, <2>5, OneCellOfMore
  <2>7. Layout(frames', gbinds')
    <3>1. n \in Globals
      BY <1>7 DEF Bindable
    <3>2. QED
      BY <2>2, <2>4, <3>1 DEF Layout
  <2>8. QED
    BY <1>6, <2>6, <2>7 DEF Own
<1>8. CASE fs # <<>>
  <2>1. PICK e : e = Entry("scoped", Len(sa) + 1, vid)
    OBVIOUS
  <2>2. /\ garena' = ga /\ sarena' = Append(sa, c) /\ gbinds' = gbinds
        /\ frames' = [fs EXCEPT ![Len(fs)].binds = Bind(@, n, e), ![Len(fs)].lex = @ \cup {n}]
    BY <1>1, <1>8, <2>1 DEF DeclareIn
  <2>3. e \in Entries /\ e.index = Len(sa) + 1 /\ e.vid = vid
    BY <1>3, <2>1, EntryIs DEF Regions
  <2>4. fs \in Seq(FrameSet)
    BY DEF Sound, GoodFrames
  <2>5. PICK gs : gs = frames' /\ gs = [fs EXCEPT ![Len(fs)] = WithName(fs[Len(fs)], n, e)]
    BY <1>8, <2>2, <2>4, NamedTop
  <2>6. Unbound(e, fs)
    BY <2>3, NewIsUnbound
  <2>7. Layout(gs, gbinds) /\ OnlyAdds(gs, fs, e)
    BY <1>4, <1>8, <2>3, <2>5, <2>6, TopBound
  <2>8. ASSUME NEW t \in T PROVE t \in S \cup {e}
    <3>1. /\ t \in Entries
          /\ \/ \E m \in DOMAIN gbinds : gbinds[m] = t
             \/ \E i \in 1 .. Len(gs) : FrameKeeps(gs[i], t)
             \/ \E i \in 1 .. Len(ga) : Keeps(ga[i].val, t)
             \/ \E i \in 1 .. Len(Append(sa, c)) : Keeps(Append(sa, c)[i].val, t)
      BY <1>6, <2>2, <2>5 DEF Owned
    <3>2. ASSUME NEW i \in 1 .. Len(Append(sa, c)), Keeps(Append(sa, c)[i].val, t)
          PROVE  t \in S
      <4>1. Keeps(c.val, t) \/ \E j \in 1 .. Len(sa) : Keeps(sa[j].val, t)
        BY <1>2, <1>3, <3>2, AppendKeeps
      <4>2. QED
        BY <1>2, <1>5, <3>1, <4>1
    <3>3. QED
      BY <1>5, <2>7, <3>1, <3>2 DEF OnlyAdds
  <2>9. OneCell(T, vid + 1)
    BY <2>3, <2>8, OneCellOfMore
  <2>10. QED
    BY <1>6, <2>2, <2>5, <2>7, <2>9 DEF Own
<1>9. QED
  BY <1>7, <1>8


\* A cell is overwritten.
LEMMA UpdatedKeeps ==
  ASSUME NEW ga, NEW a, GoodArena(a, ga), NEW i, NEW val \in Vals, GoodVal(val, ga), NEW e,
         NEW k \in 1 .. Len(Updated(a, i, val)), Keeps(Updated(a, i, val)[k].val, e)
  PROVE  Keeps(val, e) \/ \E j \in 1 .. Len(a) : Keeps(a[j].val, e)
<1>1. /\ Len(Updated(a, i, val)) = Len(a)
      /\ \A j \in 1 .. Len(a) :
           Updated(a, i, val)[j].val = IF j = i THEN val ELSE a[j].val
  BY UpdatedIs
<1>2. k \in 1 .. Len(a) /\ Updated(a, i, val)[k].val = IF k = i THEN val ELSE a[k].val
  BY <1>1
<1>3. CASE k = i
  BY <1>2, <1>3
<1>4. CASE k # i
  BY <1>2, <1>4
<1>5. QED
  BY <1>3, <1>4

LEMMA StoreOwned ==
  ASSUME NEW ga, NEW fs, Sound(ga, sarena, fs, gbinds), NEW nv,
         Own(ga, sarena, fs, gbinds, nv), NEW val \in Vals, GoodVal(val, ga),
         \A e \in Entries : Keeps(val, e) => e \in Owned(ga, sarena, fs, gbinds),
         NEW f, Store(ga, sarena, f, val)
  PROVE  Own(garena', sarena', fs, gbinds, nv)
<1>1. GoodArena(ga, ga) /\ GoodArena(sarena, ga)
  BY DEF Sound
<1>2. PICK S : S = Owned(ga, sarena, fs, gbinds)
  OBVIOUS
<1>3. \A t \in Entries : (\/ \E m \in DOMAIN gbinds : gbinds[m] = t
                          \/ \E i \in 1 .. Len(fs) : FrameKeeps(fs[i], t)
                          \/ \E i \in 1 .. Len(ga) : Keeps(ga[i].val, t)
                          \/ \E i \in 1 .. Len(sarena) : Keeps(sarena[i].val, t)) => t \in S
  BY <1>2 DEF Owned
<1>4. PICK T : T = Owned(garena', sarena', fs, gbinds)
  OBVIOUS
<1>5. ASSUME NEW t \in T PROVE t \in S
  <2>1. /\ t \in Entries
        /\ \/ \E m \in DOMAIN gbinds : gbinds[m] = t
           \/ \E i \in 1 .. Len(fs) : FrameKeeps(fs[i], t)
           \/ \E i \in 1 .. Len(garena') : Keeps(garena'[i].val, t)
           \/ \E i \in 1 .. Len(sarena') : Keeps(sarena'[i].val, t)
    BY <1>4 DEF Owned
  <2>2. CASE f.region = "global"
    <3>1. garena' = Updated(ga, f.index, val) /\ sarena' = sarena
      BY <2>2 DEF Store
    <3>2. ASSUME NEW i \in 1 .. Len(garena'), Keeps(garena'[i].val, t) PROVE t \in S
      <4>1. Keeps(val, t) \/ \E j \in 1 .. Len(ga) : Keeps(ga[j].val, t)
        BY <1>1, <3>1, <3>2, UpdatedKeeps
      <4>2. QED
        BY <1>2, <1>3, <2>1, <4>1
    <3>3. QED
      BY <1>3, <2>1, <3>1, <3>2
  <2>3. CASE f.region # "global"
    <3>1. sarena' = Updated(sarena, f.index, val) /\ garena' = ga
      BY <2>3 DEF Store
    <3>2. ASSUME NEW i \in 1 .. Len(sarena'), Keeps(sarena'[i].val, t) PROVE t \in S
      <4>1. Keeps(val, t) \/ \E j \in 1 .. Len(sarena) : Keeps(sarena[j].val, t)
        BY <1>1, <3>1, <3>2, UpdatedKeeps
      <4>2. QED
        BY <1>2, <1>3, <2>1, <4>1
    <3>3. QED
      BY <1>3, <2>1, <3>1, <3>2
  <2>4. QED
    BY <2>2, <2>3
<1>6. OneCell(T, nv)
  BY <1>2, <1>5, OneCellOfFewer DEF Own
<1>7. QED
  BY <1>4, <1>6 DEF Own

\* A frame with the bindings `S` has room for is pushed.
LEMMA PushOwned ==
  ASSUME NEW ga, NEW sa, NEW fs \in Seq(FrameSet), NEW gb, NEW S \in SUBSET Entries,
         NEW nv, OneCell(S, nv), Owned(ga, sa, fs, gb) \subseteq S, NEW c \in FrameSet,
         \A e \in Entries : FrameKeeps(c, e) => e \in S, Layout(Append(fs, c), gb)
  PROVE  Own(ga, sa, Append(fs, c), gb, nv)
<1>1. PICK gs, T : gs = Append(fs, c) /\ T = Owned(ga, sa, gs, gb)
  OBVIOUS
<1>2. /\ Len(gs) = Len(fs) + 1 /\ gs[Len(fs) + 1] = c /\ Len(fs) \in Nat
      /\ \A i \in 1 .. Len(fs) : gs[i] = fs[i]
  BY <1>1, AppendProperties, LenProperties
<1>3. ASSUME NEW t \in T PROVE t \in S
  <2>1. /\ t \in Entries
        /\ \/ \E m \in DOMAIN gb : gb[m] = t
           \/ \E i \in 1 .. Len(gs) : FrameKeeps(gs[i], t)
           \/ \E i \in 1 .. Len(ga) : Keeps(ga[i].val, t)
           \/ \E i \in 1 .. Len(sa) : Keeps(sa[i].val, t)
    BY <1>1 DEF Owned
  <2>2. ASSUME NEW i \in 1 .. Len(gs), FrameKeeps(gs[i], t) PROVE t \in S
    <3>1. i \in 1 .. Len(fs) \/ i = Len(fs) + 1
      BY <1>2
    <3>2. CASE i \in 1 .. Len(fs)
      BY <1>2, <2>1, <2>2, <3>2 DEF Owned
    <3>3. CASE i = Len(fs) + 1
      BY <1>2, <2>1, <2>2, <3>3
    <3>4. QED
      BY <3>1, <3>2, <3>3
  <2>3. QED
    BY <2>1, <2>2 DEF Owned
<1>4. OneCell(T, nv)
  BY <1>3, OneCellOfFewer
<1>5. QED
  BY <1>1, <1>4 DEF Own

\* A cell of plain data is allocated.
LEMMA AllocOwned ==
  ASSUME NEW ga \in Seq(Cells), NEW sa \in Seq(Cells), NEW fs, NEW gb,
         NEW c \in Cells, c.val = Data
  PROVE  /\ Owned(ga, Append(sa, c), fs, gb) \subseteq Owned(ga, sa, fs, gb)
         /\ Owned(Append(ga, c), sa, fs, gb) \subseteq Owned(ga, sa, fs, gb)
<1>1. ASSUME NEW a \in Seq(Cells), NEW t, NEW i \in 1 .. Len(Append(a, c)),
             Keeps(Append(a, c)[i].val, t)
      PROVE  \E j \in 1 .. Len(a) : Keeps(a[j].val, t)
  BY <1>1, AppendKeeps, DataKeeps
<1>2. QED
  BY <1>1 DEF Owned

\* A statement may follow.
EndsABody(fs) == fs # <<>> => fs[Len(fs)].kind # "for"

\* Frames and the cells above their watermark are popped.
LEMMA PopOwned ==
  ASSUME NEW ga, NEW sa, NEW fs, NEW gb, Sound(ga, sa, fs, gb), NEW depth \in 0 .. Len(fs) - 1,
         NEW m, m = fs[depth + 1].mark, Layout(fs, gb)
  PROVE  /\ Layout(SubSeq(fs, 1, depth), gb)
         /\ Owned(ga, SubSeq(sa, 1, m), SubSeq(fs, 1, depth), gb) \subseteq Owned(ga, sa, fs, gb)
         /\ fs[depth + 1].kind # "block" => EndsABody(SubSeq(fs, 1, depth))
<1>1. fs \in Seq(FrameSet) /\ Len(fs) \in Nat /\ sa \in Seq(Cells) /\ Len(sa) \in Nat
  BY LenProperties DEF Sound, GoodFrames, GoodArena
<1>0. PICK gs, s : gs = SubSeq(fs, 1, depth) /\ s = SubSeq(sa, 1, m)
  OBVIOUS
<1>2. /\ Sound(ga, s, gs, gb) /\ Len(gs) = depth /\ m \in Nat /\ Len(s) = m
      /\ \A i \in 1 .. depth : gs[i] = fs[i]
      /\ \A i \in 1 .. m : s[i] = sa[i]
  BY <1>0, PopIsSound
<1>3. m <= Len(sa)
  <2>1. depth + 1 \in 1 .. Len(fs)
    BY <1>1
  <2>2. GoodFrame(fs[depth + 1], ga, sa)
    BY <2>1 DEF Sound, GoodFrames
  <2>3. QED
    BY <2>2 DEF GoodFrame
<1>4. \A i \in 1 .. depth : i \in 1 .. Len(fs)
  BY <1>1
<1>5. \A i \in 1 .. m : i \in 1 .. Len(sa)
  BY <1>1, <1>2, <1>3
<1>6. Owned(ga, s, gs, gb) \subseteq Owned(ga, sa, fs, gb)
  BY <1>2, <1>4, <1>5 DEF Owned
<1>7. /\ Layout(gs, gb)
      /\ \A i \in 1 .. depth : i = depth /\ fs[depth + 1].kind # "block" => gs[i].kind # "for"
  BY <1>0, <1>1, <1>2, LayoutPopped
<1>8. gs # <<>> => Len(gs) \in 1 .. depth
  <2>1. gs \in Seq(FrameSet)
    BY <1>2 DEF Sound, GoodFrames
  <2>2. QED
    BY <1>2, <2>1, LastIsIn
<1>9. QED
  <2>1. fs[depth + 1].kind # "block" => EndsABody(gs)
    BY <1>2, <1>7, <1>8 DEF EndsABody
  <2>2. QED
    BY <1>0, <1>6, <1>7, <2>1



-----------------------------------------------------------------------------
(* Every step leaves one cell for each variable. *)

OwnNext == Own(garena', sarena', frames', gbinds', vids')
Whole == Inv /\ OwnNow

LEMMA WholeIs ==
  ASSUME Whole
  PROVE  /\ SoundNow /\ OwnNow /\ Sound(garena, sarena, frames, gbinds) /\ vids \in Nat
         /\ frames \in Seq(FrameSet) /\ garena \in Seq(Cells) /\ sarena \in Seq(Cells)
         /\ Len(frames) \in Nat /\ Len(garena) \in Nat /\ Len(sarena) \in Nat
         /\ OwnedNow \in SUBSET Entries /\ OneCell(OwnedNow, vids) /\ Layout(frames, gbinds)
         /\ OwnedNow = Owned(garena, sarena, frames, gbinds)
<1>1. SoundNow /\ OwnNow /\ vids \in Nat
  BY DEF Whole, Inv, Counted
<1>2. /\ frames \in Seq(FrameSet) /\ garena \in Seq(Cells) /\ sarena \in Seq(Cells)
      /\ Sound(garena, sarena, frames, gbinds)
  BY <1>1 DEF SoundNow, Sound, GoodFrames, GoodArena
<1>3. Len(frames) \in Nat /\ Len(garena) \in Nat /\ Len(sarena) \in Nat
  BY <1>2, LenProperties
<1>4. OwnedNow \in SUBSET Entries
  BY DEF OwnedNow, Owned
<1>5. OneCell(OwnedNow, vids) /\ Layout(frames, gbinds)
  BY <1>1 DEF OwnNow, Own, OwnedNow
<1>6. QED
  BY <1>1, <1>2, <1>3, <1>4, <1>5 DEF OwnedNow

LEMMA HereIsBindable ==
  ASSUME Running, NEW n \in Here
  PROVE  Bindable(frames, n)
  BY DEF Bindable, Here, Running

\* A value at hand keeps nothing new.
LEMMA ValuesAreOwned ==
  ASSUME PlainCalls, SoundNow, NEW val \in Values, NEW e \in Entries, Keeps(val, e)
  PROVE  e \in OwnedNow
<1>1. CASE val = Data
  BY <1>1, DataKeeps
<1>2. ASSUME NEW m \in LexVisible, val = Value(Lookup(m)) PROVE e \in OwnedNow
  <2>1. Lookup(m) \in Entries
    BY VisibleIsBound, LookupIsGood
  <2>2. QED
    BY <1>2, <2>1, ValueKeeps
<1>3. QED
  BY <1>1, <1>2 DEF Values, PlainCalls

LEMMA LetOwned ==
  ASSUME NamesOfPrograms, PlainCalls, PlainReceivers, Whole, NEW n, NEW val \in Values,
         Let(n, val)
  PROVE  OwnNext
<1>1. /\ Sound(garena, sarena, frames, gbinds) /\ vids \in Nat /\ SoundNow
      /\ OwnedNow \in SUBSET Entries /\ OneCell(OwnedNow, vids) /\ Layout(frames, gbinds)
      /\ Owned(garena, sarena, frames, gbinds) \subseteq OwnedNow
  BY WholeIs
<1>2. Bindable(frames, n) /\ vids' = vids + 1
      /\ DeclareIn(garena, sarena, frames, n, val, vids)
  BY HereIsBindable DEF Let, NewVid
<1>3. val \in Vals
  BY <1>1, ValuesAreGood
<1>4. \A e \in Entries : Keeps(val, e) => e \in OwnedNow
  BY <1>1, ValuesAreOwned
<1>5. Own(garena', sarena', frames', gbinds', vids + 1)
  BY <1>1, <1>2, <1>3, <1>4, DeclareOwned
<1>6. QED
  BY <1>2, <1>5 DEF OwnNext

LEMMA MadeOwned ==
  ASSUME NamesOfPrograms, PlainReceivers, Whole, Running, NEW n \in Here, NEW l,
         IsMade(l), IsOwn(l), DeclareIn(l.ga, sarena, l.fs, n, l.val, vids), vids' = vids + 1
  PROVE  OwnNext
<1>1. PICK ga, fs, val : ga = l.ga /\ fs = l.fs /\ val = l.val
  OBVIOUS
<1>2. PICK S : S = Owned(ga, sarena, fs, gbinds)
  OBVIOUS
<1>3. /\ Sound(ga, sarena, fs, gbinds) /\ val \in Vals
      /\ Own(ga, sarena, fs, gbinds, vids) /\ \A e \in Entries : Keeps(val, e) => e \in S
      /\ Len(fs) = Len(frames) /\ \A i \in 1 .. Len(frames) : fs[i].kind = frames[i].kind
      /\ DeclareIn(ga, sarena, fs, n, val, vids)
  BY <1>1, <1>2 DEF IsMade, IsOwn
<1>4. S \in SUBSET Entries /\ OneCell(S, vids) /\ Layout(fs, gbinds)
  BY <1>2, <1>3 DEF Own, Owned
<1>5. vids \in Nat /\ frames \in Seq(FrameSet)
  BY WholeIs
<1>6. Bindable(fs, n)
  <2>1. fs \in Seq(FrameSet)
    BY <1>3 DEF Sound, GoodFrames
  <2>2. fs = <<>> <=> frames = <<>>
    BY <1>3, <1>5, <2>1, EmptySeq
  <2>3. frames # <<>> => Len(frames) \in 1 .. Len(frames)
    BY <1>5, LastIsIn
  <2>4. Bindable(frames, n)
    BY HereIsBindable
  <2>5. QED
    BY <1>3, <2>2, <2>3, <2>4 DEF Bindable
<1>7. Own(garena', sarena', frames', gbinds', vids + 1)
  BY <1>2, <1>3, <1>4, <1>5, <1>6, DeclareOwned
<1>8. QED
  BY <1>7 DEF OwnNext

LEMMA AssignOwned ==
  ASSUME NamesOfPrograms, PlainCalls, Whole, NEW n, NEW val \in Values, Assign(n, val)
  PROVE  OwnNext
<1>1. Sound(garena, sarena, frames, gbinds) /\ SoundNow /\ OwnNow
  BY WholeIs
<1>2. /\ Store(garena, sarena, Lookup(n), val) /\ frames' = frames /\ gbinds' = gbinds
      /\ vids' = vids
  BY DEF Assign
<1>3. val \in Vals /\ GoodVal(val, garena)
  BY <1>1, ValuesAreGood
<1>4. \A e \in Entries : Keeps(val, e) => e \in Owned(garena, sarena, frames, gbinds)
  BY <1>1, ValuesAreOwned DEF OwnedNow
<1>5. Own(garena, sarena, frames, gbinds, vids)
  BY <1>1 DEF OwnNow
<1>6. Own(garena', sarena', frames, gbinds, vids)
  BY <1>1, <1>2, <1>3, <1>4, <1>5, StoreOwned
<1>7. QED
  BY <1>2, <1>6 DEF OwnNext

LEMMA StoreMadeOwned ==
  ASSUME NEW l, IsMade(l), IsOwn(l), NEW e, NEW val \in Vals, GoodVal(val, l.ga),
         val.caps = l.val.caps, val.lex = l.val.lex,
         Store(l.ga, sarena, e, val), frames' = l.fs, gbinds' = gbinds, vids' = vids
  PROVE  OwnNext
<1>1. PICK ga, fs, v : ga = l.ga /\ fs = l.fs /\ v = l.val
  OBVIOUS
<1>2. /\ Sound(ga, sarena, fs, gbinds) /\ Own(ga, sarena, fs, gbinds, vids)
      /\ \A t \in Entries : Keeps(v, t) => t \in Owned(ga, sarena, fs, gbinds)
      /\ GoodVal(val, ga) /\ Store(ga, sarena, e, val) /\ frames' = fs
  BY <1>1 DEF IsMade, IsOwn
<1>3. \A t \in Entries : Keeps(val, t) => t \in Owned(ga, sarena, fs, gbinds)
  BY <1>1, <1>2 DEF Keeps
<1>4. Own(garena', sarena', fs, gbinds, vids)
  BY <1>2, <1>3, StoreOwned
<1>5. QED
  BY <1>2, <1>4 DEF OwnNext

LEMMA AssignLambdaOwned ==
  ASSUME NamesOfPrograms, Whole, NEW n, NEW mentions \in SUBSET LexVisible,
         AssignLambda(n, mentions)
  PROVE  OwnNext
<1>1. PICK l : l = Lambda(mentions)
  OBVIOUS
<1>2. SoundNow /\ OwnNow /\ Running
  BY WholeIs DEF AssignLambda
<1>3. IsMade(l) /\ IsOwn(l)
  BY <1>1, <1>2, LambdaIsSound, LambdaOwned
<1>4. PICK e : Store(l.ga, sarena, e, l.val)
  BY <1>1 DEF AssignLambda
<1>5. frames' = l.fs /\ gbinds' = gbinds /\ vids' = vids
  BY <1>1 DEF AssignLambda
<1>6. l.val \in Vals /\ GoodVal(l.val, l.ga)
  BY <1>3 DEF IsMade
<1>7. QED
  BY <1>3, <1>4, <1>5, <1>6, StoreMadeOwned

LEMMA SetFieldOwned ==
  ASSUME NamesOfPrograms, Whole, NEW n, NEW mentions \in SUBSET LexVisible,
         SetFieldLambda(n, mentions)
  PROVE  OwnNext
<1>1. PICK l : l = Lambda(mentions)
  OBVIOUS
<1>2. SoundNow /\ OwnNow /\ Running
  BY WholeIs DEF SetFieldLambda
<1>3. IsMade(l) /\ IsOwn(l)
  BY <1>1, <1>2, LambdaIsSound, LambdaOwned
<1>4. PICK e, val : Store(l.ga, sarena, e, val) /\ val = [l.val EXCEPT !.fn = FALSE]
  BY <1>1 DEF SetFieldLambda
<1>5. frames' = l.fs /\ gbinds' = gbinds /\ vids' = vids
  BY <1>1 DEF SetFieldLambda
<1>6. PICK v : v = l.val
  OBVIOUS
<1>7. v \in Vals /\ GoodVal(v, l.ga)
  BY <1>3, <1>6 DEF IsMade
<1>8. val \in Vals /\ GoodVal(val, l.ga) /\ val.caps = v.caps /\ val.lex = v.lex
  BY <1>4, <1>6, <1>7 DEF Vals, GoodVal
<1>9. QED
  BY <1>3, <1>4, <1>5, <1>6, <1>8, StoreMadeOwned

\* Only the innermost loop can be between two bodies.
LEMMA LoopsBelow ==
  ASSUME Whole, Running
  PROVE  \A i \in 1 .. Len(frames) : frames[i].kind = "for" =>
           ~frames[i].fresh /\ i # Len(frames)
<1>1. /\ Loops(frames) /\ frames \in Seq(FrameSet)
  BY WholeIs DEF Layout
<1>2. frames # <<>> => frames[Len(frames)].kind # "for"
  BY DEF Running
<1>3. Len(frames) # 0 => frames # <<>>
  BY <1>1, EmptySeq
<1>4. ASSUME NEW i \in 1 .. Len(frames), frames[i].kind = "for"
      PROVE  ~frames[i].fresh /\ i # Len(frames)
  <2>1. frames # <<>>
    BY <1>1, EmptySeq
  <2>2. QED
    BY <1>1, <1>2, <1>4, <2>1 DEF Loops
<1>5. QED
  BY <1>4


OnlyKeeps(c, e) == \A t \in Entries : FrameKeeps(c, t) => t = e

\* A frame with one name is pushed: its cell is new, or it is a receiver's.
LEMMA OneNamePushed ==
  ASSUME NamesOfPrograms, Whole, Running, NEW kind \in FrameKinds, NEW mark \in Nat,
         NEW n \in Names, n \notin Globals, NEW e \in Entries,
         kind = "for" => e.region = "scoped",
         Unbound(e, frames) \/ (n = This /\ kind = "call"),
         NEW c, c = Frame(kind, mark, Bind(NoBinds, n, e), {n}, NoName)
  PROVE  c \in FrameSet /\ Layout(Append(frames, c), gbinds) /\ OnlyKeeps(c, e)
<1>1. PICK b : b = Bind(NoBinds, n, e)
  OBVIOUS
<1>2. b \in BindingsOf(Entries) /\ DOMAIN b = {n} /\ b[n] = e
  BY <1>1, OneBinding
<1>3. c \in FrameSet /\ c.kind = kind /\ c.binds = b /\ c.lex = {n}
  BY <1>1, <1>2 DEF Frame, FrameSet
<1>4. Distinct(c) /\ OwnNames(c)
  BY <1>2, <1>3 DEF Distinct, OwnNames
<1>5. \A t \in Entries : FrameKeeps(c, t) => t = e
  BY <1>2, <1>3 DEF FrameKeeps
<1>6. ASSUME NEW i \in 1 .. Len(frames) PROVE ReceiverOnly(frames[i], c)
  BY <1>2, <1>3 DEF ReceiverOnly, Unbound
<1>7. /\ frames \in Seq(FrameSet) /\ Layout(frames, gbinds)
      /\ \A i \in 1 .. Len(frames) : frames[i].kind = "for" =>
           ~frames[i].fresh /\ (i = Len(frames) => c.kind = "block")
  BY WholeIs, LoopsBelow
<1>8. c.kind = "for" => LoopFrame(c) /\ Scoped(c)
  BY <1>2, <1>3 DEF LoopFrame, Scoped
<1>9. Layout(Append(frames, c), gbinds)
  BY <1>3, <1>4, <1>6, <1>7, <1>8, LayoutPushed
<1>10. QED
  BY <1>3, <1>5, <1>9 DEF OnlyKeeps

LEMMA EnterForOwned ==
  ASSUME NamesOfPrograms, PlainReceivers, Whole, NEW n, EnterFor(n)
  PROVE  OwnNext
<1>1. PICK e, cell : e = Entry("scoped", Len(sarena) + 1, vids) /\ cell = Cell(vids, Data)
  OBVIOUS
<1>2. PICK c : c = Frame("for", Len(sarena), Bind(NoBinds, n, e), {n}, NoName)
  OBVIOUS
<1>3. /\ frames' = Append(frames, c) /\ sarena' = Append(sarena, cell) /\ garena' = garena
      /\ gbinds' = gbinds /\ vids' = vids + 1 /\ Running /\ n \in Locals
  BY <1>1, <1>2 DEF EnterFor, Push, NewVid
<1>4. n \in Names /\ n \notin Globals
  BY <1>3 DEF Names, PlainReceivers
<1>5. /\ frames \in Seq(FrameSet) /\ garena \in Seq(Cells) /\ sarena \in Seq(Cells)
      /\ Sound(garena, sarena, frames, gbinds) /\ vids \in Nat /\ Len(sarena) \in Nat
      /\ OwnedNow \in SUBSET Entries /\ OneCell(OwnedNow, vids)
      /\ OwnedNow = Owned(garena, sarena, frames, gbinds)
  BY WholeIs
<1>6. /\ e \in Entries /\ e.region = "scoped" /\ e.index = Len(sarena) + 1 /\ e.vid = vids
      /\ cell \in Cells /\ cell.val = Data
  BY <1>1, <1>5, EntryIs, DataIsGood DEF Regions, Cell, Cells
<1>7. Unbound(e, frames)
  BY <1>5, <1>6, NewIsUnbound
<1>8. c \in FrameSet /\ Layout(Append(frames, c), gbinds) /\ OnlyKeeps(c, e)
  <2>1. "for" \in FrameKinds
    BY DEF FrameKinds
  <2>2. QED
    BY <1>2, <1>3, <1>4, <1>5, <1>6, <1>7, <2>1, OneNamePushed
<1>9. PICK S : S = OwnedNow \cup {e}
  OBVIOUS
<1>10. /\ S \in SUBSET Entries /\ OneCell(S, vids + 1)
       /\ Owned(garena, Append(sarena, cell), frames, gbinds) \subseteq S
       /\ \A t \in Entries : FrameKeeps(c, t) => t \in S
  BY <1>5, <1>6, <1>8, <1>9, AllocOwned, OneCellOfMore DEF OnlyKeeps
<1>11. Own(garena, Append(sarena, cell), Append(frames, c), gbinds, vids + 1)
  BY <1>5, <1>8, <1>10, PushOwned
<1>12. QED
  BY <1>3, <1>11 DEF OwnNext

LEMMA CallMethodOwned ==
  ASSUME NamesOfPrograms, PlainReceivers, Whole, NEW o \in LexVisible, NEW mentions,
         CallMethod(o, mentions)
  PROVE  OwnNext
<1>1. PICK e, c : e = Lookup(o) /\ c = Frame("call", Len(sarena), Bind(NoBinds, This, e), {This}, NoName)
  OBVIOUS
<1>2. /\ frames' = Append(frames, c) /\ sarena' = sarena /\ garena' = garena
      /\ gbinds' = gbinds /\ vids' = vids /\ Running
  BY <1>1 DEF CallMethod, Push, PlainReceivers
<1>3. This \in Names /\ This \notin Globals
  BY DEF Names, NamesOfPrograms
<1>4. /\ SoundNow /\ OwnNow /\ frames \in Seq(FrameSet) /\ Len(sarena) \in Nat
      /\ OwnedNow \in SUBSET Entries /\ OneCell(OwnedNow, vids)
      /\ Owned(garena, sarena, frames, gbinds) \subseteq OwnedNow
  BY WholeIs
<1>5. e \in OwnedNow /\ e \in Entries
  BY <1>1, <1>4, LookupIsOwned DEF LexVisible
<1>6. c \in FrameSet /\ Layout(Append(frames, c), gbinds) /\ OnlyKeeps(c, e)
  <2>1. "call" \in FrameKinds
    BY DEF FrameKinds
  <2>2. QED
    BY <1>1, <1>2, <1>3, <1>4, <1>5, <2>1, OneNamePushed
<1>7. \A t \in Entries : FrameKeeps(c, t) => t \in OwnedNow
  BY <1>5, <1>6 DEF OnlyKeeps
<1>8. Own(garena, sarena, Append(frames, c), gbinds, vids)
  BY <1>4, <1>6, <1>7, PushOwned
<1>9. QED
  BY <1>2, <1>8 DEF OwnNext

LEMMA StartNewOwned ==
  ASSUME NamesOfPrograms, Whole, StartNew
  PROVE  OwnNext
<1>1. PICK cell, e : /\ cell = Cell(vids, Data)
                     /\ e = IF frames = <<>> THEN Entry("global", Len(garena) + 1, vids)
                            ELSE Entry("scoped", Len(sarena) + 1, vids)
  OBVIOUS
<1>2. PICK c : c = Frame("new", Len(sarena'), Bind(NoBinds, This, e), {This}, NoName)
  OBVIOUS
<1>3. /\ garena' = IF frames = <<>> THEN Append(garena, cell) ELSE garena
      /\ sarena' = IF frames = <<>> THEN sarena ELSE Append(sarena, cell)
      /\ frames' = Append(frames, c) /\ gbinds' = gbinds /\ vids' = vids + 1 /\ Running
  BY <1>1, <1>2 DEF StartNew, NewVid
<1>4. This \in Names /\ This \notin Globals
  BY DEF Names, NamesOfPrograms
<1>5. /\ frames \in Seq(FrameSet) /\ garena \in Seq(Cells) /\ sarena \in Seq(Cells)
      /\ Sound(garena, sarena, frames, gbinds) /\ vids \in Nat /\ Len(sarena) \in Nat
      /\ Len(garena) \in Nat /\ OwnedNow \in SUBSET Entries /\ OneCell(OwnedNow, vids)
      /\ OwnedNow = Owned(garena, sarena, frames, gbinds)
  BY WholeIs
<1>6. cell \in Cells /\ cell.val = Data
  BY <1>1, <1>5, DataIsGood DEF Cell, Cells
<1>7. /\ e \in Entries /\ e.vid = vids
      /\ e.region = "scoped" => e.index = Len(sarena) + 1
  BY <1>1, <1>5, EntryIs DEF Regions
<1>8. Unbound(e, frames)
  BY <1>5, <1>7, NewIsUnbound
<1>9. sarena' \in Seq(Cells) /\ Len(sarena') \in Nat
  <2>1. Append(sarena, cell) \in Seq(Cells)
    BY <1>5, <1>6, AppendProperties
  <2>2. sarena' \in Seq(Cells)
    BY <1>3, <1>5, <2>1
  <2>3. QED
    BY <2>2, LenProperties
<1>10. c \in FrameSet /\ Layout(Append(frames, c), gbinds) /\ OnlyKeeps(c, e)
  <2>1. "new" \in FrameKinds
    BY DEF FrameKinds
  <2>2. PICK mark \in Nat : mark = Len(sarena')
    BY <1>9
  <2>3. c = Frame("new", mark, Bind(NoBinds, This, e), {This}, NoName)
    BY <1>2, <2>2
  <2>4. QED
    BY <1>3, <1>4, <1>5, <1>7, <1>8, <2>1, <2>2, <2>3, OneNamePushed
<1>11. PICK S : S = OwnedNow \cup {e}
  OBVIOUS
<1>12. Owned(garena', sarena', frames, gbinds) \subseteq OwnedNow
  BY <1>3, <1>5, <1>6, AllocOwned
<1>13. /\ S \in SUBSET Entries /\ OneCell(S, vids + 1)
       /\ Owned(garena', sarena', frames, gbinds) \subseteq S
       /\ \A t \in Entries : FrameKeeps(c, t) => t \in S
  BY <1>5, <1>7, <1>10, <1>11, <1>12, OneCellOfMore DEF OnlyKeeps
<1>14. Own(garena', sarena', Append(frames, c), gbinds, vids + 1)
  BY <1>5, <1>10, <1>13, PushOwned
<1>15. QED
  BY <1>3, <1>14 DEF OwnNext

LEMMA CallOwned ==
  ASSUME NamesOfPrograms, PlainCalls, Whole, NEW f \in LexVisible, Call(f)
  PROVE  OwnNext
<1>1. PICK val : val = Value(Lookup(f))
  OBVIOUS
<1>2. /\ SoundNow /\ frames \in Seq(FrameSet) /\ Len(sarena) \in Nat
      /\ OwnedNow \in SUBSET Entries /\ OneCell(OwnedNow, vids) /\ Layout(frames, gbinds)
      /\ Owned(garena, sarena, frames, gbinds) \subseteq OwnedNow
  BY WholeIs
<1>3. Lookup(f) \in Entries
  BY <1>2, VisibleIsBound, LookupIsGood
<1>4. val \in Vals
  BY <1>1, <1>2, <1>3, ValueIsGood
<1>5. \A t \in Entries : Keeps(val, t) => t \in OwnedNow
  BY <1>1, <1>2, <1>3, ValueKeeps
<1>6. PICK c : c = Frame("call", Len(sarena), val.caps, val.lex, val.self)
  OBVIOUS
<1>7. /\ frames' = Append(frames, c) /\ sarena' = sarena /\ garena' = garena
      /\ gbinds' = gbinds /\ vids' = vids /\ Running
  BY <1>1, <1>6 DEF Call, Push, PlainCalls
<1>8. /\ val.caps \in BindingsOf(GlobalEntries) /\ val.lex \in SUBSET Names
      /\ val.self \in Names \cup {NoName}
      /\ \A n \in DOMAIN val.caps : val.caps[n] \in GlobalEntries
  BY <1>4, BindingTypes DEF Vals
<1>9. val.caps \in BindingsOf(Entries)
  BY <1>8, GlobalBindings
<1>10. c \in FrameSet /\ c.kind = "call" /\ c.binds = val.caps /\ c.lex = val.lex
  BY <1>2, <1>6, <1>8, <1>9 DEF FrameKinds, Frame, FrameSet
<1>11. \A n \in DOMAIN c.binds : c.binds[n].region # "scoped"
  BY <1>8, <1>10 DEF GlobalEntries
<1>12. Distinct(c) /\ OwnNames(c)
  BY <1>10, <1>11 DEF Distinct, OwnNames
<1>13. ASSUME NEW i \in 1 .. Len(frames) PROVE ReceiverOnly(frames[i], c)
  BY <1>11 DEF ReceiverOnly
<1>14. \A i \in 1 .. Len(frames) : frames[i].kind = "for" =>
         ~frames[i].fresh /\ (i = Len(frames) => c.kind = "block")
  BY <1>7, LoopsBelow
<1>15. Layout(Append(frames, c), gbinds)
  BY <1>2, <1>10, <1>12, <1>13, <1>14, LayoutPushed
<1>16. \A t \in Entries : FrameKeeps(c, t) => t \in OwnedNow
  BY <1>5, <1>10 DEF FrameKeeps, Keeps
<1>17. Own(garena, sarena, Append(frames, c), gbinds, vids)
  BY <1>2, <1>10, <1>15, <1>16, PushOwned
<1>18. QED
  BY <1>7, <1>17 DEF OwnNext


\* Frames whose bindings are the same own the same.
LEMMA SameOwned ==
  ASSUME NEW ga, NEW sa, NEW fs, NEW gb, NEW gs, Len(gs) = Len(fs),
         \A i \in 1 .. Len(fs) : gs[i].binds = fs[i].binds /\ gs[i].lex = fs[i].lex
  PROVE  Owned(ga, sa, gs, gb) = Owned(ga, sa, fs, gb)
<1>1. \A i \in 1 .. Len(fs), t \in Entries : FrameKeeps(gs[i], t) <=> FrameKeeps(fs[i], t)
  BY DEF FrameKeeps
<1>2. QED
  BY <1>1 DEF Owned

LEMMA EnterBlockOwned ==
  ASSUME NamesOfPrograms, Whole, EnterBlock
  PROVE  OwnNext
<1> DEFINE gs == [i \in DOMAIN frames |->
                    [frames[i] EXCEPT !.fresh = @ /\ frames[i].kind # "for"]]
           c == Frame("block", Len(sarena), NoBinds, {}, NoName)
<1>1. frames' = Append(gs, c) /\ garena' = garena /\ sarena' = sarena /\ gbinds' = gbinds
      /\ vids' = vids
  BY DEF EnterBlock, Push
<1>2. /\ frames \in Seq(FrameSet) /\ Len(frames) \in Nat /\ Len(sarena) \in Nat
      /\ OwnedNow \in SUBSET Entries /\ OneCell(OwnedNow, vids) /\ Layout(frames, gbinds)
      /\ OwnedNow = Owned(garena, sarena, frames, gbinds)
  BY WholeIs
<1>3. DOMAIN frames = 1 .. Len(frames)
  BY <1>2, LenProperties
<1>4. ASSUME NEW i \in 1 .. Len(frames)
      PROVE  /\ gs[i] \in FrameSet /\ gs[i].kind = frames[i].kind
             /\ gs[i].binds = frames[i].binds /\ gs[i].lex = frames[i].lex
             /\ frames[i].kind = "for" => ~gs[i].fresh
  <2>1. frames[i] \in FrameSet
    BY <1>2, ElementOfSeq
  <2>2. PICK b \in BOOLEAN : /\ b = (frames[i].fresh /\ frames[i].kind # "for")
                             /\ gs[i] = [frames[i] EXCEPT !.fresh = b]
    BY <1>3
  <2>3. ASSUME frames[i].kind = "for" PROVE ~gs[i].fresh
    <3>1. gs[i] = [frames[i] EXCEPT !.fresh = FALSE]
      BY <2>2, <2>3
    <3>2. QED
      BY <2>1, <3>1 DEF FrameSet
  <2>4. PICK late \in BOOLEAN : gs[i] = [frames[i] EXCEPT !.fresh = late]
    BY <2>2
  <2>5. /\ gs[i] \in FrameSet /\ gs[i].kind = frames[i].kind
        /\ gs[i].binds = frames[i].binds /\ gs[i].lex = frames[i].lex
    BY <2>1, <2>4 DEF FrameSet
  <2>6. QED
    BY <2>3, <2>5
<1>5. gs \in [1 .. Len(frames) -> FrameSet]
  BY <1>3, <1>4
<1> HIDE DEF gs
<1>6. gs \in Seq(FrameSet) /\ Len(gs) = Len(frames)
  BY <1>2, <1>5, SeqDef, LenProperties
<1>7. DOMAIN NoBinds = {} /\ NoBinds = [n \in DOMAIN NoBinds |-> NoBinds[n]]
  BY DEF NoBinds
<1>8. NoBinds \in BindingsOf(Entries)
  BY <1>7, BindingIs
<1>9. c \in FrameSet /\ c.kind = "block" /\ c.binds = NoBinds /\ c.lex = {}
  BY <1>2, <1>8 DEF FrameKinds, Frame, FrameSet
<1> HIDE DEF c
<1>10. Distinct(c) /\ OwnNames(c) /\ \A t : ~FrameKeeps(c, t)
  BY <1>7, <1>9 DEF Distinct, OwnNames, FrameKeeps
<1>11. \A i \in 1 .. Len(gs) : ReceiverOnly(gs[i], c)
  BY <1>7, <1>9 DEF ReceiverOnly
<1>12. Layout(gs, gbinds)
  <2>1. \A i \in 1 .. Len(frames) : Distinct(gs[i]) /\ OwnNames(gs[i])
    BY <1>2, <1>4 DEF Layout, Alias, Distinct, OwnNames
  <2>2. ASSUME NEW i \in 1 .. Len(frames), NEW j \in 1 .. Len(frames), i < j
        PROVE  ReceiverOnly(gs[i], gs[j])
    <3>1. ReceiverOnly(frames[i], frames[j])
      BY <1>2, <2>2 DEF Layout, Alias
    <3>2. QED
      BY <1>4, <3>1 DEF ReceiverOnly
  <2>3. ASSUME NEW i \in 1 .. Len(frames), gs[i].kind = "for"
        PROVE  /\ LoopFrame(gs[i]) /\ ~gs[i].fresh
               /\ i < Len(frames) => gs[i + 1].kind = "block"
    <3>1. /\ LoopFrame(frames[i])
          /\ i < Len(frames) => frames[i + 1].kind = "block"
      BY <1>2, <1>4, <2>3 DEF Layout, Loops
    <3>2. i < Len(frames) => i + 1 \in 1 .. Len(frames)
      BY <1>2
    <3>3. LoopFrame(gs[i])
      BY <1>4, <3>1 DEF LoopFrame
    <3>4. QED
      BY <1>4, <2>3, <3>1, <3>2, <3>3
  <2>4. Loops(gs)
    BY <1>6, <2>3 DEF Loops
  <2>5. Alias(gs)
    BY <1>6, <2>1, <2>2 DEF Alias
  <2>6. QED
    BY <1>2, <1>6, <2>1, <2>4, <2>5 DEF Layout
<1>13. \A i \in 1 .. Len(gs) : gs[i].kind = "for" =>
         ~gs[i].fresh /\ (i = Len(gs) => c.kind = "block")
  BY <1>4, <1>6, <1>9
<1>14. Layout(Append(gs, c), gbinds)
  BY <1>6, <1>9, <1>10, <1>11, <1>12, <1>13, LayoutPushed
<1>15. Owned(garena, sarena, gs, gbinds) = OwnedNow
  BY <1>2, <1>4, <1>6, SameOwned
<1>16. \A t \in Entries : FrameKeeps(c, t) => t \in OwnedNow
  BY <1>10
<1>17. Own(garena, sarena, Append(gs, c), gbinds, vids)
  BY <1>2, <1>6, <1>9, <1>14, <1>15, <1>16, PushOwned
<1>18. QED
  BY <1>1, <1>17 DEF OwnNext

LEMMA ExitBlockOwned ==
  ASSUME Whole, ExitBlock
  PROVE  OwnNext
<1>1. /\ frames \in Seq(FrameSet) /\ Sound(garena, sarena, frames, gbinds)
      /\ OneCell(OwnedNow, vids) /\ Layout(frames, gbinds)
      /\ OwnedNow = Owned(garena, sarena, frames, gbinds)
  BY WholeIs
<1>2. Len(frames) \in Nat \ {0}
  BY <1>1, EmptySeq, LenProperties DEF ExitBlock
<1>3. PICK d, m : /\ d = Len(frames) - 1 /\ d \in 0 .. Len(frames) - 1
                  /\ m = frames[d + 1].mark
  BY <1>2
<1>4. PICK gs, s : gs = SubSeq(frames, 1, d) /\ s = SubSeq(sarena, 1, m)
  OBVIOUS
<1>5. /\ frames' = gs /\ sarena' = s
      /\ garena' = garena /\ gbinds' = gbinds /\ vids' = vids
  BY <1>3, <1>4 DEF ExitBlock, Truncated, Front
<1>6. Layout(gs, gbinds) /\ Owned(garena, s, gs, gbinds) \subseteq OwnedNow
  BY <1>1, <1>3, <1>4, PopOwned
<1>7. OneCell(Owned(garena, s, gs, gbinds), vids)
  BY <1>1, <1>6, OneCellOfFewer
<1>8. QED
  BY <1>5, <1>6, <1>7 DEF OwnNext, Own

LEMMA ReturnOwned ==
  ASSUME NamesOfPrograms, PlainCalls, PlainReceivers, Whole, NEW n, NEW val \in Values,
         Return(n, val)
  PROVE  OwnNext
<1> DEFINE calls == {i \in DOMAIN frames : frames[i].kind \in {"call", "new"}}
<1>1. /\ Sound(garena, sarena, frames, gbinds) /\ frames \in Seq(FrameSet) /\ SoundNow
      /\ Len(frames) \in Nat /\ OwnedNow \in SUBSET Entries /\ OneCell(OwnedNow, vids)
      /\ Layout(frames, gbinds) /\ OwnedNow = Owned(garena, sarena, frames, gbinds)
      /\ vids \in Nat
  BY WholeIs
<1>2. CallIndex \in 1 .. Len(frames) /\ frames[CallIndex].kind = "call"
  <2>1. calls # {} /\ CallIndex = Innermost(calls)
    BY DEF Return, InCall, CallIndex
  <2>2. DOMAIN frames = 1 .. Len(frames)
    BY <1>1, LenProperties
  <2>3. Innermost(calls) \in calls
    BY <1>1, <2>1, <2>2, InnermostIsIn
  <2>4. QED
    BY <2>1, <2>2, <2>3 DEF Return
<1>3. PICK depth : depth = CallIndex - 1
  OBVIOUS
<1>4. depth \in 0 .. Len(frames) - 1 /\ depth + 1 = CallIndex
  BY <1>1, <1>2, <1>3
<1>5. PICK below, m, sa : /\ below = SubSeq(frames, 1, depth) /\ m = frames[depth + 1].mark
                          /\ sa = SubSeq(sarena, 1, m)
  OBVIOUS
<1>6. Sound(garena, sa, below, gbinds)
  BY <1>1, <1>4, <1>5, PopIsSound
<1>7. /\ Layout(below, gbinds) /\ Owned(garena, sa, below, gbinds) \subseteq OwnedNow
      /\ EndsABody(below)
  <2>1. frames[depth + 1].kind # "block"
    BY <1>2, <1>4
  <2>2. QED
    BY <1>1, <1>4, <1>5, <2>1, PopOwned
<1>8. \/ /\ frames' = below /\ sarena' = sa /\ garena' = garena /\ gbinds' = gbinds
         /\ vids' = vids
      \/ /\ n \in (IF below = <<>> THEN Globals ELSE Locals) /\ vids' = vids + 1
         /\ DeclareIn(garena, sa, below, n, val, vids)
  BY <1>3, <1>5 DEF Return, Truncated, NewVid
<1>9. CASE /\ frames' = below /\ sarena' = sa /\ garena' = garena /\ gbinds' = gbinds
           /\ vids' = vids
  <2>1. OneCell(Owned(garena, sa, below, gbinds), vids)
    BY <1>1, <1>7, OneCellOfFewer
  <2>2. QED
    BY <1>7, <1>9, <2>1 DEF OwnNext, Own
<1>10. CASE /\ n \in (IF below = <<>> THEN Globals ELSE Locals) /\ vids' = vids + 1
            /\ DeclareIn(garena, sa, below, n, val, vids)
  <2>1. Bindable(below, n)
    BY <1>7, <1>10 DEF Bindable, EndsABody
  <2>2. val \in Vals
    BY <1>1, ValuesAreGood
  <2>3. \A e \in Entries : Keeps(val, e) => e \in OwnedNow
    BY <1>1, ValuesAreOwned
  <2>4. Own(garena', sarena', frames', gbinds', vids + 1)
    BY <1>1, <1>6, <1>7, <1>10, <2>1, <2>2, <2>3, DeclareOwned
  <2>5. QED
    BY <1>10, <2>4 DEF OwnNext
<1>11. QED
  BY <1>8, <1>9, <1>10

\* What is bound again is owned already.
LEMMA BoundAgain ==
  ASSUME NEW ga, NEW sa, NEW fs, NEW gb, NEW gs, NEW hb, NEW S,
         Owned(ga, sa, fs, gb) \subseteq S, NEW e \in S, OnlyAdds(gs, fs, e),
         \A m \in DOMAIN hb : hb[m] = e \/ \E k \in DOMAIN gb : gb[k] = hb[m]
  PROVE  Owned(ga, sa, gs, hb) \subseteq S
<1>1. ASSUME NEW t \in Owned(ga, sa, gs, hb) PROVE t \in S
  <2>1. /\ t \in Entries
        /\ \/ \E m \in DOMAIN hb : hb[m] = t
           \/ \E i \in 1 .. Len(gs) : FrameKeeps(gs[i], t)
           \/ \E i \in 1 .. Len(ga) : Keeps(ga[i].val, t)
           \/ \E i \in 1 .. Len(sa) : Keeps(sa[i].val, t)
    BY DEF Owned
  <2>2. ASSUME t # e PROVE t \in Owned(ga, sa, fs, gb)
    BY <2>1, <2>2 DEF Owned, OnlyAdds
  <2>3. QED
    BY <2>2
<1>2. QED
  BY <1>1

LEMMA EndNewOwned ==
  ASSUME NamesOfPrograms, PlainReceivers, Whole, NEW n, EndNew(n)
  PROVE  OwnNext
<1>1. frames # <<>> /\ Top(frames).kind = "new"
  BY DEF EndNew
<1>2. /\ Sound(garena, sarena, frames, gbinds) /\ frames \in Seq(FrameSet) /\ SoundNow
      /\ Len(frames) \in Nat /\ OwnedNow \in SUBSET Entries /\ OneCell(OwnedNow, vids)
      /\ Layout(frames, gbinds) /\ OwnedNow = Owned(garena, sarena, frames, gbinds)
  BY WholeIs
<1>3. PICK e, c : e = LiveInstance /\ c = frames[Len(frames)]
  OBVIOUS
<1>4. /\ Len(frames) \in 1 .. Len(frames) /\ This \in DOMAIN c.binds /\ e = c.binds[This]
      /\ e \in Entries /\ c.kind = "new"
  BY <1>1, <1>2, <1>3, InstanceIs DEF Top
<1>5. e \in OwnedNow
  <2>1. OwnNames(c)
    BY <1>2, <1>3, <1>4 DEF Layout
  <2>2. c.lex = DOMAIN c.binds
    BY <1>4, <2>1 DEF OwnNames
  <2>3. FrameKeeps(c, e)
    BY <1>4, <2>2 DEF FrameKeeps, Mine
  <2>4. QED
    BY <1>2, <1>3, <1>4, <2>3 DEF Owned
<1>6. PICK depth : depth = Len(frames) - 1 /\ depth \in 0 .. Len(frames) - 1
                   /\ depth + 1 = Len(frames)
  BY <1>2, <1>4
<1>7. PICK below, m, sa : /\ below = SubSeq(frames, 1, depth) /\ m = frames[depth + 1].mark
                          /\ sa = SubSeq(sarena, 1, m)
  OBVIOUS
<1>8. /\ Sound(garena, sa, below, gbinds) /\ Len(below) = depth
      /\ \A i \in 1 .. depth : below[i] = frames[i]
  BY <1>2, <1>6, <1>7, PopIsSound
<1>9. /\ Layout(below, gbinds) /\ Owned(garena, sa, below, gbinds) \subseteq OwnedNow
      /\ EndsABody(below)
  <2>1. frames[depth + 1].kind # "block"
    BY <1>3, <1>4, <1>6
  <2>2. QED
    BY <1>2, <1>6, <1>7, <2>1, PopOwned
<1>10. /\ sarena' = sa /\ garena' = garena /\ vids' = vids
       /\ \/ below = <<>> /\ n \in Globals /\ gbinds' = Bind(gbinds, n, e) /\ frames' = below
          \/ /\ below # <<>> /\ n \in Locals /\ gbinds' = gbinds
             /\ frames' = [below EXCEPT ![Len(below)].binds = Bind(@, n, e),
                                        ![Len(below)].lex = @ \cup {n}]
  BY <1>3, <1>6, <1>7 DEF EndNew, Truncated, Front
<1>11. CASE below = <<>> /\ n \in Globals /\ gbinds' = Bind(gbinds, n, e) /\ frames' = below
  <2>1. DOMAIN gbinds' = DOMAIN gbinds \cup {n} /\ gbinds'[n] = e
        /\ \A k \in DOMAIN gbinds \ {n} : gbinds'[k] = gbinds[k]
    BY <1>11 DEF Bind
  <2>2. Layout(below, gbinds')
    BY <1>9, <1>11, <2>1 DEF Layout
  <2>3. OnlyAdds(below, below, e)
    BY DEF OnlyAdds
  <2>4. \A k \in DOMAIN gbinds' : gbinds'[k] = e \/ \E j \in DOMAIN gbinds : gbinds[j] = gbinds'[k]
    BY <2>1
  <2>5. Owned(garena, sa, below, gbinds') \subseteq OwnedNow
    BY <1>5, <1>9, <2>3, <2>4, BoundAgain
  <2>6. OneCell(Owned(garena, sa, below, gbinds'), vids)
    BY <1>2, <2>5, OneCellOfFewer
  <2>7. QED
    BY <1>10, <1>11, <2>2, <2>6 DEF OwnNext, Own
<1>12. CASE /\ below # <<>> /\ n \in Locals /\ gbinds' = gbinds
            /\ frames' = [below EXCEPT ![Len(below)].binds = Bind(@, n, e),
                                       ![Len(below)].lex = @ \cup {n}]
  <2>1. below \in Seq(FrameSet)
    BY <1>8 DEF Sound, GoodFrames
  <2>2. PICK gs : gs = frames' /\ gs = [below EXCEPT ![Len(below)] = WithName(below[Len(below)], n, e)]
    BY <1>12, <2>1, NamedTop
  <2>3. Unbound(e, below)
    <3>1. ASSUME e.region = "scoped", NEW i \in 1 .. depth, NEW k \in DOMAIN below[i].binds,
                 below[i].binds[k] = e
          PROVE  FALSE
      <4>1. below[i] = frames[i] /\ i \in 1 .. Len(frames) /\ i < Len(frames)
        BY <1>2, <1>6, <1>8
      <4>2. ReceiverOnly(frames[i], c)
        BY <1>2, <1>3, <1>4, <4>1 DEF Layout, Alias
      <4>3. QED
        BY <1>4, <3>1, <4>1, <4>2 DEF ReceiverOnly
    <3>2. QED
      BY <1>8, <3>1 DEF Unbound
  <2>4. Bindable(below, n) /\ n \in Names
    BY <1>9, <1>12 DEF Bindable, EndsABody, Names
  <2>5. Layout(gs, gbinds) /\ OnlyAdds(gs, below, e)
    <3>1. /\ Sound(garena, sa, below, gbinds) /\ below # <<>> /\ Layout(below, gbinds)
          /\ n \in Names /\ Bindable(below, n) /\ e \in Entries /\ Unbound(e, below)
          /\ gs = [below EXCEPT ![Len(below)] = WithName(below[Len(below)], n, e)]
      BY <1>4, <1>8, <1>9, <1>12, <2>2, <2>3, <2>4
    <3>2. QED
      BY <3>1, TopBound
  <2>6. Owned(garena, sa, gs, gbinds) \subseteq OwnedNow
    BY <1>5, <1>9, <2>5, BoundAgain
  <2>7. OneCell(Owned(garena, sa, gs, gbinds), vids)
    BY <1>2, <2>6, OneCellOfFewer
  <2>8. QED
    BY <1>10, <1>12, <2>2, <2>5, <2>7 DEF OwnNext, Own
<1>13. QED
  BY <1>10, <1>11, <1>12

LEMMA OutOwned ==
  ASSUME Whole, StartOut \/ EndOut
  PROVE  OwnNext
<1>1. garena \in Seq(Cells) /\ OwnNow /\ OutIsQuiet
  BY WholeIs DEF Whole, Inv
<1>2. garena' = garena /\ sarena' = sarena /\ frames' = frames /\ gbinds' = gbinds
      /\ vids' = vids
  <2>1. CASE StartOut
    BY <2>1 DEF StartOut
  <2>2. CASE EndOut
    <3>1. outMark = Len(garena)
      BY <1>1, <2>2 DEF EndOut, OutIsQuiet
    <3>2. QED
      BY <1>1, <2>2, <3>1, SubSeqFull DEF EndOut
  <2>3. QED
    BY <2>1, <2>2
<1>3. QED
  BY <1>1, <1>2 DEF OwnNow, OwnNext

\* The frame the next iteration starts from owns the new counter.
LEMMA CounterOwned ==
  ASSUME NEW c \in FrameSet, OwnNames(c), c.kind = "for", LoopFrame(c), NEW n \in c.lex,
         NEW e \in Entries, e.region = "scoped", NEW d, d = NextCounter(c, n, e)
  PROVE  /\ d.kind = "for" /\ Distinct(d) /\ OwnNames(d) /\ LoopFrame(d) /\ Scoped(d)
         /\ DOMAIN d.binds = {n} /\ OnlyKeeps(d, e)
<1>1. PICK k \in c.lex : c.lex = {k} /\ k \notin Globals
  BY DEF LoopFrame
<1>2. c.lex = {n} /\ n \notin Globals /\ DOMAIN c.binds = {n}
  BY <1>1 DEF OwnNames
<1>3. /\ d.kind = c.kind /\ d.lex = c.lex /\ DOMAIN d.binds = DOMAIN c.binds /\ d.binds[n] = e
  BY <1>2, CounterFrame
<1>4. d.kind = "for" /\ d.lex = {n} /\ DOMAIN d.binds = {n}
  BY <1>2, <1>3
<1>5. Distinct(d) /\ OwnNames(d) /\ Scoped(d) /\ LoopFrame(d)
  BY <1>2, <1>3, <1>4 DEF Distinct, OwnNames, Scoped, LoopFrame
<1>6. OnlyKeeps(d, e)
  BY <1>3, <1>4 DEF OnlyKeeps, FrameKeeps
<1>7. QED
  BY <1>4, <1>5, <1>6

LEMMA NextIterationOwned ==
  ASSUME NamesOfPrograms, Whole, NextIteration
  PROVE  OwnNext
<1>1. frames # <<>> /\ garena' = garena /\ gbinds' = gbinds /\ Top(frames).kind = "for"
  BY NextIterationCases
<1>2. /\ Sound(garena, sarena, frames, gbinds) /\ frames \in Seq(FrameSet) /\ SoundNow
      /\ OwnedNow \in SUBSET Entries /\ OneCell(OwnedNow, vids) /\ sarena \in Seq(Cells)
      /\ Layout(frames, gbinds) /\ OwnedNow = Owned(garena, sarena, frames, gbinds)
      /\ vids \in Nat /\ Len(sarena) \in Nat
  BY WholeIs
<1>3. PICK k, c : k = Len(frames) /\ c = frames[k]
  OBVIOUS
<1>4. k \in Nat \ {0} /\ k \in 1 .. k /\ c \in FrameSet /\ Top(frames) = c
  BY <1>1, <1>2, <1>3, LastIsIn, ElementOfSeq, LenProperties, EmptySeq DEF Top
<1>5. c.lex \subseteq DOMAIN c.binds /\ \A m \in DOMAIN c.binds : c.binds[m] \in Entries
  BY <1>2, <1>3, <1>4, FrameTypes DEF Sound
<1>6. c.kind = "for" /\ OwnNames(c) /\ Distinct(c) /\ LoopFrame(c)
      /\ \A i \in 1 .. k - 1 : ReceiverOnly(frames[i], c)
  <2>1. \A i \in 1 .. k - 1 : i \in 1 .. k /\ i < k
    BY <1>4
  <2>2. QED
    BY <1>1, <1>2, <1>3, <1>4, <2>1 DEF Layout, Alias, Loops
<1>7. PICK n \in c.lex :
        \/ /\ c.binds[n].region = "global"
           /\ sarena' = Append(sarena, Cell(vids, Value(c.binds[n])))
           /\ frames' = NextFrames(Entry("scoped", Len(sarena) + 1, vids), n)
           /\ NewVid
        \/ /\ c.binds[n].region # "global" /\ sarena' = sarena
           /\ frames' = StillFrames /\ vids' = vids
  BY <1>4, NextIterationCases
<1>8. n \in DOMAIN c.binds /\ c.binds[n] \in Entries
  BY <1>5
<1>9. CASE /\ sarena' = Append(sarena, Cell(vids, Value(c.binds[n])))
           /\ frames' = NextFrames(Entry("scoped", Len(sarena) + 1, vids), n)
           /\ NewVid
  <2>1. PICK e, cell, old : /\ e = Entry("scoped", Len(sarena) + 1, vids) /\ old = c.binds[n]
                            /\ cell = Cell(vids, Value(old))
    OBVIOUS
  <2>2. /\ sarena' = Append(sarena, cell) /\ frames' = NextFrames(e, n)
        /\ vids' = vids + 1 /\ old \in Entries
    BY <1>8, <1>9, <2>1 DEF NewVid
  <2>3. e \in Entries /\ e.region = "scoped" /\ e.index = Len(sarena) + 1 /\ e.vid = vids
    BY <1>2, <2>1, EntryIs DEF Regions
  <2>4. cell \in Cells /\ cell.val = Value(old)
    BY <1>2, <2>1, <2>2, ValueIsGood DEF Cell, Cells
  <2>5. PICK d : d = NextCounter(c, n, e)
    OBVIOUS
  <2>6. PICK gs : gs = frames' /\ gs = [frames EXCEPT ![Len(frames)] = d]
    BY <1>1, <1>2, <1>3, <1>4, <1>5, <2>2, <2>5, NextFramesIs
  <2>7. Len(gs) = k /\ gs[k] = d /\ \A i \in 1 .. k - 1 : gs[i] = frames[i]
    <3>1. d \in FrameSet
      BY <1>4, <1>8, <2>3, <2>5, CounterFrame
    <3>2. QED
      BY <1>1, <1>2, <1>3, <2>6, <3>1, Replaced
  <2>8. /\ d.kind = "for" /\ Distinct(d) /\ OwnNames(d) /\ LoopFrame(d) /\ Scoped(d)
        /\ DOMAIN d.binds = {n} /\ OnlyKeeps(d, e)
    BY <1>4, <1>6, <1>7, <2>3, <2>5, CounterOwned
  <2>9. Unbound(e, frames)
    BY <1>2, <2>3, NewIsUnbound
  <2>10. ASSUME NEW i \in 1 .. k - 1 PROVE ReceiverOnly(frames[i], d)
    <3>1. \A m \in DOMAIN frames[i].binds : frames[i].binds[m] # e
      BY <1>3, <1>4, <2>3, <2>9 DEF Unbound
    <3>2. d.binds[n] = e
      BY <1>4, <1>8, <2>3, <2>5, CounterFrame
    <3>3. QED
      BY <2>8, <3>1, <3>2 DEF ReceiverOnly
  <2>11. Layout(gs, gbinds)
    BY <1>2, <1>3, <1>4, <1>6, <2>7, <2>8, <2>10, LayoutTop
  <2>12. OnlyAdds(gs, frames, e)
    <3>1. ASSUME NEW i \in 1 .. k, NEW t \in Entries, FrameKeeps(gs[i], t)
          PROVE  t = e \/ \E j \in 1 .. k : FrameKeeps(frames[j], t)
      <4>1. i = k \/ i \in 1 .. k - 1
        BY <1>4
      <4>2. QED
        BY <2>7, <2>8, <3>1, <4>1 DEF OnlyKeeps
    <3>2. QED
      BY <1>3, <2>7, <3>1 DEF OnlyAdds
  <2>13. ASSUME NEW t \in Owned(garena, Append(sarena, cell), frames, gbinds) PROVE t \in OwnedNow
    <3>1. ASSUME NEW i \in 1 .. Len(Append(sarena, cell)), Keeps(Append(sarena, cell)[i].val, t)
          PROVE  t \in OwnedNow
      <4>1. Keeps(cell.val, t) \/ \E j \in 1 .. Len(sarena) : Keeps(sarena[j].val, t)
        BY <1>2, <2>4, <3>1, AppendKeeps
      <4>2. CASE Keeps(cell.val, t)
        BY <1>2, <2>2, <2>4, <4>2, ValueKeeps
      <4>3. CASE \E j \in 1 .. Len(sarena) : Keeps(sarena[j].val, t)
        BY <1>2, <2>13, <4>3 DEF Owned
      <4>4. QED
        BY <4>1, <4>2, <4>3
    <3>2. QED
      BY <1>2, <2>13, <3>1 DEF Owned
  <2>14. PICK S : S = OwnedNow \cup {e}
    OBVIOUS
  <2>15. Owned(garena, sarena', gs, gbinds) \subseteq S
    <3>1. Owned(garena, sarena', frames, gbinds) \subseteq S /\ e \in S
      BY <2>2, <2>13, <2>14
    <3>2. \A m \in DOMAIN gbinds : gbinds[m] = e \/ \E h \in DOMAIN gbinds : gbinds[h] = gbinds[m]
      OBVIOUS
    <3>3. QED
      BY <2>12, <3>1, <3>2, BoundAgain
  <2>16. OneCell(Owned(garena, sarena', gs, gbinds), vids + 1)
    BY <1>2, <2>3, <2>14, <2>15, OneCellOfMore
  <2>17. QED
    BY <1>1, <2>2, <2>6, <2>11, <2>16 DEF OwnNext, Own
<1>10. CASE /\ c.binds[n].region # "global" /\ sarena' = sarena
            /\ frames' = StillFrames /\ vids' = vids
  <2>1. PICK gs : gs = StillFrames
    OBVIOUS
  <2>2. /\ Len(gs) = k
        /\ \A i \in 1 .. k : /\ gs[i].kind = frames[i].kind /\ gs[i].binds = frames[i].binds
                             /\ gs[i].lex = frames[i].lex
                             /\ i # k => gs[i].fresh = frames[i].fresh
    BY <1>1, <1>2, <1>3, <2>1, StillFramesIs
  <2>3. Scoped(c)
    <3>1. PICK m \in c.lex : c.lex = {m}
      BY <1>6 DEF LoopFrame
    <3>2. c.lex = {n} /\ c.binds[n].region = "scoped"
      BY <1>8, <1>10, <3>1 DEF Entries, Regions
    <3>3. QED
      BY <3>2 DEF Scoped
  <2>4. \A i \in 1 .. k : Distinct(gs[i]) /\ OwnNames(gs[i])
    <3>1. \A i \in 1 .. k : Distinct(frames[i]) /\ OwnNames(frames[i])
      BY <1>2, <1>3 DEF Layout, Alias
    <3>2. QED
      BY <2>2, <3>1 DEF Distinct, OwnNames
  <2>5. ASSUME NEW i \in 1 .. k, NEW j \in 1 .. k, i < j PROVE ReceiverOnly(gs[i], gs[j])
    <3>1. ReceiverOnly(frames[i], frames[j])
      BY <1>2, <1>3, <2>5 DEF Layout, Alias
    <3>2. QED
      BY <2>2, <3>1 DEF ReceiverOnly
  <2>6. ASSUME NEW i \in 1 .. k, gs[i].kind = "for"
        PROVE  /\ LoopFrame(gs[i])
               /\ i < k => gs[i + 1].kind = "block"
               /\ gs[i].fresh => i = k /\ Scoped(gs[i])
    <3>1. /\ LoopFrame(frames[i])
          /\ i < k => frames[i + 1].kind = "block"
          /\ frames[i].fresh => i = k
      BY <1>2, <1>3, <2>2, <2>6 DEF Layout, Loops
    <3>2. i < k => i + 1 \in 1 .. k
      BY <1>4
    <3>3. LoopFrame(gs[i])
      BY <2>2, <3>1 DEF LoopFrame
    <3>4. i = k => Scoped(gs[i])
      BY <1>3, <2>2, <2>3 DEF Scoped
    <3>5. gs[i].fresh => i = k
      BY <2>2, <3>1
    <3>6. QED
      BY <2>2, <3>1, <3>2, <3>3, <3>4, <3>5
  <2>7. Layout(gs, gbinds)
    <3>1. Loops(gs)
      BY <2>2, <2>6 DEF Loops
    <3>2. Alias(gs)
      BY <2>2, <2>4, <2>5 DEF Alias
    <3>3. QED
      BY <1>2, <2>2, <2>4, <3>1, <3>2 DEF Layout
  <2>8. Owned(garena, sarena, gs, gbinds) = OwnedNow
    BY <1>2, <1>3, <2>2, SameOwned
  <2>9. QED
    BY <1>1, <1>2, <1>10, <2>1, <2>7, <2>8 DEF OwnNext, Own
<1>11. QED
  BY <1>7, <1>9, <1>10

LEMMA OwnStep ==
  ASSUME NamesOfPrograms, PlainCalls, PlainReceivers, Whole, Next
  PROVE  Whole'
<1>1. OwnNext
  <2>0. SoundNow /\ OwnNow /\ \A mentions \in Bodies : mentions \in SUBSET LexVisible
    BY WholeIs DEF Bodies
  <2>1. CASE Statement
    <3>1. PICK n \in Names :
            \/ \E val \in Values : Let(n, val)
            \/ \E mentions \in Bodies : LetLambda(n, mentions)
            \/ DeclareFn(n)
            \/ n \in LexVisible /\ \E val \in Values : Assign(n, val)
            \/ \E mentions \in Bodies : AssignLambda(n, mentions)
            \/ \E mentions \in Bodies : SetFieldLambda(n, mentions)
            \/ EnterFor(n)
      BY <2>1 DEF Statement
    <3>2. ASSUME NEW mentions \in Bodies, LetLambda(n, mentions) PROVE OwnNext
      <4>1. PICK l : l = Lambda(mentions)
        OBVIOUS
      <4>2. /\ Running /\ n \in Here /\ vids' = vids + 1
            /\ DeclareIn(l.ga, sarena, l.fs, n, l.val, vids)
        BY <3>2, <4>1 DEF LetLambda, NewVid
      <4>3. IsMade(l) /\ IsOwn(l)
        BY <2>0, <4>1, <4>2, LambdaIsSound, LambdaOwned
      <4>4. QED
        BY <4>2, <4>3, MadeOwned
    <3>3. CASE DeclareFn(n)
      <4>1. PICK l : l = NamedFunction(n)
        OBVIOUS
      <4>2. /\ Running /\ n \in Here /\ vids' = vids + 1
            /\ DeclareIn(l.ga, sarena, l.fs, n, l.val, vids)
        BY <3>3, <4>1 DEF DeclareFn, NewVid
      <4>3. IsMade(l) /\ IsOwn(l)
        BY <2>0, <4>1, <4>2, FunctionIsSound, FunctionOwned
      <4>4. QED
        BY <4>2, <4>3, MadeOwned
    <3>4. QED
      BY <2>0, <3>1, <3>2, <3>3, LetOwned, AssignOwned, AssignLambdaOwned, SetFieldOwned,
         EnterForOwned
  <2>2. CASE Calling
    BY <2>2, CallOwned, CallMethodOwned, ReturnOwned, StartNewOwned, EndNewOwned DEF Calling
  <2>3. CASE EnterBlock \/ ExitBlock \/ NextIteration
    BY <2>3, EnterBlockOwned, ExitBlockOwned, NextIterationOwned
  <2>4. CASE StartOut \/ EndOut
    BY <2>4, OutOwned
  <2>5. QED
    BY <2>1, <2>2, <2>3, <2>4 DEF Next
<1>2. Inv'
  BY SoundStep DEF Whole
<1>3. QED
  BY <1>1, <1>2 DEF Whole, OwnNow, OwnNext

LEMMA WholeAlways ==
  ASSUME NamesOfPrograms, PlainCalls, PlainReceivers
  PROVE  Spec => []Whole
<1>1. Init => OwnNow
  <2> SUFFICES ASSUME Init PROVE OwnNow
    OBVIOUS
  <2>1. garena = <<>> /\ sarena = <<>> /\ frames = <<>> /\ DOMAIN gbinds = {}
    BY DEF Init, NoBinds
  <2>2. Len(garena) = 0 /\ Len(sarena) = 0 /\ Len(frames) = 0
    <3>1. <<>> \in Seq(Cells) /\ <<>> \in Seq(FrameSet)
      BY EmptySeq
    <3>2. QED
      BY <2>1, <3>1, EmptySeq
  <2>3. Owned(garena, sarena, frames, gbinds) = {}
    BY <2>1, <2>2 DEF Owned
  <2>4. Layout(frames, gbinds)
    BY <2>1, <2>2 DEF Layout, Alias, Loops
  <2>5. QED
    BY <2>3, <2>4 DEF OwnNow, Own, OneCell
<1>2. Inv /\ Next /\ OwnNow => OwnNow'
  BY OwnStep DEF Whole
<1>3. UNCHANGED vars /\ OwnNow => OwnNow'
  BY DEF vars, OwnNow
<1>4. Spec => []Inv
  BY InvAlways
<1>5. Spec => []OwnNow
  BY <1>1, <1>2, <1>3, <1>4, PTL DEF Spec
<1>6. QED
  BY <1>4, <1>5, PTL DEF Whole

\* Every binding the program can mention is owned.
LEMMA MentionableAreOwned ==
  ASSUME NamesOfPrograms, SoundNow, NEW e \in MentionableEntries
  PROVE  e \in OwnedNow
<1>1. /\ GoodFrames(frames, garena, sarena) /\ GoodBinds(gbinds, garena)
      /\ frames \in Seq(FrameSet) /\ DOMAIN frames = 1 .. Len(frames)
  BY LenProperties DEF SoundNow, Sound, GoodFrames
<1>2. ASSUME NEW n \in DOMAIN gbinds, e = gbinds[n] PROVE e \in OwnedNow
  <2>1. e \in Entries
    BY <1>1, <1>2, BindingTypes DEF GoodBinds, GlobalEntries
  <2>2. QED
    BY <1>2, <2>1 DEF OwnedNow, Owned
<1>3. ASSUME NEW i \in 1 .. Len(frames), NEW n \in frames[i].lex, e = frames[i].binds[n]
      PROVE  e \in OwnedNow
  <2>1. n \in DOMAIN frames[i].binds /\ e \in Entries
    BY <1>1, <1>3, FrameTypes
  <2>2. FrameKeeps(frames[i], e)
    BY <1>3, <2>1 DEF FrameKeeps, Mine
  <2>3. QED
    BY <2>1, <2>2 DEF OwnedNow, Owned
<1>4. ASSUME NEW f \in BoundEntries, NEW n \in Value(f).lex, e = Value(f).caps[n]
      PROVE  e \in OwnedNow
  <2>1. f \in Entries
    BY BoundAreGood
  <2>2. PICK v : v = Value(f)
    OBVIOUS
  <2>3. v.lex \subseteq DOMAIN v.caps
    BY <2>1, <2>2, ValueIsGood DEF GoodVal
  <2>4. Keeps(v, e)
    BY <1>4, <2>2, <2>3 DEF Keeps, Mine
  <2>5. QED
    BY <2>1, <2>2, <2>4, ValueKeeps
<1> DEFINE G == {gbinds[n] : n \in DOMAIN gbinds}
           F == UNION {{frames[i].binds[n] : n \in frames[i].lex} : i \in DOMAIN frames}
           V == UNION {{Value(x).caps[n] : n \in Value(x).lex} :
                       x \in {f \in BoundEntries : Resolves(f)}}
<1>5. MentionableEntries = G \cup F \cup V
  BY DEF MentionableEntries
<1>6. ASSUME e \in V PROVE e \in OwnedNow
  <2>1. PICK f \in BoundEntries : e \in {Value(f).caps[n] : n \in Value(f).lex}
    BY <1>6
  <2>2. QED
    BY <1>4, <2>1
<1>7. ASSUME e \in F PROVE e \in OwnedNow
  <2>1. PICK i \in DOMAIN frames : e \in {frames[i].binds[n] : n \in frames[i].lex}
    BY <1>7
  <2>2. QED
    BY <1>1, <1>3, <2>1
<1>8. ASSUME e \in G PROVE e \in OwnedNow
  BY <1>2, <1>8
<1> HIDE DEF G, F, V
<1>9. QED
  BY <1>5, <1>6, <1>7, <1>8

\* One variable is one cell, for the scope that declared it and for every frame
\* and closure whose text mentions it; and no closure made in a loop's body
\* holds the counter of the next one.
THEOREM OneCellEach ==
  ASSUME NamesOfPrograms, PlainCalls, PlainReceivers
  PROVE  Spec => []OneCellPerVariable
<1>1. Whole => NoFork
  BY WholeIs, MentionableAreOwned DEF NoFork, OneCell
<1>2. Whole => CounterIsFresh
  <2> SUFFICES ASSUME Whole, frames # <<>>, Top(frames).kind = "for", Top(frames).fresh,
                      NEW a \in {garena, sarena}, NEW i \in DOMAIN a, NEW n \in Top(frames).lex,
                      NEW m \in DOMAIN a[i].val.caps
               PROVE  a[i].val.caps[m] # Top(frames).binds[n]
    BY DEF CounterIsFresh
  <2>1. /\ frames \in Seq(FrameSet) /\ garena \in Seq(Cells) /\ sarena \in Seq(Cells)
        /\ Layout(frames, gbinds)
    BY WholeIs
  <2>2. Len(frames) \in 1 .. Len(frames) /\ Top(frames) = frames[Len(frames)]
    BY <2>1, LastIsIn DEF Top
  <2>3. Scoped(Top(frames))
    BY <2>1, <2>2 DEF Layout, Loops
  <2>4. a \in Seq(Cells) /\ i \in 1 .. Len(a)
    BY <2>1, LenProperties
  <2>5. PICK v : v = a[i].val /\ v \in Vals
    <3>1. a[i] \in Cells
      BY <2>4, ElementOfSeq
    <3>2. QED
      BY <3>1 DEF Cells
  <2>6. v.caps[m] \in GlobalEntries
    BY <2>5, BindingTypes DEF Vals
  <2>7. QED
    BY <2>3, <2>5, <2>6 DEF Scoped, GlobalEntries
<1>3. Whole => OneCellPerVariable
  BY <1>1, <1>2 DEF OneCellPerVariable
<1>4. QED
  BY <1>3, WholeAlways, PTL

\* The bodies and the closures of NameBinding's programs are those of
\* FlashScopes, so what is proved of Spec holds of them.
LEMMA ProgramsHaveScopes == NameSpec => Spec
<1>1. NameInit => Init
  BY DEF NameInit
<1>2. [NameNext]_nameVars => [Next]_vars
  BY Zenon DEF NameNext, nameVars
<1>3. QED
  BY <1>1, <1>2, PTL DEF NameSpec, Spec

-----------------------------------------------------------------------------
(* Imports.  The modules being run are different files, each knows what its *)
(* importer was about to go on with, and what was bound when a module was   *)
(* entered is bound as long as it runs.                                     *)

Statements == [op : Kinds, name : Declared, flag : BOOLEAN]
                 \cup [op : {"import"}, name : Specs \cup Urls, flag : BOOLEAN]
Importers == [file : M!Modules, dir : M!Dirs, exports : SUBSET (Declared \cup M!NoExports),
              before : SUBSET Declared, guarded : BOOLEAN]
FileTypes ==
  /\ text \in [M!Modules -> Seq(Statements)] /\ stack \in Seq(Importers) /\ stack # <<>>
  /\ loaded \subseteq M!Modules /\ bound \subseteq Declared

\* ModuleContext.exports while the i-th is the innermost.
Told(i) == IF i = 1 THEN M!NoExports ELSE M!ExportedIn(text[stack[i].file])
Nested ==
  /\ \A i \in 1 .. Len(stack) : stack[i].file \in loaded /\ stack[i].before \subseteq bound
  /\ \A i, j \in 1 .. Len(stack) : stack[i].file = stack[j].file => i = j
  /\ \A i, j \in 1 .. Len(stack) : i <= j => stack[i].before \subseteq stack[j].before
  /\ \A i \in 1 .. Len(stack) :
       IF i = Len(stack) THEN current = stack[i].file.dir /\ exports = Told(i)
       ELSE stack[i + 1].dir = stack[i].file.dir /\ stack[i + 1].exports = Told(i)
Unread == \A f \in M!Modules \ loaded : text[f] = <<>>
FilesInv == FileTypes /\ Nested /\ Unread

LEMMA InnermostIs ==
  ASSUME FileTypes
  PROVE  /\ Len(stack) \in 1 .. Len(stack) /\ Len(stack) \in Nat
         /\ M!Top = stack[Len(stack)] /\ M!Top \in Importers
         /\ M!Here = stack[Len(stack)].file /\ M!Here \in M!Modules /\ M!Depth = Len(stack)
<1>1. Len(stack) \in 1 .. Len(stack) /\ Len(stack) \in Nat
  BY EmptySeq, LenProperties DEF FileTypes
<1>2. M!Top = stack[Len(stack)]
  BY DEF M!Top, M!Last
<1>3. stack[Len(stack)] \in Importers
  BY <1>1, ElementOfSeq DEF FileTypes
<1>4. QED
  BY <1>1, <1>2, <1>3 DEF Importers, M!Here, M!Depth

\* What a file exports, with one more statement.
LEMMA ExportAdded ==
  ASSUME NEW t \in Seq(Statements), NEW s \in Statements
  PROVE  /\ Append(t, s) \in Seq(Statements)
         /\ M!ExportedIn(Append(t, s)) =
              M!ExportedIn(t) \cup (IF s.op \in {"class", "let"} /\ s.flag THEN {s.name} ELSE {})
<1> DEFINE u == Append(t, s)
<1>1. /\ u \in Seq(Statements) /\ DOMAIN u = 1 .. Len(t) + 1 /\ DOMAIN t = 1 .. Len(t)
      /\ Len(t) \in Nat /\ u[Len(t) + 1] = s /\ \A i \in 1 .. Len(t) : u[i] = t[i]
  BY AppendProperties
<1> HIDE DEF u
<1>2. M!Range(u) = M!Range(t) \cup {s}
  BY <1>1 DEF M!Range
<1>3. M!ExportedIn(u) =
        M!ExportedIn(t) \cup (IF s.op \in {"class", "let"} /\ s.flag THEN {s.name} ELSE {})
  BY <1>2 DEF M!ExportedIn
<1>4. QED
  BY <1>1, <1>3 DEF u

LEMMA ExportsAreNames ==
  ASSUME NEW t \in Seq(Statements)
  PROVE  M!ExportedIn(t) \subseteq Declared /\ M!ExportedIn(t) # M!NoExports
<1>1. \A r \in M!Range(t) : r \in Statements
  <2>1. \A k \in DOMAIN t : t[k] \in Statements
    BY ElementOfSeq, LenProperties
  <2>2. QED
    BY <2>1, Zenon DEF M!Range
<1>2. \A r \in Statements : r.op \in {"class", "let"} => r.name \in Declared
  BY DEF Statements
<1>3. M!ExportedIn(t) \subseteq Declared
  BY <1>1, <1>2 DEF M!ExportedIn
<1>4. QED
  BY <1>3, ImportsAssumption DEF M!NoExports

LEMMA ToldNext ==
  ASSUME NEW i
  PROVE  Told(i)' = IF i = 1 THEN M!NoExports ELSE M!ExportedIn(text'[stack'[i].file])
BY Zenon DEF Told, M!ExportedIn, M!Range, M!NoExports

\* What is written into the running file is none of its importers' business.
LEMMA OthersTellTheSame ==
  ASSUME FilesInv, NEW t, text' = [text EXCEPT ![M!Here] = t], NEW i \in 1 .. Len(stack) - 1,
         stack'[i] = stack[i]
  PROVE  Told(i)' = Told(i)
<1>1. i \in 1 .. Len(stack) /\ i # Len(stack) /\ M!Here = stack[Len(stack)].file
  BY InnermostIs DEF FilesInv
<1>2. stack[i].file # M!Here
  BY <1>1, InnermostIs DEF FilesInv, Nested
<1>3. stack[i].file \in M!Modules
  <2>1. stack[i] \in Importers
    BY <1>1, ElementOfSeq DEF FilesInv, FileTypes
  <2>2. QED
    BY <2>1 DEF Importers
<1>4. text'[stack[i].file] = text[stack[i].file]
  BY <1>2, <1>3 DEF FilesInv, FileTypes
<1>5. QED
  <2>1. text'[stack'[i].file] = text[stack[i].file]
    BY <1>4
  <2>2. QED
    <3>1. Told(i)' = IF i = 1 THEN M!NoExports ELSE M!ExportedIn(text'[stack'[i].file])
      BY ToldNext, Zenon
    <3>2. Told(i) = IF i = 1 THEN M!NoExports ELSE M!ExportedIn(text[stack[i].file])
      BY Zenon DEF Told
    <3>3. QED
      BY <2>1, <3>1, <3>2, Zenon

\* The running file says one more thing, and goes on.
LEMMA Says ==
  ASSUME FilesInv, NEW s \in Statements,
         text' = [text EXCEPT ![M!Here] = Append(@, s)], UNCHANGED <<stack, current>>,
         loaded \subseteq loaded', loaded' \subseteq M!Modules,
         bound \subseteq bound', bound' \subseteq Declared,
         exports' = IF s.op \in {"class", "let"} /\ s.flag /\ exports # M!NoExports
                    THEN exports \cup {s.name} ELSE exports
  PROVE  FilesInv'
<1> DEFINE t == text[M!Here]
<1>0. PICK n \in Nat : n = Len(stack)
  BY InnermostIs DEF FilesInv
<1>1. /\ n \in 1 .. n /\ M!Here = stack[n].file /\ M!Here \in M!Modules
      /\ t \in Seq(Statements) /\ n \in Nat
  BY <1>0, InnermostIs DEF FilesInv, FileTypes
<1>2. /\ text' = [text EXCEPT ![M!Here] = Append(t, s)] /\ text'[M!Here] = Append(t, s)
      /\ \A f \in M!Modules \ {M!Here} : text'[f] = text[f]
      /\ text' \in [M!Modules -> Seq(Statements)]
  BY <1>1, ExportAdded DEF FilesInv, FileTypes
<1>3. FileTypes'
  BY <1>2 DEF FilesInv, FileTypes
<1>4. \A i \in 1 .. n - 1 : Told(i)' = Told(i)
  BY <1>0, <1>2, OthersTellTheSame
<1>5. exports' = Told(n)'
  <2>1. exports = Told(n)
    BY <1>0, <1>1 DEF FilesInv, Nested
  <2>2. CASE n = 1
    <3>1. exports = M!NoExports
      BY <2>1, <2>2 DEF Told
    <3>2. QED
      BY <2>2, <3>1, ToldNext
  <2>3. CASE n # 1
    <3>1. exports = M!ExportedIn(t)
      BY <1>1, <2>1, <2>3 DEF Told
    <3>2. Told(n)' = M!ExportedIn(Append(t, s))
      BY <1>1, <1>2, <2>3, ToldNext
    <3>3. exports # M!NoExports
      BY <1>1, <3>1, ExportsAreNames
    <3>4. QED
      BY <1>1, <3>1, <3>2, <3>3, ExportAdded
  <2>4. QED
    BY <2>2, <2>3
<1>6. Nested'
  <2>1. /\ \A i \in 1 .. n : stack[i].file \in loaded' /\ stack[i].before \subseteq bound'
        /\ \A i, j \in 1 .. n : stack[i].file = stack[j].file => i = j
        /\ \A i, j \in 1 .. n : i <= j => stack[i].before \subseteq stack[j].before
    BY <1>0 DEF FilesInv, Nested
  <2>2. ASSUME NEW i \in 1 .. n
        PROVE  IF i = n THEN current = stack[i].file.dir /\ exports' = Told(i)'
               ELSE stack[i + 1].dir = stack[i].file.dir /\ stack[i + 1].exports = Told(i)'
    <3>1. CASE i = n
      BY <1>0, <1>5, <3>1 DEF FilesInv, Nested
    <3>2. CASE i # n
      <4>1. i \in 1 .. n - 1
        BY <3>2
      <4>2. stack[i + 1].dir = stack[i].file.dir /\ stack[i + 1].exports = Told(i)
        BY <1>0, <3>2 DEF FilesInv, Nested
      <4>3. QED
        BY <1>4, <3>2, <4>1, <4>2
    <3>3. QED
      BY <3>1, <3>2
  <2>3. QED
    BY <1>0, <2>1, <2>2 DEF Nested
<1>7. Unread'
  <2>1. M!Here \in loaded
    BY <1>0, <1>1 DEF FilesInv, Nested
  <2>2. QED
    BY <1>2, <2>1 DEF FilesInv, Unread
<1>8. QED
  BY <1>3, <1>6, <1>7 DEF FilesInv

\* Nothing but the failure in progress, or what is known of other files.
LEMMA FilesStay ==
  ASSUME FilesInv, UNCHANGED <<text, stack, bound, exports, current, loaded>>
  PROVE  FilesInv'
<1>1. \A i : Told(i)' = Told(i)
  BY ToldNext, Zenon DEF Told
<1>2. QED
  BY <1>1 DEF FilesInv, FileTypes, Nested, Unread

\* A module begins: the import is written down, and its importer set aside.
LEMMA Enters ==
  ASSUME FilesInv, NEW s \in Statements, s.op = "import",
         text' = [text EXCEPT ![M!Here] = Append(@, s)],
         NEW f \in M!Modules, f \notin loaded, NEW e \in Importers,
         e.file = f, e.dir = current, e.exports = exports, e.before = bound,
         stack' = Append(stack, e), loaded' = loaded \cup {f}, exports' = {},
         current' = f.dir, bound' = bound
  PROVE  FilesInv'
<1> DEFINE t == text[M!Here]
<1>0. PICK n \in Nat : n = Len(stack)
  BY InnermostIs DEF FilesInv
<1>1. /\ n \in 1 .. n /\ M!Here = stack[n].file /\ M!Here \in M!Modules
      /\ t \in Seq(Statements) /\ M!Here \in loaded
  BY <1>0, InnermostIs DEF FilesInv, FileTypes, Nested
<1>2. /\ text' = [text EXCEPT ![M!Here] = Append(t, s)] /\ text'[M!Here] = Append(t, s)
      /\ \A g \in M!Modules \ {M!Here} : text'[g] = text[g]
      /\ text' \in [M!Modules -> Seq(Statements)]
  BY <1>1, ExportAdded DEF FilesInv, FileTypes
<1>3. /\ stack' \in Seq(Importers) /\ stack' # <<>> /\ Len(stack') = n + 1
      /\ stack'[n + 1] = e /\ \A i \in 1 .. n : stack'[i] = stack[i]
  BY <1>0, AppendProperties DEF FilesInv, FileTypes
<1>4. FileTypes'
  BY <1>2, <1>3 DEF FilesInv, FileTypes
<1>5. ASSUME NEW i \in 1 .. n - 1 PROVE Told(i)' = Told(i)
  <2>1. i \in 1 .. Len(stack) - 1 /\ stack'[i] = stack[i]
    BY <1>0, <1>3
  <2>2. PICK u : text' = [text EXCEPT ![M!Here] = u]
    BY <1>2, Zenon
  <2>3. QED
    BY <2>1, <2>2, OthersTellTheSame
<1>6. Told(n)' = exports
  <2>1. exports = IF n = 1 THEN M!NoExports ELSE M!ExportedIn(t)
    BY <1>0, <1>1 DEF FilesInv, Nested, Told
  <2>2. M!ExportedIn(Append(t, s)) = M!ExportedIn(t)
    BY <1>1, ExportAdded
  <2>3. text'[stack'[n].file] = Append(t, s)
    BY <1>1, <1>2, <1>3
  <2>4. QED
    BY <2>1, <2>2, <2>3, ToldNext, Zenon
<1>7. PICK m \in Nat : m = n + 1
  OBVIOUS
<1>8. Told(m)' = {}
  <2>1. text'[stack'[m].file] = <<>>
    BY <1>1, <1>2, <1>3, <1>7 DEF FilesInv, Unread
  <2>2. M!ExportedIn(<<>>) = {}
    BY DEF M!ExportedIn, M!Range
  <2>3. m # 1
    BY <1>1, <1>7
  <2>4. QED
    BY <2>1, <2>2, <2>3, ToldNext, Zenon
<1>9. Nested'
  <2>1. e.dir = stack[n].file.dir
    BY <1>0, <1>1 DEF FilesInv, Nested
  <2>2. \A i \in 1 .. m : stack'[i].file \in loaded' /\ stack'[i].before \subseteq bound'
    BY <1>0, <1>1, <1>3, <1>7 DEF FilesInv, Nested
  <2>3. \A i, j \in 1 .. m : stack'[i].file = stack'[j].file => i = j
    BY <1>0, <1>1, <1>3, <1>7 DEF FilesInv, Nested
  <2>4. \A i, j \in 1 .. m : i <= j => stack'[i].before \subseteq stack'[j].before
    BY <1>0, <1>1, <1>3, <1>7 DEF FilesInv, Nested
  <2>5. ASSUME NEW i \in 1 .. m
        PROVE  IF i = m THEN current' = stack'[i].file.dir /\ exports' = Told(i)'
               ELSE stack'[i + 1].dir = stack'[i].file.dir /\ stack'[i + 1].exports = Told(i)'
    <3>1. CASE i = m
      BY <1>3, <1>7, <1>8, <3>1
    <3>2. CASE i = n
      BY <1>1, <1>3, <1>6, <1>7, <2>1, <3>2
    <3>3. CASE i \in 1 .. n - 1
      BY <1>0, <1>1, <1>3, <1>5, <1>7, <3>3 DEF FilesInv, Nested
    <3>4. i = m \/ i = n \/ i \in 1 .. n - 1
      BY <1>7
    <3>5. QED
      BY <3>1, <3>2, <3>3, <3>4, Zenon
  <2>6. Len(stack') = m
    BY <1>3, <1>7
  <2>7. QED
    BY <2>2, <2>3, <2>4, <2>5, <2>6 DEF Nested
<1>10. Unread'
  BY <1>1, <1>2 DEF FilesInv, Unread
<1>11. QED
  BY <1>4, <1>9, <1>10 DEF FilesInv

\* A module ends, or fails: its importer is the running file again.
LEMMA Leaves ==
  ASSUME FilesInv, M!Depth > 1, M!Leave, NEW t \in Seq(Statements),
         text' = [text EXCEPT ![M!Here] = t],
         UNCHANGED loaded, bound' \subseteq bound, M!Top.before \subseteq bound'
  PROVE  FilesInv'
<1>0. PICK n \in Nat : n = Len(stack)
  BY InnermostIs DEF FilesInv
<1>1. PICK m \in Nat : n = m + 1 /\ m \in 1 .. m
  <2>1. n > 1
    BY <1>0, InnermostIs DEF FilesInv
  <2>2. n - 1 \in Nat /\ n = n - 1 + 1 /\ n - 1 \in 1 .. n - 1
    BY <2>1
  <2>3. QED
    BY <2>2, Zenon
<1>2. M!Here = stack[n].file /\ M!Here \in M!Modules /\ M!Top = stack[n] /\ M!Here \in loaded
  BY <1>0, InnermostIs DEF FilesInv, Nested
<1>3. /\ stack' \in Seq(Importers) /\ stack' # <<>> /\ Len(stack') = m
      /\ \A i \in 1 .. m : stack'[i] = stack[i]
  <2>1. stack' = Front(stack)
    BY DEF M!Leave, M!Front, Front
  <2>2. QED
    <3>1. /\ Front(stack) \in Seq(Importers) /\ Len(Front(stack)) = Len(stack) - 1
          /\ \A i \in 1 .. Len(stack) - 1 : Front(stack)[i] = stack[i]
      BY Popped DEF FilesInv, FileTypes
    <3>2. Len(stack) - 1 = m /\ m # 0
      BY <1>0, <1>1
    <3>3. Front(stack) # <<>>
      BY <3>1, <3>2
    <3>4. QED
      BY <2>1, <3>1, <3>2, <3>3, Zenon
<1>4. exports' = stack[n].exports /\ current' = stack[n].dir
  BY <1>2 DEF M!Leave
<1>5. FileTypes'
  BY <1>3, Zenon DEF FilesInv, FileTypes
<1>6. \A i \in 1 .. m : Told(i)' = Told(i)
  <2>1. \A i \in 1 .. m : i \in 1 .. Len(stack) - 1 /\ stack'[i] = stack[i]
    BY <1>0, <1>1, <1>3
  <2>2. QED
    BY <2>1, OthersTellTheSame
<1>7. Nested'
  <2>1. \A i \in 1 .. m : stack'[i].file \in loaded'
    BY <1>0, <1>1, <1>3 DEF FilesInv, Nested
  <2>2. \A i \in 1 .. m : stack'[i].before \subseteq bound'
    <3>1. \A i \in 1 .. m : stack[i].before \subseteq stack[n].before
      BY <1>0, <1>1 DEF FilesInv, Nested
    <3>2. QED
      BY <1>2, <1>3, <3>1
  <2>3. \A i, j \in 1 .. m :
          /\ stack'[i].file = stack'[j].file => i = j
          /\ i <= j => stack'[i].before \subseteq stack'[j].before
    <3>1. \A i, j \in 1 .. m :
            /\ stack[i].file = stack[j].file => i = j
            /\ i <= j => stack[i].before \subseteq stack[j].before
      BY <1>0, <1>1 DEF FilesInv, Nested
    <3>2. QED
      BY <1>3, <3>1
  <2>4. ASSUME NEW i \in 1 .. m
        PROVE  IF i = m THEN current' = stack'[i].file.dir /\ exports' = Told(i)'
               ELSE stack'[i + 1].dir = stack'[i].file.dir /\ stack'[i + 1].exports = Told(i)'
    <3>1. /\ stack[i + 1].dir = stack[i].file.dir /\ stack[i + 1].exports = Told(i)
      BY <1>0, <1>1 DEF FilesInv, Nested
    <3>2. QED
      BY <1>1, <1>3, <1>4, <1>6, <3>1
  <2>5. QED
    BY <1>3, <2>1, <2>2, <2>3, <2>4 DEF Nested
<1>8. Unread'
  BY <1>2 DEF FilesInv, FileTypes, Unread
<1>9. QED
  BY <1>5, <1>7, <1>8 DEF FilesInv

LEMMA FoundIsFile ==
  ASSUME NEW spec, NEW dir, M!Resolve(spec, dir) # M!NoFile
  PROVE  M!Resolve(spec, dir) \in Files /\ M!Resolve(spec, dir).name = spec
<1> DEFINE dirs == M!SearchDirs(dir)
           hit(d) == [dir |-> d, name |-> spec]
           I == {i \in 1 .. Len(dirs) : hit(dirs[i]) \in Files}
           at == IF I # {} THEN M!Min(I) ELSE 0
<1>1. M!Resolve(spec, dir) = IF at = 0 THEN M!NoFile ELSE hit(dirs[at])
  BY Zenon DEF M!Resolve, M!SelectInSeq
<1>2. at # 0
  BY <1>1
<1>3. at \in I
  <2>1. I \in SUBSET Nat /\ I # {}
    BY <1>2
  <2> HIDE DEF I
  <2>2. \E x \in I : \A y \in I : x <= y
    BY <2>1, Least
  <2>3. QED
    BY <2>1, <2>2 DEF M!Min
<1> HIDE DEF at
<1>4. hit(dirs[at]) \in Files
  BY <1>3
<1>5. QED
  BY <1>1, <1>2, <1>4

LEMMA FoundIsModule ==
  ASSUME NEW spec, NEW dir, M!Resolve(spec, dir) # M!NoFile
  PROVE  M!Resolve(spec, dir) \in M!Modules
BY FoundIsFile DEF M!Modules

LEMMA WrittenAreStatements ==
  /\ \A s \in M!Declarations :
       s \in Statements /\ s.op \in {"class", "let", "split"} /\ (s.flag => s.op \in {"class", "let"})
  /\ \A spec \in Specs \cup Urls, guarded \in BOOLEAN :
       M!Import(spec, guarded) \in Statements /\ M!Import(spec, guarded).op = "import"
<1>1. ASSUME NEW s \in M!Declarations
      PROVE  /\ s \in Statements /\ s.op \in {"class", "let", "split"}
             /\ s.flag => s.op \in {"class", "let"}
  <2>1. PICK k \in Kinds, n \in Declared, x \in BOOLEAN : s = [op |-> k, name |-> n, flag |-> x]
    BY DEF M!Declarations, M!Declare
  <2>2. \A m \in Declared : s # [op |-> "split", name |-> m, flag |-> TRUE]
    BY DEF M!Declarations, M!Declare
  <2>3. ~(k = "split" /\ x = TRUE)
    BY <2>1, <2>2
  <2>4. k \in {"class", "let", "split"}
    BY ImportsAssumption
  <2>5. QED
    BY <2>1, <2>3, <2>4 DEF Statements
<1>2. QED
  BY <1>1 DEF M!Import, Statements

LEMMA LoadsFollow ==
  ASSUME FilesInv, NEW s \in Statements, s.op = "import", M!Write(s),
         NEW f \in M!Modules, NEW guarded \in BOOLEAN, M!Load(f, guarded)
  PROVE  FilesInv' /\ ~(Len(stack') < Len(stack))
<1>1. /\ text' = [text EXCEPT ![M!Here] = Append(@, s)]
      /\ loaded \subseteq M!Modules /\ bound \subseteq Declared
  BY DEF M!Write, FilesInv, FileTypes
<1>2. CASE UNCHANGED <<stack, current, bound, exports>> /\ loaded' \in {loaded, loaded \cup {f}}
  <2>1. exports' = IF s.op \in {"class", "let"} /\ s.flag /\ exports # M!NoExports
                   THEN exports \cup {s.name} ELSE exports
    BY <1>2
  <2>2. loaded \subseteq loaded' /\ loaded' \subseteq M!Modules /\ bound \subseteq bound'
        /\ bound' \subseteq Declared /\ UNCHANGED <<stack, current>>
    BY <1>1, <1>2
  <2>3. FilesInv'
    BY <1>1, <2>1, <2>2, Says
  <2>4. Len(stack) \in Nat /\ Len(stack') = Len(stack)
    BY <2>2, InnermostIs DEF FilesInv
  <2>5. QED
    BY <2>3, <2>4
<1>3. CASE f \notin loaded /\ M!Enter(f, guarded)
  <2> DEFINE e == [file |-> f, dir |-> current, exports |-> exports, before |-> bound,
                   guarded |-> guarded]
  <2>1. /\ loaded' = loaded \cup {f} /\ stack' = Append(stack, e) /\ exports' = {}
        /\ current' = f.dir /\ bound' = bound /\ f \notin loaded
    BY <1>3 DEF M!Enter
  <2>2. e \in Importers
    <3>1. PICK n \in 1 .. Len(stack) : n = Len(stack) /\ stack[n].file \in M!Modules
      BY InnermostIs DEF FilesInv
    <3>2. current = stack[n].file.dir /\ exports = Told(n)
      BY <3>1 DEF FilesInv, Nested
    <3>3. current \in M!Dirs
      BY <3>1, <3>2 DEF M!Dirs
    <3>4. exports \in SUBSET (Declared \cup M!NoExports)
      <4>1. text[stack[n].file] \in Seq(Statements)
        BY <3>1 DEF FilesInv, FileTypes
      <4>2. QED
        BY <3>2, <4>1, ExportsAreNames DEF Told
    <3>5. QED
      BY <1>1, <3>3, <3>4 DEF Importers
  <2>3. e.file = f /\ e.dir = current /\ e.exports = exports /\ e.before = bound
    OBVIOUS
  <2> HIDE DEF e
  <2>4. FilesInv'
    BY <1>1, <2>1, <2>2, <2>3, Enters
  <2>5. Len(stack') = Len(stack) + 1 /\ Len(stack) \in Nat
    BY <2>1, <2>2, AppendProperties, InnermostIs DEF FilesInv, FileTypes
  <2>6. QED
    BY <2>4, <2>5
<1>4. QED
  BY <1>2, <1>3 DEF M!Load, M!Unreadable

\* Every step keeps the importers in order, and only the end of a module takes
\* names away, none of which its importer had.
LEMMA FilesFollow ==
  ASSUME FilesInv, M!Next
  PROVE  FilesInv' /\ (Len(stack') < Len(stack) => M!Top.before \subseteq bound')
<1>1. /\ Len(stack) \in Nat /\ M!Here \in M!Modules /\ text[M!Here] \in Seq(Statements)
      /\ M!Top.before \subseteq bound /\ text = [text EXCEPT ![M!Here] = text[M!Here]]
  BY InnermostIs DEF FilesInv, FileTypes, Nested
<1>2. CASE M!EvalDeclaration
  <2>1. PICK s \in M!Declarations :
          /\ M!Write(s) /\ exports' = M!Registered(s)
          /\ bound' = IF s.op # "class" /\ M!InBlock THEN bound ELSE bound \cup {s.name}
    BY <1>2 DEF M!EvalDeclaration
  <2>2. UNCHANGED <<stack, loaded, current>>
    BY <1>2 DEF M!EvalDeclaration
  <2>3. s \in Statements /\ (s.flag => s.op \in {"class", "let"}) /\ s.name \in Declared
    BY WrittenAreStatements DEF M!Declarations, M!Declare
  <2>4. /\ text' = [text EXCEPT ![M!Here] = Append(@, s)]
        /\ exports' = IF s.op \in {"class", "let"} /\ s.flag /\ exports # M!NoExports
                      THEN exports \cup {s.name} ELSE exports
    BY <2>1, <2>3 DEF M!Write, M!Registered
  <2>5. bound \subseteq bound' /\ bound' \subseteq Declared /\ loaded \subseteq M!Modules
    BY <2>1, <2>3 DEF FilesInv, FileTypes
  <2>6. FilesInv'
    BY <2>2, <2>3, <2>4, <2>5, Says
  <2>7. QED
    BY <1>1, <2>2, <2>6
<1>3. ASSUME NEW spec \in Specs \cup Urls, NEW guarded \in BOOLEAN,
             M!Write(M!Import(spec, guarded)), NEW f,
             M!NotFound(guarded) \/ (f \in M!Modules /\ M!Load(f, guarded))
      PROVE  FilesInv' /\ ~(Len(stack') < Len(stack))
  <2>1. PICK s \in Statements : s = M!Import(spec, guarded) /\ s.op = "import"
    BY WrittenAreStatements
  <2>2. CASE M!NotFound(guarded)
    <3>1. /\ text' = [text EXCEPT ![M!Here] = Append(@, s)]
          /\ UNCHANGED <<stack, bound, loaded, exports, current>>
      BY <1>3, <2>1, <2>2 DEF M!Write, M!NotFound
    <3>2. loaded \subseteq M!Modules /\ bound \subseteq Declared
      BY DEF FilesInv, FileTypes
    <3>3. FilesInv'
      BY <2>1, <3>1, <3>2, Says
    <3>4. QED
      BY <1>1, <3>1, <3>3
  <2>3. CASE f \in M!Modules /\ M!Load(f, guarded)
    BY <1>3, <2>1, <2>3, LoadsFollow
  <2>4. QED
    BY <1>3, <2>2, <2>3
<1>4. CASE M!EvalImport
  <2>1. PICK spec \in Specs, guarded \in BOOLEAN :
          /\ M!Write(M!Import(spec, guarded))
          /\ IF M!Resolve(spec, current) = M!NoFile THEN M!NotFound(guarded)
             ELSE M!Load(M!Resolve(spec, current), guarded)
    BY <1>4 DEF M!EvalImport
  <2>2. PICK f : f = M!Resolve(spec, current)
    OBVIOUS
  <2>3. M!NotFound(guarded) \/ (f \in M!Modules /\ M!Load(f, guarded))
    BY <2>1, <2>2, FoundIsModule
  <2>4. spec \in Specs \cup Urls /\ M!Write(M!Import(spec, guarded))
    BY <2>1
  <2>5. FilesInv' /\ ~(Len(stack') < Len(stack))
    BY <1>3, <2>3, <2>4, Zenon
  <2>6. QED
    BY <2>5
<1>5. CASE M!EvalUrl
  <2>1. PICK url \in Urls, guarded \in BOOLEAN :
          /\ M!Write(M!Import(url, guarded))
          /\ M!NotFound(guarded) \/ M!Load([dir |-> Cache, name |-> url], guarded)
    BY <1>5 DEF M!EvalUrl
  <2>2. PICK f \in M!Modules : f = [dir |-> Cache, name |-> url]
    BY DEF M!Modules, M!UrlFiles
  <2>3. M!NotFound(guarded) \/ (f \in M!Modules /\ M!Load(f, guarded))
    BY <2>1, <2>2
  <2>4. url \in Specs \cup Urls /\ M!Write(M!Import(url, guarded))
    BY <2>1
  <2>5. FilesInv' /\ ~(Len(stack') < Len(stack))
    BY <1>3, <2>3, <2>4, Zenon
  <2>6. QED
    BY <2>5
<1>6. CASE M!EvalFail \/ M!EndProgram
  <2>1. UNCHANGED <<text, stack, bound, exports, current, loaded>>
    BY <1>6 DEF M!EvalFail, M!EndProgram
  <2>2. QED
    BY <1>1, <2>1, FilesStay
<1>7. CASE M!EndModule
  <2>1. M!Depth > 1 /\ M!Leave /\ text' = text /\ loaded' = loaded
    BY <1>7 DEF M!EndModule
  <2>2. bound' \subseteq bound /\ M!Top.before \subseteq bound'
    BY <1>1, <1>7 DEF M!EndModule, M!Kept, M!KeptUrl
  <2>3. QED
    BY <1>1, <2>1, <2>2, Leaves
<1>8. CASE M!Unwind
  <2>1. M!Depth > 1 /\ M!Leave /\ bound' = bound /\ loaded' = loaded
    BY <1>8 DEF M!Unwind
  <2>2. PICK t \in Seq(Statements) : text' = [text EXCEPT ![M!Here] = t]
    <3>1. PICK rest \in {<<>>} \cup {<<s>> : s \in {d \in M!Declarations : d.flag}} :
            text' = [text EXCEPT ![M!Here] = @ \o rest]
      BY <1>8 DEF M!Unwind
    <3>2. rest \in Seq(Statements)
      <4>1. CASE rest = <<>>
        BY <4>1
      <4>2. ASSUME NEW d \in M!Declarations, rest = <<d>> PROVE rest \in Seq(Statements)
        <5>1. d \in Statements
          BY WrittenAreStatements
        <5>2. QED
          BY <4>2, <5>1
      <4>3. QED
        BY <3>1, <4>1, <4>2
    <3>3. text[M!Here] \o rest \in Seq(Statements)
      BY <1>1, <3>2
    <3>4. QED
      BY <3>1, <3>3
  <2>3. QED
    BY <1>1, <2>1, <2>2, Leaves
<1>9. QED
  BY <1>2, <1>4, <1>5, <1>6, <1>7, <1>8 DEF M!Next

LEMMA FilesBegin == M!Init => FilesInv
<1> SUFFICES ASSUME M!Init PROVE FilesInv
  OBVIOUS
<1> DEFINE e == [file |-> EntryFile, dir |-> EntryFile.dir, exports |-> M!NoExports,
                 before |-> {}, guarded |-> FALSE]
<1>1. /\ stack = <<e>> /\ loaded = {EntryFile} /\ bound = {} /\ exports = M!NoExports
      /\ current = EntryFile.dir /\ text = [f \in M!Modules |-> <<>>]
  BY DEF M!Init
<1>2. EntryFile \in M!Modules /\ EntryFile.dir \in M!Dirs
  BY ImportsAssumption DEF M!Modules, M!Dirs
<1>3. e \in Importers /\ e.file = EntryFile /\ e.before = {}
  BY <1>2 DEF Importers
<1> HIDE DEF e
<1>4. stack \in Seq(Importers) /\ Len(stack) = 1 /\ stack[1] = e /\ stack # <<>>
  BY <1>1, <1>3
<1>5. FileTypes
  BY <1>1, <1>2, <1>4 DEF FileTypes
<1>6. Nested
  BY <1>1, <1>3, <1>4 DEF Nested, Told
<1>7. QED
  BY <1>1, <1>5, <1>6 DEF FilesInv, Unread

\* However an import ends: no file runs twice at a time, imports and exports
\* are again those of the file that goes on, and it keeps every name it had
\* (eval_import, eval_import_url, ModuleContext, LoadedModules::mark).
THEOREM ImportersGoOn == NameSpec => ImportsLeaveTheirImporter
<1> DEFINE ImportInv == program = "files" => FilesInv
           Safely == program = "files" => M!NoFileIsReentered /\ M!ContextIsTheRunningFile
           Spares == program = "files" /\ Len(stack') < Len(stack) => M!Top.before \subseteq bound'
<1>1. NameInit => ImportInv
  BY FilesBegin DEF NameInit
<1>2. ImportInv /\ [NameNext]_nameVars => ImportInv'
  <2> SUFFICES ASSUME ImportInv, [NameNext]_nameVars, program' = "files" PROVE FilesInv'
    OBVIOUS
  <2>1. CASE NameNext
    <3>1. program = "files" /\ M!Next
      BY <2>1 DEF NameNext
    <3>2. QED
      BY <3>1, FilesFollow
  <2>2. CASE UNCHANGED nameVars
    <3>1. program = "files" /\ UNCHANGED <<text, stack, bound, exports, current, loaded>>
      BY <2>2 DEF nameVars, modules
    <3>2. QED
      BY <3>1, FilesStay
  <2>3. QED
    BY <2>1, <2>2
<1>3. ImportInv => Safely
  <2> SUFFICES ASSUME FilesInv PROVE M!NoFileIsReentered /\ M!ContextIsTheRunningFile
    OBVIOUS
  <2>1. M!NoFileIsReentered
    BY InnermostIs DEF FilesInv, Nested, M!NoFileIsReentered
  <2>2. M!ContextIsTheRunningFile
    BY InnermostIs DEF FilesInv, Nested, Told, M!ContextIsTheRunningFile, M!Written
  <2>3. QED
    BY <2>1, <2>2
<1>4. ImportInv /\ [NameNext]_nameVars => [Spares]_nameVars
  <2> SUFFICES ASSUME ImportInv, NameNext, program = "files", Len(stack') < Len(stack)
               PROVE  M!Top.before \subseteq bound'
    OBVIOUS
  <2>1. M!Next
    BY DEF NameNext
  <2>2. QED
    BY <2>1, FilesFollow
<1>5. QED
  BY <1>1, <1>2, <1>3, <1>4, PTL DEF NameSpec, ImportsLeaveTheirImporter

-----------------------------------------------------------------------------
(* What the static walk finds.  It is a recursive function; each call of its  *)
(* has a file less to enter or a statement less to look at, so that it is     *)
(* what its equation says, and what it finds is a set of files closed under   *)
(* the imports it followed, and the least such set.                           *)

Finds == [names : SUBSET Declared, complete : BOOLEAN]
Target(w) == M!Resolve(Head(w.todo).stmt.name, Head(w.todo).dir)
Passes(w) == Head(w.todo).stmt.op # "import"
Stops(w) == ~Passes(w) /\ M!Unfollowed(Head(w.todo), w.seen)
Descends(w) == ~Passes(w) /\ ~Stops(w) /\ Target(w) \notin w.seen

\* The one call the walk makes, and what it makes of the answer.
WalkNext(w) ==
  [todo |-> (IF Descends(w) /\ Target(w) \notin broken THEN M!Said(Target(w)) ELSE <<>>)
              \o Tail(w.todo),
   seen |-> IF Descends(w) THEN w.seen \cup {Target(w)} ELSE w.seen]
WalkMade(w, r) ==
  [names |-> IF Descends(w) /\ Target(w) \notin broken
             THEN r.names \cup M!Contributed(text[Target(w)]) ELSE r.names,
   complete |-> IF Stops(w) \/ (Descends(w) /\ Target(w) \in broken) THEN FALSE ELSE r.complete]

\* How far a walk still has to go.
Ahead(w) == <<Cardinality(Files \ w.seen), Len(w.todo)>>

LEMMA ContributedAreDeclared ==
  ASSUME NEW t \in Seq(Statements)
  PROVE  M!Contributed(t) \subseteq Declared
<1>1. \A r \in M!Range(t) : r \in Statements
  <2>1. \A k \in DOMAIN t : t[k] \in Statements
    BY ElementOfSeq, LenProperties
  <2>2. QED
    BY <2>1, Zenon DEF M!Range
<1>2. \A r \in Statements : r.op # "import" => r.name \in Declared
  BY DEF Statements
<1>3. QED
  BY <1>1, <1>2 DEF M!Contributed, M!DeclaredIn, M!ExportedIn, M!SplitIn

\* What a file says, as the walk looks at it.
LEMMA SaidIs ==
  ASSUME FileTypes, NEW f \in M!Modules
  PROVE  /\ M!Said(f) \in Seq([stmt : M!Statements, dir : M!Dirs])
         /\ \A p : p \in Range(M!Said(f)) <=>
                     \E s \in Range(text[f]) : p = [stmt |-> s, dir |-> f.dir]
<1>1. text[f] \in Seq(Statements) /\ f.dir \in M!Dirs
  BY DEF FileTypes, M!Dirs
<1>2. PICK t : t = text[f] /\ t \in Seq(Statements)
  BY <1>1
<1>3. DOMAIN t = 1 .. Len(t) /\ Len(t) \in Nat /\ \A i \in 1 .. Len(t) : t[i] \in M!Statements
  <2>1. DOMAIN t = 1 .. Len(t) /\ Len(t) \in Nat /\ \A i \in 1 .. Len(t) : t[i] \in Statements
    BY <1>2, LenProperties, ElementOfSeq
  <2>2. \A s \in Statements : s \in M!Statements
    BY DEF Statements, M!Statements
  <2>3. QED
    BY <2>1, <2>2
<1>4. M!Said(f) = [i \in 1 .. Len(t) |-> [stmt |-> t[i], dir |-> f.dir]]
  BY <1>2, <1>3 DEF M!Said
<1>5. M!Said(f) \in [1 .. Len(t) -> [stmt : M!Statements, dir : M!Dirs]]
  BY <1>1, <1>3, <1>4
<1>6. M!Said(f) \in Seq([stmt : M!Statements, dir : M!Dirs])
  <2>1. PICK n \in Nat : n = Len(t)
    BY <1>3
  <2>2. PICK S : S = [stmt : M!Statements, dir : M!Dirs]
    OBVIOUS
  <2>3. PICK g \in [1 .. n -> S] : g = M!Said(f)
    BY <1>5, <2>1, <2>2
  <2>4. g \in Seq(S)
    BY <2>1, <2>3, SeqDef
  <2>5. QED
    BY <2>2, <2>3, <2>4
<1>7. \A p : p \in Range(M!Said(f)) <=>
               \E s \in Range(t) : p = [stmt |-> s, dir |-> f.dir]
  BY <1>3, <1>4 DEF Range
<1>8. QED
  BY <1>2, <1>6, <1>7

LEMMA TodoIs ==
  ASSUME NEW w \in M!Walks, w.todo # <<>>
  PROVE  /\ Head(w.todo) \in [stmt : M!Statements, dir : M!Dirs]
         /\ Tail(w.todo) \in Seq([stmt : M!Statements, dir : M!Dirs])
         /\ Len(w.todo) \in Nat /\ Len(Tail(w.todo)) \in Nat
         /\ Len(Tail(w.todo)) < Len(w.todo)
         /\ Range(w.todo) = {Head(w.todo)} \cup Range(Tail(w.todo))
<1>1. PICK s : s = w.todo /\ s \in Seq([stmt : M!Statements, dir : M!Dirs]) /\ s # <<>>
  BY DEF M!Walks
<1>2. /\ Head(s) \in [stmt : M!Statements, dir : M!Dirs] /\ Head(s) = s[1]
      /\ Tail(s) \in Seq([stmt : M!Statements, dir : M!Dirs]) /\ Len(Tail(s)) = Len(s) - 1
      /\ \A i \in 1 .. Len(Tail(s)) : Tail(s)[i] = s[i + 1]
  <2> DEFINE S == [stmt : M!Statements, dir : M!Dirs]
  <2>1. s \in Seq(S) /\ s # <<>>
    BY <1>1
  <2> HIDE DEF S
  <2>2. /\ Head(s) \in S /\ Head(s) = s[1] /\ Tail(s) \in Seq(S) /\ Len(Tail(s)) = Len(s) - 1
        /\ \A i \in 1 .. Len(Tail(s)) : Tail(s)[i] = s[i + 1]
    BY <2>1, HeadTailProperties
  <2>3. QED
    BY <2>2 DEF S
<1>3. /\ Len(s) \in Nat /\ DOMAIN s = 1 .. Len(s) /\ Len(s) # 0
      /\ DOMAIN Tail(s) = 1 .. Len(Tail(s))
  BY <1>1, <1>2, LenProperties, EmptySeq
<1>4. PICK u : u = Tail(s)
  OBVIOUS
<1>5. \A x : x \in Range(s) <=> x = s[1] \/ x \in Range(u)
  <2>1. ASSUME NEW i \in 1 .. Len(s) PROVE s[i] = s[1] \/ s[i] \in Range(u)
    <3>1. CASE i = 1
      BY <3>1
    <3>2. CASE i # 1
      <4>1. i - 1 \in 1 .. Len(u) /\ s[i - 1 + 1] = u[i - 1] /\ i - 1 + 1 = i
        BY <1>2, <1>3, <1>4, <3>2
      <4>2. QED
        BY <1>3, <1>4, <4>1 DEF Range
    <3>3. QED
      BY <3>1, <3>2
  <2>2. ASSUME NEW i \in 1 .. Len(u) PROVE u[i] \in Range(s)
    <3>1. i + 1 \in 1 .. Len(s) /\ u[i] = s[i + 1]
      BY <1>2, <1>3, <1>4
    <3>2. QED
      BY <1>3, <3>1 DEF Range
  <2>3. s[1] \in Range(s)
    BY <1>3 DEF Range
  <2>4. QED
    BY <1>3, <1>4, <2>1, <2>2, <2>3 DEF Range
<1>6. QED
  BY <1>1, <1>2, <1>3, <1>4, <1>5

LEMMA AheadIsPair == \A w \in M!Walks : Ahead(w) \in Nat \X Nat
<1>1. SUFFICES ASSUME NEW w \in M!Walks PROVE Ahead(w) \in Nat \X Nat
  OBVIOUS
<1>2. Cardinality(Files \ w.seen) \in Nat
  BY ImportsAssumption, FS_Subset, FS_CardinalityType
<1>3. Len(w.todo) \in Nat
  BY LenProperties DEF M!Walks
<1>4. QED
  BY <1>2, <1>3 DEF Ahead

LEMMA WalkGoesDown ==
  ASSUME FileTypes, NEW w \in M!Walks, w.todo # <<>>
  PROVE  WalkNext(w) \in M!Walks /\ Below(Ahead(WalkNext(w)), Ahead(w))
<1> DEFINE S == [stmt : M!Statements, dir : M!Dirs]
<1>1. w.seen \in SUBSET M!Modules /\ Tail(w.todo) \in Seq(S)
  BY TodoIs DEF M!Walks
<1>2. IsFiniteSet(Files \ w.seen) /\ Cardinality(Files \ w.seen) \in Nat
  BY ImportsAssumption, FS_Subset, FS_CardinalityType
<1>3. CASE Descends(w)
  <2>1. Target(w) \in Files \ w.seen /\ Target(w) \in M!Modules
    BY <1>3, FoundIsFile DEF Descends, Stops, Target, M!Unfollowed, M!Modules
  <2>2. PICK f : f = Target(w)
    OBVIOUS
  <2>3. PICK s \in Seq(S) : s = IF f \notin broken THEN M!Said(f) ELSE <<>>
    <3>1. M!Said(f) \in Seq(S)
      BY <2>1, <2>2, SaidIs, Zenon
    <3>2. <<>> \in Seq(S)
      BY EmptySeq
    <3>3. QED
      BY <3>1, <3>2
  <2>4. WalkNext(w) = [todo |-> s \o Tail(w.todo), seen |-> w.seen \cup {f}]
    BY <1>3, <2>2, <2>3 DEF WalkNext
  <2>5. s \o Tail(w.todo) \in Seq(S)
    BY <1>1, <2>3, ConcatProperties
  <2>6. Files \ (w.seen \cup {f}) = (Files \ w.seen) \ {f}
    OBVIOUS
  <2>7. Cardinality(Files \ (w.seen \cup {f})) = Cardinality(Files \ w.seen) - 1
    <3>1. PICK A : A = Files \ w.seen
      OBVIOUS
    <3>2. IsFiniteSet(A) /\ f \in A
      BY <1>2, <2>1, <2>2, <3>1
    <3>3. Cardinality(A \ {f}) = Cardinality(A) - 1
      BY <3>2, FS_RemoveElement
    <3>4. QED
      BY <2>6, <3>1, <3>3
  <2>8. Cardinality(Files \ WalkNext(w).seen) < Cardinality(Files \ w.seen)
    BY <1>2, <2>4, <2>7
  <2>9. QED
    BY <1>1, <2>1, <2>2, <2>4, <2>5, <2>8 DEF Below, Ahead, M!Walks
<1>4. CASE ~Descends(w)
  <2>1. <<>> \o Tail(w.todo) = Tail(w.todo)
    BY <1>1, ConcatEmptySeq
  <2>2. WalkNext(w) = [todo |-> Tail(w.todo), seen |-> w.seen]
    BY <1>4, <2>1 DEF WalkNext
  <2>3. QED
    BY <1>1, <2>2, TodoIs DEF Below, Ahead, M!Walks
<1>5. QED
  BY <1>3, <1>4

LEMMA WalkMakesFinds ==
  ASSUME FileTypes, NEW w \in M!Walks, w.todo # <<>>, NEW r \in Finds
  PROVE  WalkMade(w, r) \in Finds
<1>1. Descends(w) => text[Target(w)] \in Seq(Statements)
  BY FoundIsFile DEF Descends, Stops, Target, M!Unfollowed, M!Modules, FileTypes
<1>2. QED
  BY <1>1, ContributedAreDeclared DEF WalkMade, Finds

\* A find with another part, written out.
WrittenOut(r, c, ns, all) ==
  /\ r = [names |-> ns, complete |-> all]
  /\ [r EXCEPT !.complete = FALSE] = [names |-> ns, complete |-> FALSE]
  /\ [r EXCEPT !.names = @ \cup c] = [names |-> ns \cup c, complete |-> all]

LEMMA FindIs ==
  ASSUME NEW r \in Finds, NEW c
  PROVE  \E ns, all : WrittenOut(r, c, ns, all)
<1>1. r = [names |-> r.names, complete |-> r.complete]
  BY DEF Finds
<1>2. PICK ns, all : r = [names |-> ns, complete |-> all]
  BY <1>1, Zenon
<1>3. \A a, b, e : [[names |-> a, complete |-> b] EXCEPT !.complete = e]
                     = [names |-> a, complete |-> e]
  OBVIOUS
<1>4. [[names |-> ns, complete |-> all] EXCEPT !.names = @ \cup c]
        = [names |-> ns \cup c, complete |-> all]
  OBVIOUS
<1>5. [[names |-> ns, complete |-> all] EXCEPT !.complete = FALSE]
        = [names |-> ns, complete |-> FALSE]
  BY <1>3, Zenon
<1>6. WrittenOut(r, c, ns, all)
  BY <1>2, <1>4, <1>5, Zenon DEF WrittenOut
<1>7. QED
  BY <1>6, Zenon

\* The walk is what its definition says it is.
LEMMA WalkIs ==
  ASSUME FileTypes
  PROVE  \A w \in M!Walks :
           /\ M!Walk[w] \in Finds
           /\ M!Walk[w] = IF w.todo = <<>> THEN M!Found({}, TRUE)
                          ELSE WalkMade(w, M!Walk[WalkNext(w)])
<1> DEFINE Looks(g, w) ==
      IF w.todo = <<>> THEN M!Found({}, TRUE)
      ELSE LET p == Head(w.todo)
               f == M!Resolve(p.stmt.name, p.dir)
               After(first, seen) == g[[todo |-> first \o Tail(w.todo), seen |-> seen]]
           IN  IF p.stmt.op # "import" THEN After(<<>>, w.seen)
               ELSE IF M!Unfollowed(p, w.seen) THEN [After(<<>>, w.seen) EXCEPT !.complete = FALSE]
               ELSE IF f \in w.seen THEN After(<<>>, w.seen)
               ELSE IF f \in broken
               THEN [After(<<>>, w.seen \cup {f}) EXCEPT !.complete = FALSE]
               ELSE [After(M!Said(f), w.seen \cup {f}) EXCEPT !.names = @ \cup M!Contributed(text[f])]
    Is(g) == g = [w \in M!Walks |-> Looks(g, w)]
<1>1. M!Walk = CHOOSE g : Is(g)
  BY Zenon DEF M!Walk
<1> HIDE DEF Looks, Is
<1>2. ASSUME NEW g, NEW w \in M!Walks, w.todo # <<>>, g[WalkNext(w)] \in Finds
      PROVE  Looks(g, w) = WalkMade(w, g[WalkNext(w)])
  <2>1. PICK r \in Finds : r = g[WalkNext(w)]
    BY <1>2
  <2> PICK c : c = M!Contributed(text[Target(w)])
    OBVIOUS
  <2>2. PICK ns, all :
          /\ r = [names |-> ns, complete |-> all]
          /\ [r EXCEPT !.complete = FALSE] = [names |-> ns, complete |-> FALSE]
          /\ [r EXCEPT !.names = @ \cup c] = [names |-> ns \cup c, complete |-> all]
    <3>1. \E ns, all : WrittenOut(r, c, ns, all)
      BY FindIs, Zenon
    <3>2. QED
      BY <3>1, Zenon DEF WrittenOut
  <2>3. c = M!Contributed(text[Target(w)])
    OBVIOUS
  <2>4. CASE Passes(w) \/ (~Stops(w) /\ Target(w) \in w.seen)
    <3>1. WalkNext(w) = [todo |-> <<>> \o Tail(w.todo), seen |-> w.seen]
      BY <2>4 DEF WalkNext, Descends
    <3>2. Looks(g, w) = r
      BY <1>2, <2>1, <2>4, <3>1, Zenon DEF Looks, Passes, Stops, Target
    <3>3. WalkMade(w, r) = [names |-> ns, complete |-> all]
      BY <2>2, <2>4 DEF WalkMade, Descends, Stops
    <3>4. QED
      BY <2>1, <2>2, <3>2, <3>3, Zenon
  <2>5. CASE Stops(w)
    <3>1. WalkNext(w) = [todo |-> <<>> \o Tail(w.todo), seen |-> w.seen]
      BY <2>5 DEF WalkNext, Descends
    <3>2. Looks(g, w) = [r EXCEPT !.complete = FALSE]
      BY <1>2, <2>1, <2>5, <3>1, Zenon DEF Looks, Passes, Stops
    <3>3. WalkMade(w, r) = [names |-> ns, complete |-> FALSE]
      BY <2>2, <2>5 DEF WalkMade, Descends
    <3>4. QED
      BY <2>1, <2>2, <3>2, <3>3, Zenon
  <2>6. CASE Descends(w) /\ Target(w) \in broken
    <3>1. WalkNext(w) = [todo |-> <<>> \o Tail(w.todo), seen |-> w.seen \cup {Target(w)}]
      BY <2>6 DEF WalkNext
    <3>2. Looks(g, w) = [r EXCEPT !.complete = FALSE]
      BY <1>2, <2>1, <2>6, <3>1, Zenon DEF Looks, Passes, Stops, Target, Descends
    <3>3. WalkMade(w, r) = [names |-> ns, complete |-> FALSE]
      BY <2>2, <2>6 DEF WalkMade
    <3>4. QED
      BY <2>1, <2>2, <3>2, <3>3, Zenon
  <2>7. CASE Descends(w) /\ Target(w) \notin broken
    <3>2. WalkNext(w) = [todo |-> M!Said(Target(w)) \o Tail(w.todo),
                         seen |-> w.seen \cup {Target(w)}]
      BY <2>7 DEF WalkNext
    <3>3. Looks(g, w) = [r EXCEPT !.names = @ \cup c]
      BY <1>2, <2>1, <2>3, <2>7, <3>2, Zenon DEF Looks, Passes, Stops, Target, Descends
    <3>4. WalkMade(w, r) = [names |-> ns \cup c, complete |-> all]
      BY <2>2, <2>3, <2>7 DEF WalkMade, Descends
    <3>5. QED
      BY <2>1, <2>2, <3>3, <3>4, Zenon
  <2>8. QED
    BY <2>4, <2>5, <2>6, <2>7 DEF Descends
<1>3. \E g : Is(g)
  <2> DEFINE E == {w \in M!Walks : w.todo = <<>>}
             base == [w \in M!Walks |-> M!Found({}, TRUE)]
             next == [w \in M!Walks |-> WalkNext(w)]
             made == [w \in M!Walks |-> [r \in Finds |-> WalkMade(w, r)]]
             rank == [w \in M!Walks |-> Ahead(w)]
  <2>1. rank \in [M!Walks -> Nat \X Nat]
    BY AheadIsPair
  <2>2. \A w \in M!Walks \ E : next[w] \in M!Walks /\ Below(rank[next[w]], rank[w])
    BY WalkGoesDown
  <2>3. \A w \in M!Walks \cap E : base[w] \in Finds
    BY DEF M!Found, Finds
  <2>4. \A w \in M!Walks \ E : \A r \in Finds : made[w][r] \in Finds
    BY WalkMakesFinds
  <2>5. \A w \in M!Walks \ E : next[w] = WalkNext(w) /\ WalkNext(w) \in M!Walks
    BY WalkGoesDown
  <2>6. \A w \in M!Walks : \A r \in Finds : made[w][r] = WalkMade(w, r)
    OBVIOUS
  <2>7. \A w \in M!Walks : (w \in E <=> w.todo = <<>>) /\ base[w] = M!Found({}, TRUE)
    OBVIOUS
  <2> HIDE DEF E, base, next, made, rank
  <2>8. PICK F \in [M!Walks -> Finds] :
          \A w \in M!Walks : F[w] = IF w \in E THEN base[w] ELSE made[w][F[next[w]]]
    <3> DEFINE D == M!Walks
               R == Finds
    <3>1. GoesDown(D, R, E, base, next, made, rank)
      BY <2>1, <2>2, <2>3, <2>4, Zenon DEF GoesDown
    <3> HIDE DEF D, R
    <3>2. \E F \in [D -> R] : Obeys(F, D, E, base, next, made)
      BY <3>1, RecursionIsDefined, Zenon
    <3>3. QED
      BY <3>2, Zenon DEF D, R, Obeys
  <2>9. ASSUME NEW w \in M!Walks PROVE F[w] = Looks(F, w)
    <3>1. CASE w.todo = <<>>
      BY <2>7, <2>8, <3>1 DEF Looks
    <3>2. CASE w.todo # <<>>
      <4>1. F[w] = made[w][F[WalkNext(w)]] /\ F[WalkNext(w)] \in Finds
        BY <2>5, <2>7, <2>8, <3>2
      <4>2. F[w] = WalkMade(w, F[WalkNext(w)])
        BY <2>6, <4>1
      <4>3. QED
        BY <1>2, <3>2, <4>1, <4>2
    <3>3. QED
      BY <3>1, <3>2
  <2>10. F = [w \in M!Walks |-> Looks(F, w)]
    BY <2>9
  <2>11. QED
    BY <2>10 DEF Is
<1>4. PICK W : W = M!Walk /\ Is(W)
  BY <1>1, <1>3, Zenon
<1>5. \A w \in M!Walks : W[w] = Looks(W, w)
  BY <1>4 DEF Is
<1>6. ASSUME NEW w \in M!Walks, w.todo = <<>> PROVE W[w] = M!Found({}, TRUE) /\ W[w] \in Finds
  <2>1. W[w] = M!Found({}, TRUE)
    BY <1>5, <1>6, Zenon DEF Looks
  <2>2. M!Found({}, TRUE) \in Finds
    BY DEF M!Found, Finds
  <2>3. QED
    BY <2>1, <2>2, Zenon
<1>7. \A w \in M!Walks : W[w] \in Finds
  <2> DEFINE T == {w \in M!Walks : W[w] \notin Finds}
             rank == [w \in M!Walks |-> Ahead(w)]
  <2>1. SUFFICES ASSUME T # {} PROVE FALSE
    OBVIOUS
  <2>2. PICK x \in T : \A y \in T : ~Below(rank[y], rank[x])
    <3>1. T \in SUBSET M!Walks /\ rank \in [M!Walks -> Nat \X Nat]
      BY AheadIsPair
    <3> HIDE DEF T, rank
    <3>2. QED
      BY <2>1, <3>1, LexLeast
  <2>3. x.todo # <<>>
    BY <1>6
  <2>4. WalkNext(x) \in M!Walks /\ WalkNext(x) \notin T
    BY <2>2, <2>3, WalkGoesDown
  <2>5. Looks(W, x) = WalkMade(x, W[WalkNext(x)])
    BY <1>2, <2>3, <2>4
  <2>6. QED
    BY <1>5, <2>3, <2>4, <2>5, WalkMakesFinds
<1>8. QED
  BY <1>2, <1>4, <1>5, <1>6, <1>7, WalkGoesDown

\* An import leads into S: it is not of a URL, and its file is found there.
Leads(p, S) ==
  p.stmt.op = "import" => p.stmt.name \notin Urls /\ M!Resolve(p.stmt.name, p.dir) \in S
\* If it leads anywhere.
MayLead(p, S) ==
  p.stmt.op = "import" /\ p.stmt.name \notin Urls =>
    M!Resolve(p.stmt.name, p.dir) \in S \cup {M!NoFile}

\* V is what the walk entered: every import of what there was to look at and of
\* the files in V leads to a file seen before or to one in V, nothing smaller
\* is closed under imports, and the names are those V contributes.
Explored(w, V) ==
  /\ \A p \in Range(w.todo) : Leads(p, w.seen \cup V)
  /\ \A f \in V : \A p \in Range(M!Said(f)) : Leads(p, w.seen \cup V)
  /\ M!Walk[w].names = UNION {M!Contributed(text[f]) : f \in V}
  /\ \A S \in SUBSET M!Modules :
       /\ \A p \in Range(w.todo) : MayLead(p, S)
       /\ \A f \in S : \A p \in Range(M!Said(f)) : MayLead(p, S)
       => V \subseteq S

\* What a walk entered, from what its one call did.
LEMMA EnteredBefore ==
  ASSUME FileTypes, NEW w \in M!Walks, w.todo # <<>>, M!Walk[w].complete
  PROVE  /\ M!Walk[WalkNext(w)].complete
         /\ \A V \in SUBSET M!Modules :
              Explored(WalkNext(w), V) => \E U \in SUBSET M!Modules : Explored(w, U)
<1> DEFINE S0 == [stmt : M!Statements, dir : M!Dirs]
<1>1. PICK p : p = Head(w.todo)
  OBVIOUS
<1>2. PICK u : u = Tail(w.todo)
  OBVIOUS
<1>3. PICK v \in M!Walks : v = WalkNext(w)
  BY WalkGoesDown
<1>4. \A q : q \in Range(w.todo) <=> q = p \/ q \in Range(u)
  BY <1>1, <1>2, TodoIs
<1>5. M!Walk[w] = WalkMade(w, M!Walk[v])
  BY <1>3, WalkIs
<1>6. M!Walk[v].complete /\ ~Stops(w) /\ ~(Descends(w) /\ Target(w) \in broken)
  BY <1>5 DEF WalkMade
<1>7. SUFFICES ASSUME NEW V \in SUBSET M!Modules, Explored(v, V)
               PROVE  \E U \in SUBSET M!Modules : Explored(w, U)
  BY <1>3, <1>6
<1>8. u \in Seq(S0)
  BY <1>2, TodoIs
<1>9. CASE Passes(w) \/ Target(w) \in w.seen
  <2>1. ~Descends(w)
    BY <1>9 DEF Descends
  <2>2. v.todo = u /\ v.seen = w.seen
    <3>1. v = [todo |-> <<>> \o u, seen |-> w.seen]
      BY <1>2, <1>3, <2>1 DEF WalkNext
    <3>2. <<>> \o u = u
      BY <1>8, ConcatEmptySeq
    <3>3. QED
      BY <3>1, <3>2
  <2>3. M!Walk[w].names = M!Walk[v].names
    BY <1>5, <2>1 DEF WalkMade
  <2>4. Leads(p, w.seen \cup V)
    BY <1>1, <1>6, <1>9 DEF Leads, Passes, Stops, Target, M!Unfollowed
  <2>5. \A q \in Range(w.todo) : Leads(q, w.seen \cup V)
    BY <1>4, <1>7, <2>2, <2>4 DEF Explored
  <2>6. \A f \in V : \A q \in Range(M!Said(f)) : Leads(q, w.seen \cup V)
    BY <1>7, <2>2 DEF Explored
  <2>7. M!Walk[w].names = UNION {M!Contributed(text[f]) : f \in V}
    BY <1>7, <2>3 DEF Explored
  <2>8. ASSUME NEW S \in SUBSET M!Modules, \A q \in Range(w.todo) : MayLead(q, S),
               \A f \in S : \A q \in Range(M!Said(f)) : MayLead(q, S)
        PROVE  V \subseteq S
    <3>1. \A q \in Range(v.todo) : MayLead(q, S)
      BY <1>4, <2>2, <2>8
    <3>2. QED
      BY <1>7, <2>8, <3>1 DEF Explored
  <2>9. QED
    BY <2>5, <2>6, <2>7, <2>8 DEF Explored
<1>10. CASE Descends(w)
  <2>1. PICK f \in M!Modules : f = Target(w) /\ f # M!NoFile
    BY <1>10, FoundIsFile DEF Descends, Stops, Target, M!Unfollowed, M!Modules
  <2>2. f \notin broken /\ M!Said(f) \in Seq(S0)
    BY <1>6, <1>10, <2>1, SaidIs
  <2>3. v = [todo |-> M!Said(f) \o u, seen |-> w.seen \cup {f}]
    BY <1>2, <1>3, <1>10, <2>1, <2>2 DEF WalkNext
  <2>4. Range(v.todo) = Range(M!Said(f)) \cup Range(u)
    <3>1. PICK t \in Seq(S0) : t = M!Said(f)
      BY <2>2
    <3>2. Range(t \o u) = Range(t) \cup Range(u)
      BY <1>8, RangeConcatenation
    <3>3. QED
      BY <2>3, <3>1, <3>2
  <2>5. M!Walk[w].names = M!Walk[v].names \cup M!Contributed(text[f])
    BY <1>5, <1>10, <2>1, <2>2 DEF WalkMade
  <2>6. PICK U \in SUBSET M!Modules : U = V \cup {f}
    OBVIOUS
  <2>7. v.seen \cup V = w.seen \cup U
    BY <2>3, <2>6
  <2>8. Leads(p, w.seen \cup U)
    BY <1>1, <1>6, <2>1, <2>6 DEF Leads, Passes, Stops, Target, M!Unfollowed
  <2>9. \A q \in Range(v.todo) : Leads(q, w.seen \cup U)
    BY <1>7, <2>7 DEF Explored
  <2>10. \A q \in Range(w.todo) : Leads(q, w.seen \cup U)
    BY <1>4, <2>4, <2>8, <2>9
  <2>11. \A g \in U : \A q \in Range(M!Said(g)) : Leads(q, w.seen \cup U)
    <3>1. \A g \in V : \A q \in Range(M!Said(g)) : Leads(q, w.seen \cup U)
      BY <1>7, <2>7 DEF Explored
    <3>2. \A q \in Range(M!Said(f)) : Leads(q, w.seen \cup U)
      BY <2>4, <2>9
    <3>3. QED
      BY <2>6, <3>1, <3>2
  <2>12. M!Walk[w].names = UNION {M!Contributed(text[g]) : g \in U}
    <3>1. M!Walk[v].names = UNION {M!Contributed(text[g]) : g \in V}
      BY <1>7 DEF Explored
    <3>2. QED
      BY <2>5, <2>6, <3>1
  <2>13. ASSUME NEW S \in SUBSET M!Modules, \A q \in Range(w.todo) : MayLead(q, S),
                \A g \in S : \A q \in Range(M!Said(g)) : MayLead(q, S)
         PROVE  U \subseteq S
    <3>1. f \in S
      <4>1. MayLead(p, S)
        BY <1>4, <2>13
      <4>2. QED
        BY <1>1, <1>6, <1>10, <2>1, <4>1
           DEF MayLead, Descends, Passes, Stops, Target, M!Unfollowed
    <3>2. \A q \in Range(v.todo) : MayLead(q, S)
      BY <1>4, <2>4, <2>13, <3>1
    <3>3. V \subseteq S
      BY <1>7, <2>13, <3>2 DEF Explored
    <3>4. QED
      BY <2>6, <3>1, <3>3
  <2>14. Explored(w, U)
    BY <2>10, <2>11, <2>12, <2>13 DEF Explored
  <2>15. QED
    BY <2>14
<1>11. QED
  BY <1>6, <1>9, <1>10 DEF Descends

\* A walk that read everything it met knows all that can be reached, and
\* nothing else.
LEMMA WalkFinds ==
  ASSUME FileTypes, NEW w \in M!Walks, M!Walk[w].complete
  PROVE  \E V \in SUBSET M!Modules : Explored(w, V)
<1> DEFINE Knows(x) == M!Walk[x].complete => \E V \in SUBSET M!Modules : Explored(x, V)
           T == {x \in M!Walks : ~Knows(x)}
           rank == [x \in M!Walks |-> Ahead(x)]
<1>1. SUFFICES ASSUME T # {} PROVE FALSE
  OBVIOUS
<1>2. PICK x \in T : \A y \in T : ~Below(rank[y], rank[x])
  <2>1. T \in SUBSET M!Walks /\ rank \in [M!Walks -> Nat \X Nat]
    BY AheadIsPair
  <2> HIDE DEF T, rank
  <2>2. QED
    BY <1>1, <2>1, LexLeast
<1>3. x \in M!Walks /\ M!Walk[x].complete
  OBVIOUS
<1>4. CASE x.todo = <<>>
  <2>1. M!Walk[x].names = {}
    BY <1>3, <1>4, WalkIs DEF M!Found
  <2>2. Range(x.todo) = {}
    BY <1>4 DEF Range
  <2>3. Explored(x, {})
    BY <2>1, <2>2 DEF Explored
  <2>4. QED
    BY <2>3
<1>5. CASE x.todo # <<>>
  <2>1. WalkNext(x) \in M!Walks /\ WalkNext(x) \notin T
    BY <1>2, <1>3, <1>5, WalkGoesDown
  <2>2. Knows(WalkNext(x))
    BY <2>1
  <2>3. QED
    BY <1>3, <1>5, <2>2, EnteredBefore
<1>6. QED
  BY <1>4, <1>5

\* What the imports of a program reach: every set of files that holds the entry
\* file and is closed under the imports in what its files say.
Closed(S) ==
  /\ EntryFile \in S
  /\ \A f \in S : \A s \in Range(text[f]) :
       s.op = "import" =>
         s.name \notin Urls /\ M!Resolve(s.name, f.dir) \in S \cup {M!NoFile}

\* The walk's promises, when it read everything: they are the names of some
\* files, which with the entry file are closed under imports, and which any
\* such set holds.
LEMMA PromisesAre ==
  ASSUME FileTypes, M!ImportedNames.complete
  PROVE  \E V \in SUBSET M!Modules :
           /\ Closed(V \cup {EntryFile})
           /\ M!ImportedNames.names = UNION {M!Contributed(text[f]) : f \in V}
           /\ \A S \in SUBSET M!Modules : Closed(S) => V \subseteq S
<1>1. PICK w : w = [todo |-> M!Said(EntryFile), seen |-> {EntryFile}]
  OBVIOUS
<1>2. EntryFile \in M!Modules /\ w \in M!Walks /\ M!ImportedNames = M!Walk[w]
  <2>1. EntryFile \in M!Modules
    BY ImportsAssumption DEF M!Modules
  <2>2. QED
    BY <1>1, <2>1, SaidIs DEF M!Walks, M!ImportedNames
<1>3. PICK V \in SUBSET M!Modules : Explored(w, V)
  BY <1>2, WalkFinds
<1>4. \A f \in M!Modules : \A s \in Range(text[f]) :
        [stmt |-> s, dir |-> f.dir] \in Range(M!Said(f))
  BY SaidIs
<1>5. w.todo = M!Said(EntryFile) /\ w.seen = {EntryFile}
  BY <1>1
<1>6. Closed(V \cup {EntryFile})
  <2>1. \A f \in V \cup {EntryFile} : \A p \in Range(M!Said(f)) : Leads(p, {EntryFile} \cup V)
    BY <1>3, <1>5 DEF Explored
  <2>2. ASSUME NEW f \in V \cup {EntryFile}, NEW s \in Range(text[f]), s.op = "import"
        PROVE  s.name \notin Urls /\ M!Resolve(s.name, f.dir) \in V \cup {EntryFile}
    <3>1. Leads([stmt |-> s, dir |-> f.dir], {EntryFile} \cup V)
      BY <1>2, <1>4, <2>1
    <3>2. QED
      BY <2>2, <3>1 DEF Leads
  <2>3. QED
    BY <2>2 DEF Closed
<1>7. ASSUME NEW S \in SUBSET M!Modules, Closed(S) PROVE V \subseteq S
  <2>1. ASSUME NEW f \in S, NEW p \in Range(M!Said(f)) PROVE MayLead(p, S)
    <3>1. PICK s \in Range(text[f]) : p = [stmt |-> s, dir |-> f.dir]
      BY SaidIs
    <3>2. QED
      BY <1>7, <3>1 DEF Closed, MayLead
  <2>2. EntryFile \in S
    BY <1>7 DEF Closed
  <2>3. QED
    BY <1>3, <1>5, <2>1, <2>2 DEF Explored
<1>8. QED
  BY <1>2, <1>3, <1>6, <1>7 DEF Explored

-----------------------------------------------------------------------------
(* What a program that imports has, against what the walk promises: the files *)
(* it loads are in every set closed under imports; what is bound was declared *)
(* by a file that is running, or left by one that has ended; and as long as   *)
(* nothing went wrong, every import of a file that is loaded is loaded, and   *)
(* every name of theirs bound that no exporting module hides.                 *)

EntryFirst == stack[1].file = EntryFile
Reached == \A S \in SUBSET M!Modules : Closed(S) => loaded \subseteq S

Introduced(t) == M!DeclaredIn(t) \cup M!SplitIn(t) \cup M!ExportedIn(t)
Ended(f) == \A i \in 1 .. Len(stack) : stack[i].file # f
Left(f, n) ==
  \/ n \in M!Contributed(text[f])
  \/ n \in M!SplitIn(text[f]) /\ M!ExportedIn(text[f]) # {}
  \/ n \in M!DeclaredIn(text[f]) /\ f \in failed
\* Where a name comes from that the k outermost files can use.
Sourced(n, k) ==
  \E f \in loaded : /\ n \in Introduced(text[f])
                    /\ (\E i \in 1 .. k : stack[i].file = f) \/ (Ended(f) /\ Left(f, n))
Held(k) == IF k = Len(stack) THEN bound ELSE stack[k + 1].before
AllSourced == \A k \in 1 .. Len(stack) : \A n \in Held(k) : Sourced(n, k)

\* No `try` around an import, and none from a URL.
Simple == \A f \in M!Modules : \A s \in Range(text[f]) :
            s.op = "import" => ~s.flag /\ s.name \notin Urls
Hidden == UNION {M!DeclaredIn(text[f]) : f \in M!Exporting}
Arrived ==
  Simple =>
    /\ \A i \in 1 .. Len(stack) : ~stack[i].guarded
    /\ \A f \in loaded \ {EntryFile} : f \notin M!UrlFiles
    /\ fault = "none" =>
         \A f \in loaded :
           /\ \A s \in Range(text[f]) :
                s.op = "import" => M!Resolve(s.name, f.dir) \in loaded
           /\ Introduced(text[f]) \subseteq bound \cup Hidden

LEMMA SameRange == \A t : M!Range(t) = Range(t)
BY DEF M!Range, Range

\* What a longer text declares is more.
LEMMA MoreSaid ==
  ASSUME NEW t, NEW u, Range(t) \subseteq Range(u)
  PROVE  /\ M!DeclaredIn(t) \subseteq M!DeclaredIn(u) /\ M!SplitIn(t) \subseteq M!SplitIn(u)
         /\ M!ExportedIn(t) \subseteq M!ExportedIn(u) /\ Introduced(t) \subseteq Introduced(u)
<1>1. M!Range(t) \subseteq M!Range(u)
  BY SameRange
<1>2. /\ M!DeclaredIn(t) \subseteq M!DeclaredIn(u) /\ M!SplitIn(t) \subseteq M!SplitIn(u)
      /\ M!ExportedIn(t) \subseteq M!ExportedIn(u)
  BY <1>1 DEF M!DeclaredIn, M!SplitIn, M!ExportedIn
<1>3. QED
  BY <1>2 DEF Introduced

\* More is said by the running file, and by no other.
LEMMA Grows ==
  ASSUME FileTypes, NEW t \in Seq(Statements), text' = [text EXCEPT ![M!Here] = @ \o t]
  PROVE  /\ \A f \in M!Modules : f # M!Here => text'[f] = text[f]
         /\ \A f \in M!Modules : Range(text[f]) \subseteq Range(text'[f])
         /\ Range(text'[M!Here]) = Range(text[M!Here]) \cup Range(t)
<1>1. M!Here \in M!Modules /\ text[M!Here] \in Seq(Statements)
  BY InnermostIs DEF FileTypes
<1>2. text'[M!Here] = text[M!Here] \o t /\ \A f \in M!Modules : f # M!Here => text'[f] = text[f]
  BY <1>1 DEF FileTypes
<1>3. Range(text'[M!Here]) = Range(text[M!Here]) \cup Range(t)
  <2>1. PICK u \in Seq(Statements) : u = text[M!Here]
    BY <1>1
  <2>2. Range(u \o t) = Range(u) \cup Range(t)
    BY RangeConcatenation
  <2>3. QED
    BY <1>2, <2>1, <2>2
<1>4. QED
  BY <1>2, <1>3

LEMMA Writes ==
  ASSUME FileTypes, NEW s \in Statements, M!Write(s)
  PROVE  /\ <<s>> \in Seq(Statements) /\ text' = [text EXCEPT ![M!Here] = @ \o <<s>>]
         /\ Range(<<s>>) = {s}
<1>1. M!Here \in M!Modules /\ text[M!Here] \in Seq(Statements)
  BY InnermostIs DEF FileTypes
<1>2. PICK u \in Seq(Statements) : u = text[M!Here]
  BY <1>1
<1>3. Append(u, s) = u \o <<s>>
  BY AppendIsConcat
<1>4. text' = [text EXCEPT ![M!Here] = Append(u, s)]
  BY <1>2 DEF M!Write
<1>5. <<s>> \in Seq(Statements) /\ Range(<<s>>) = {s}
  BY DEF Range
<1>6. QED
  BY <1>2, <1>3, <1>4, <1>5

\* What an import does, as far as the promises are concerned: nothing is found,
\* the module has run already, or cannot be read, or is entered.
Brings(spec, f) ==
  f \in M!Modules /\ (spec \in Urls \/ (f = M!Resolve(spec, current) /\ f # M!NoFile))
ImportDoes(spec, guarded, f) ==
  /\ M!Write(M!Import(spec, guarded)) /\ UNCHANGED <<bound, failed>> /\ fault = "none"
  /\ \/ UNCHANGED <<stack, loaded>> /\ (fault' = "none" => guarded)
     \/ Brings(spec, f) /\ f \in loaded /\ UNCHANGED <<stack, loaded>>
     \/ /\ Brings(spec, f) /\ f \notin loaded /\ loaded' = loaded \cup {f}
        /\ stack' = stack /\ (fault' = "none" => guarded)
     \/ /\ Brings(spec, f) /\ f \notin loaded /\ loaded' = loaded \cup {f}
        /\ stack' = Append(stack, [file |-> f, dir |-> current, exports |-> exports,
                                   before |-> bound, guarded |-> guarded])

LEMMA LoadDoes ==
  ASSUME NEW spec, NEW guarded, NEW f, Brings(spec, f), M!Load(f, guarded),
         M!Write(M!Import(spec, guarded)), fault = "none"
  PROVE  ImportDoes(spec, guarded, f)
<1>1. UNCHANGED <<bound, failed>>
  BY DEF M!Load, M!Unreadable, M!Enter
<1>2. CASE f \in loaded /\ UNCHANGED <<stack, loaded>>
  BY <1>1, <1>2 DEF ImportDoes
<1>3. CASE f \notin loaded /\ M!Unreadable(f, guarded)
  <2>1. stack' = stack /\ loaded' = loaded \cup {f} /\ (fault' = "none" => guarded)
    BY <1>3 DEF M!Unreadable
  <2>2. QED
    BY <1>1, <1>3, <2>1 DEF ImportDoes
<1>4. CASE f \notin loaded /\ M!Enter(f, guarded)
  <2>1. /\ loaded' = loaded \cup {f}
        /\ stack' = Append(stack, [file |-> f, dir |-> current, exports |-> exports,
                                   before |-> bound, guarded |-> guarded])
    BY <1>4 DEF M!Enter
  <2>2. QED
    BY <1>1, <1>4, <2>1 DEF ImportDoes
<1>5. QED
  BY <1>2, <1>3, <1>4 DEF M!Load

LEMMA ImportStep ==
  ASSUME M!EvalImport \/ M!EvalUrl
  PROVE  \E spec \in Specs \cup Urls, guarded \in BOOLEAN : \E f : ImportDoes(spec, guarded, f)
<1>1. fault = "none"
  BY DEF M!EvalImport, M!EvalUrl, M!Running
<1>2. ASSUME NEW spec, NEW guarded, NEW f, M!NotFound(guarded), M!Write(M!Import(spec, guarded))
      PROVE  ImportDoes(spec, guarded, f)
  <2>1. UNCHANGED <<stack, loaded, bound, failed>> /\ (fault' = "none" => guarded)
    BY <1>2 DEF M!NotFound
  <2>2. QED
    BY <1>1, <1>2, <2>1 DEF ImportDoes
<1>3. CASE M!EvalImport
  <2>1. PICK spec \in Specs, guarded \in BOOLEAN :
          /\ M!Write(M!Import(spec, guarded))
          /\ IF M!Resolve(spec, current) = M!NoFile THEN M!NotFound(guarded)
             ELSE M!Load(M!Resolve(spec, current), guarded)
    BY <1>3 DEF M!EvalImport
  <2>2. PICK f : f = M!Resolve(spec, current)
    OBVIOUS
  <2>3. CASE f = M!NoFile
    <3>1. ImportDoes(spec, guarded, f)
      BY <1>2, <2>1, <2>2, <2>3
    <3>2. QED
      BY <3>1
  <2>4. CASE f # M!NoFile
    <3>1. Brings(spec, f) /\ M!Load(f, guarded)
      BY <2>1, <2>2, <2>4, FoundIsModule DEF Brings
    <3>2. ImportDoes(spec, guarded, f)
      BY <1>1, <2>1, <3>1, LoadDoes
    <3>3. QED
      BY <3>2
  <2>5. QED
    BY <2>3, <2>4
<1>4. CASE M!EvalUrl
  <2>1. PICK url \in Urls, guarded \in BOOLEAN :
          /\ M!Write(M!Import(url, guarded))
          /\ M!NotFound(guarded) \/ M!Load([dir |-> Cache, name |-> url], guarded)
    BY <1>4 DEF M!EvalUrl
  <2>2. PICK f \in M!Modules : f = [dir |-> Cache, name |-> url]
    BY DEF M!Modules, M!UrlFiles
  <2>3. CASE M!NotFound(guarded)
    <3>1. ImportDoes(url, guarded, f)
      BY <1>2, <2>1, <2>3
    <3>2. QED
      BY <3>1
  <2>4. CASE M!Load(f, guarded)
    <3>1. Brings(url, f)
      BY DEF Brings
    <3>2. ImportDoes(url, guarded, f)
      BY <1>1, <2>1, <2>4, <3>1, LoadDoes
    <3>3. QED
      BY <3>2
  <2>5. QED
    BY <2>1, <2>2, <2>3, <2>4
<1>5. QED
  BY <1>3, <1>4

\* What the walk still sees of a file that failed is a list of statements.
LEMMA UnwindAdds ==
  ASSUME M!Unwind
  PROVE  \E t \in Seq(Statements) : text' = [text EXCEPT ![M!Here] = @ \o t]
<1>1. PICK rest \in {<<>>} \cup {<<s>> : s \in {d \in M!Declarations : d.flag}} :
        text' = [text EXCEPT ![M!Here] = @ \o rest]
  BY DEF M!Unwind
<1>2. rest \in Seq(Statements)
  <2>1. CASE rest = <<>>
    BY <2>1
  <2>2. ASSUME NEW d \in M!Declarations, rest = <<d>> PROVE rest \in Seq(Statements)
    <3>1. d \in Statements
      BY WrittenAreStatements
    <3>2. QED
      BY <2>2, <3>1
  <2>3. QED
    BY <1>1, <2>1, <2>2
<1>3. QED
  BY <1>1, <1>2

\* Files only ever say more.
LEMMA TextGrows ==
  ASSUME FilesInv, M!Next
  PROVE  /\ \A f \in M!Modules : f # M!Here => text'[f] = text[f]
         /\ \A f \in M!Modules : Range(text[f]) \subseteq Range(text'[f])
<1>1. CASE M!EvalDeclaration
  <2>1. PICK s \in M!Declarations : M!Write(s)
    BY <1>1 DEF M!EvalDeclaration
  <2>2. s \in Statements
    BY WrittenAreStatements
  <2>3. QED
    BY <2>1, <2>2, Writes, Grows DEF FilesInv
<1>2. CASE M!EvalImport \/ M!EvalUrl
  <2>1. PICK spec \in Specs \cup Urls, guarded \in BOOLEAN : \E f : ImportDoes(spec, guarded, f)
    BY <1>2, ImportStep
  <2>2. M!Write(M!Import(spec, guarded)) /\ M!Import(spec, guarded) \in Statements
    BY <2>1, WrittenAreStatements DEF ImportDoes
  <2>3. QED
    BY <2>2, Writes, Grows DEF FilesInv
<1>3. CASE M!EvalFail \/ M!EndModule \/ M!EndProgram
  <2>1. text' = text
    BY <1>3 DEF M!EvalFail, M!EndModule, M!EndProgram
  <2>2. QED
    BY <2>1
<1>4. CASE M!Unwind
  BY <1>4, UnwindAdds, Grows DEF FilesInv
<1>5. QED
  BY <1>1, <1>2, <1>3, <1>4 DEF M!Next

\* A file is loaded only by an import of it in what the running file says.
LEMMA LoadsWhatIsImported ==
  ASSUME FilesInv, M!Next
  PROVE  \/ loaded' = loaded
         \/ \E s \in Range(text'[M!Here]) : \E f :
              /\ s.op = "import" /\ loaded' = loaded \cup {f}
              /\ s.name \in Urls \/ (f = M!Resolve(s.name, M!Here.dir) /\ f # M!NoFile)
<1>1. CASE M!EvalImport \/ M!EvalUrl
  <2>1. PICK spec \in Specs \cup Urls, guarded \in BOOLEAN : \E f : ImportDoes(spec, guarded, f)
    BY <1>1, ImportStep
  <2>2. PICK f : ImportDoes(spec, guarded, f)
    BY <2>1
  <2>3. PICK s \in Statements : s = M!Import(spec, guarded) /\ s.op = "import" /\ s.name = spec
    BY WrittenAreStatements DEF M!Import
  <2>4. M!Write(s)
    BY <2>2, <2>3 DEF ImportDoes
  <2>5. s \in Range(text'[M!Here])
    <3>1. FileTypes
      BY DEF FilesInv
    <3>2. PICK t \in Seq(Statements) : text' = [text EXCEPT ![M!Here] = @ \o t] /\ Range(t) = {s}
      BY <2>4, <3>1, Writes
    <3>3. Range(text'[M!Here]) = Range(text[M!Here]) \cup Range(t)
      BY <3>1, <3>2, Grows
    <3>4. QED
      BY <3>2, <3>3
  <2>6. current = M!Here.dir
    BY InnermostIs DEF FilesInv, Nested
  <2>7. loaded' = loaded \/ (loaded' = loaded \cup {f} /\ Brings(spec, f))
    BY <2>2 DEF ImportDoes
  <2>8. QED
    BY <2>3, <2>5, <2>6, <2>7 DEF Brings
<1>2. CASE ~(M!EvalImport \/ M!EvalUrl)
  BY <1>2 DEF M!Next, M!EvalDeclaration, M!EvalFail, M!EndModule, M!Unwind, M!EndProgram
<1>3. QED
  BY <1>1, <1>2

LEMMA ClosedThen ==
  ASSUME NEW S
  PROVE  Closed(S)' <=>
           /\ EntryFile \in S
           /\ \A f \in S : \A s \in Range(text'[f]) :
                s.op = "import" =>
                  s.name \notin Urls /\ M!Resolve(s.name, f.dir) \in S \cup {M!NoFile}
BY DEF Closed

\* Nothing is loaded that imports do not reach.
LEMMA ReachedNext ==
  ASSUME FilesInv, Reached, M!Next
  PROVE  Reached'
<1>1. ASSUME NEW S \in SUBSET M!Modules, Closed(S)' PROVE loaded' \subseteq S
  <2>1. \A f \in M!Modules : Range(text[f]) \subseteq Range(text'[f])
    BY TextGrows
  <2>2. /\ EntryFile \in S
        /\ \A f \in S : \A s \in Range(text'[f]) :
             s.op = "import" =>
               s.name \notin Urls /\ M!Resolve(s.name, f.dir) \in S \cup {M!NoFile}
    BY <1>1, ClosedThen
  <2>3. Closed(S)
    BY <2>1, <2>2 DEF Closed
  <2>4. loaded \subseteq S /\ M!Here \in S
    BY <2>3, InnermostIs DEF Reached, FilesInv, Nested
  <2>5. QED
    BY <2>2, <2>4, LoadsWhatIsImported
<1>2. QED
  BY <1>1 DEF Reached

LEMMA SourcedThen ==
  ASSUME NEW n, NEW k
  PROVE  Sourced(n, k)' <=>
           \E f \in loaded' :
             /\ n \in Introduced(text'[f])
             /\ \/ \E i \in 1 .. k : stack'[i].file = f
                \/ /\ \A i \in 1 .. Len(stack') : stack'[i].file # f
                   /\ \/ n \in M!Contributed(text'[f])
                      \/ n \in M!SplitIn(text'[f]) /\ M!ExportedIn(text'[f]) # {}
                      \/ n \in M!DeclaredIn(text'[f]) /\ f \in failed'
BY DEF Sourced, Ended, Left

\* A name keeps its source as long as the files it is known to keep running,
\* and those that have ended stay ended.
LEMMA SourceStays ==
  ASSUME NEW n, NEW k \in 1 .. Len(stack), Sourced(n, k), loaded \subseteq M!Modules,
         loaded \subseteq loaded', failed \subseteq failed',
         \A f \in M!Modules : Range(text[f]) \subseteq Range(text'[f]),
         \A f \in loaded : Ended(f) =>
           text'[f] = text[f] /\ \A i \in 1 .. Len(stack') : stack'[i].file # f,
         \A i \in 1 .. k : stack'[i] = stack[i]
  PROVE  Sourced(n, k)'
<1>1. PICK f \in loaded :
        /\ n \in Introduced(text[f])
        /\ (\E i \in 1 .. k : stack[i].file = f) \/ (Ended(f) /\ Left(f, n))
  BY DEF Sourced
<1>2. f \in M!Modules /\ f \in loaded' /\ n \in Introduced(text'[f])
  BY <1>1, MoreSaid
<1>3. CASE \E i \in 1 .. k : stack[i].file = f
  BY <1>2, <1>3, SourcedThen
<1>4. CASE Ended(f) /\ Left(f, n)
  <2>1. text'[f] = text[f] /\ \A i \in 1 .. Len(stack') : stack'[i].file # f
    BY <1>4
  <2>2. QED
    BY <1>2, <1>4, <2>1, SourcedThen DEF Left
<1>5. QED
  BY <1>1, <1>3, <1>4

\* The same in a program: where a step leaves the k outermost as they are.
LEMMA SourceSurvives ==
  ASSUME FilesInv, M!Next, loaded \subseteq loaded', failed \subseteq failed',
         NEW n, NEW k \in 1 .. Len(stack), Sourced(n, k),
         \A i \in 1 .. k : stack'[i] = stack[i],
         \A f \in loaded : Ended(f) => \A i \in 1 .. Len(stack') : stack'[i].file # f
  PROVE  Sourced(n, k)'
<1>1. loaded \subseteq M!Modules
  BY DEF FilesInv, FileTypes
<1>2. \A f \in loaded : Ended(f) => f # M!Here
  BY InnermostIs DEF FilesInv, Ended
<1>3. \A f \in loaded : Ended(f) => text'[f] = text[f]
  BY <1>1, <1>2, TextGrows
<1>4. \A f \in M!Modules : Range(text[f]) \subseteq Range(text'[f])
  BY TextGrows
<1>5. QED
  BY <1>1, <1>3, <1>4, SourceStays

\* What the running file had introduced is left behind when it ends, failing or
\* not, unless it was the importer's before.
LEMMA LeftBehind ==
  ASSUME FilesInv, M!EndModule \/ M!Unwind, NEW n \in bound', n \in Introduced(text[M!Here]),
         n \notin M!Top.before
  PROVE  \/ n \in M!Contributed(text'[M!Here])
         \/ n \in M!SplitIn(text'[M!Here]) /\ M!ExportedIn(text'[M!Here]) # {}
         \/ n \in M!DeclaredIn(text'[M!Here]) /\ M!Here \in failed'
<1>1. CASE M!EndModule
  <2>1. text' = text /\ M!Depth > 1
    BY <1>1 DEF M!EndModule
  <2>2. exports = M!ExportedIn(text[M!Here])
    BY <2>1, InnermostIs DEF FilesInv, Nested, Told
  <2>3. exports = {} \/ n \in exports \/ n \notin M!DeclaredIn(text[M!Here])
    BY <1>1 DEF M!EndModule, M!Kept, M!KeptUrl, M!Here
  <2>4. QED
    BY <2>1, <2>2, <2>3 DEF M!Contributed, Introduced
<1>2. CASE M!Unwind
  <2>1. M!Here \in failed'
    BY <1>2 DEF M!Unwind
  <2>2. n \in Introduced(text'[M!Here])
    <3>1. M!Here \in M!Modules /\ Range(text[M!Here]) \subseteq Range(text'[M!Here])
      BY <1>2, TextGrows, InnermostIs DEF FilesInv, M!Next
    <3>2. QED
      BY <3>1, MoreSaid
  <2>3. QED
    BY <2>1, <2>2 DEF M!Contributed, Introduced
<1>3. QED
  BY <1>1, <1>2

LEMMA LeavesSourced ==
  ASSUME FilesInv, AllSourced, M!EndModule \/ M!Unwind
  PROVE  AllSourced'
<1>0. PICK m \in Nat : m = Len(stack)
  BY InnermostIs DEF FilesInv
<1>1. /\ M!Next /\ M!Depth > 1 /\ M!Leave /\ loaded' = loaded /\ failed \subseteq failed'
      /\ bound' \subseteq bound
  BY DEF M!Next, M!EndModule, M!Unwind, M!Kept, M!KeptUrl
<1>2. PICK l \in Nat : m = l + 1 /\ l \in 1 .. l
  <2>1. m > 1
    BY <1>0, <1>1, InnermostIs DEF FilesInv
  <2>2. m - 1 \in Nat /\ m = m - 1 + 1 /\ m - 1 \in 1 .. m - 1
    BY <2>1
  <2>3. QED
    BY <2>2, Zenon
<1>3. Len(stack') = l /\ \A i \in 1 .. l : stack'[i] = stack[i]
  <2>1. stack' = Front(stack)
    BY <1>1 DEF M!Leave, M!Front, Front
  <2>2. stack # <<>> /\ stack \in Seq(Importers)
    BY DEF FilesInv, FileTypes
  <2>3. /\ Len(Front(stack)) = Len(stack) - 1
        /\ \A i \in 1 .. Len(stack) - 1 : Front(stack)[i] = stack[i]
    BY <2>2, Popped
  <2>4. Len(stack) - 1 = l
    BY <1>0, <1>2
  <2>5. QED
    BY <2>1, <2>3, <2>4, Zenon
<1>4. /\ M!Here = stack[m].file /\ M!Top = stack[m] /\ M!Here \in loaded
      /\ \A i \in 1 .. l : stack[i].file # M!Here
  BY <1>0, <1>2, InnermostIs DEF FilesInv, Nested
<1>5. \A f \in loaded : Ended(f) => \A i \in 1 .. Len(stack') : stack'[i].file # f
  BY <1>0, <1>2, <1>3 DEF Ended
<1>6. ASSUME NEW n, NEW k \in 1 .. l, Sourced(n, k) PROVE Sourced(n, k)'
  <2>1. k \in 1 .. Len(stack) /\ \A i \in 1 .. k : stack'[i] = stack[i]
    BY <1>0, <1>2, <1>3
  <2>2. QED
    BY <1>1, <1>5, <1>6, <2>1, SourceSurvives
<1>7. ASSUME NEW n \in bound' PROVE Sourced(n, l)'
  <2>1. Sourced(n, m)
    <3>1. m \in 1 .. Len(stack) /\ n \in Held(m)
      BY <1>0, <1>1, <1>2 DEF Held
    <3>2. QED
      BY <3>1 DEF AllSourced
  <2>2. PICK f \in loaded :
          /\ n \in Introduced(text[f])
          /\ (\E i \in 1 .. m : stack[i].file = f) \/ (Ended(f) /\ Left(f, n))
    BY <2>1 DEF Sourced
  <2>3. CASE n \in M!Top.before
    <3>1. l \in 1 .. Len(stack) /\ n \in Held(l)
      BY <1>0, <1>2, <1>4, <2>3 DEF Held
    <3>2. QED
      BY <1>2, <1>6, <3>1 DEF AllSourced
  <2>4. CASE f # M!Here
    <3>1. (\E i \in 1 .. l : stack[i].file = f) \/ (Ended(f) /\ Left(f, n))
      BY <1>2, <1>4, <2>2, <2>4
    <3>2. Sourced(n, l)
      BY <2>2, <3>1 DEF Sourced
    <3>3. QED
      BY <1>2, <1>6, <3>2
  <2>5. CASE f = M!Here /\ n \notin M!Top.before
    <3>1. f \in loaded' /\ \A i \in 1 .. Len(stack') : stack'[i].file # f
      BY <1>1, <1>3, <1>4, <2>5
    <3>2. n \in Introduced(text'[f])
      <4>1. Range(text[f]) \subseteq Range(text'[f])
        BY <1>1, <1>4, <2>5, TextGrows DEF FilesInv, FileTypes
      <4>2. QED
        BY <2>2, <4>1, MoreSaid
    <3>3. \/ n \in M!Contributed(text'[f])
          \/ n \in M!SplitIn(text'[f]) /\ M!ExportedIn(text'[f]) # {}
          \/ n \in M!DeclaredIn(text'[f]) /\ f \in failed'
      BY <2>2, <2>5, LeftBehind
    <3>4. QED
      BY <3>1, <3>2, <3>3, SourcedThen
  <2>6. QED
    BY <2>3, <2>4, <2>5
<1>8. ASSUME NEW k \in 1 .. Len(stack'), NEW n \in Held(k)' PROVE Sourced(n, k)'
  <2>1. CASE k = l
    BY <1>3, <1>7, <1>8, <2>1 DEF Held
  <2>2. CASE k # l
    <3>1. /\ k \in 1 .. l /\ k + 1 \in 1 .. l /\ k \in 1 .. Len(stack) /\ k # Len(stack)
      BY <1>0, <1>2, <1>3, <2>2
    <3>2. n \in stack'[k + 1].before
      BY <1>3, <1>8, <2>2 DEF Held
    <3>3. n \in Held(k)
      BY <1>3, <3>1, <3>2 DEF Held
    <3>4. QED
      BY <1>6, <3>1, <3>3 DEF AllSourced
  <2>3. QED
    BY <2>1, <2>2
<1>9. QED
  BY <1>8 DEF AllSourced

\* Every name a file can use was introduced by one that runs, or left by one
\* that has ended.
LEMMA SourcedNext ==
  ASSUME FilesInv, AllSourced, M!Next
  PROVE  AllSourced'
<1>0. PICK m \in Nat : m = Len(stack)
  BY InnermostIs DEF FilesInv
<1>1. m \in 1 .. m /\ M!Here = stack[m].file /\ M!Here \in loaded /\ loaded \subseteq M!Modules
  BY <1>0, InnermostIs DEF FilesInv, FileTypes, Nested
<1>2. ASSUME stack' = stack, loaded \subseteq loaded', failed \subseteq failed',
             \A n \in bound' : n \in bound \/ n \in Introduced(text'[M!Here])
      PROVE  AllSourced'
  <2>1. ASSUME NEW n, NEW k \in 1 .. m, Sourced(n, k) PROVE Sourced(n, k)'
    <3>1. /\ k \in 1 .. Len(stack) /\ \A i \in 1 .. k : stack'[i] = stack[i]
          /\ \A f \in loaded : Ended(f) => \A i \in 1 .. Len(stack') : stack'[i].file # f
      BY <1>0, <1>2 DEF Ended
    <3>2. QED
      BY <1>2, <2>1, <3>1, SourceSurvives
  <2>2. ASSUME NEW k \in 1 .. m, NEW n \in Held(k)' PROVE Sourced(n, k)'
    <3>1. CASE n \in Held(k)
      BY <1>0, <2>1, <3>1 DEF AllSourced
    <3>2. CASE n \notin Held(k)
      <4>1. k = m /\ n \in bound' /\ n \notin bound
        BY <1>0, <1>2, <2>2, <3>2 DEF Held
      <4>2. n \in Introduced(text'[M!Here]) /\ M!Here \in loaded'
        BY <1>1, <1>2, <4>1
      <4>3. \E i \in 1 .. k : stack'[i].file = M!Here
        BY <1>1, <1>2, <4>1
      <4>4. QED
        BY <4>2, <4>3, SourcedThen
    <3>3. QED
      BY <3>1, <3>2
  <2>3. QED
    BY <1>0, <1>2, <2>2 DEF AllSourced
<1>3. CASE M!EvalDeclaration
  <2>1. PICK s \in M!Declarations :
          /\ M!Write(s)
          /\ bound' = IF s.op # "class" /\ M!InBlock THEN bound ELSE bound \cup {s.name}
    BY <1>3 DEF M!EvalDeclaration
  <2>2. UNCHANGED <<stack, loaded, failed>>
    BY <1>3 DEF M!EvalDeclaration
  <2>3. s.name \in Introduced(text'[M!Here])
    <3>1. s \in Statements /\ s.op \in {"class", "let", "split"}
      BY WrittenAreStatements
    <3>2. FileTypes
      BY DEF FilesInv
    <3>3. PICK t \in Seq(Statements) : text' = [text EXCEPT ![M!Here] = @ \o t] /\ Range(t) = {s}
      BY <2>1, <3>1, <3>2, Writes
    <3>4. Range(text'[M!Here]) = Range(text[M!Here]) \cup Range(t)
      BY <3>2, <3>3, Grows
    <3>5. s \in M!Range(text'[M!Here])
      BY <3>3, <3>4, SameRange
    <3>6. QED
      BY <3>1, <3>5, WrittenAreStatements
         DEF Introduced, M!DeclaredIn, M!SplitIn, M!ExportedIn, Statements
  <2>4. QED
    BY <1>2, <2>1, <2>2, <2>3
<1>4. CASE M!EvalImport \/ M!EvalUrl
  <2>1. PICK spec \in Specs \cup Urls, guarded \in BOOLEAN : \E f : ImportDoes(spec, guarded, f)
    BY <1>4, ImportStep
  <2>2. PICK f : ImportDoes(spec, guarded, f)
    BY <2>1
  <2>3. bound' = bound /\ failed' = failed /\ loaded \subseteq loaded'
    BY <2>2 DEF ImportDoes
  <2>4. CASE stack' = stack
    BY <1>2, <2>3, <2>4
  <2>5. CASE stack' # stack
    <3> DEFINE e == [file |-> f, dir |-> current, exports |-> exports, before |-> bound,
                     guarded |-> guarded]
    <3>1. f \notin loaded /\ f \in M!Modules /\ loaded' = loaded \cup {f} /\ stack' = Append(stack, e)
      BY <2>2, <2>5 DEF ImportDoes, Brings
    <3>2. e.before = bound /\ e.file = f
      OBVIOUS
    <3> HIDE DEF e
    <3>3. /\ Len(stack') = m + 1 /\ stack'[m + 1] = e
          /\ \A i \in 1 .. m : stack'[i] = stack[i]
      BY <1>0, <3>1, AppendProperties DEF FilesInv, FileTypes
    <3>4. \A g \in loaded : Ended(g) => \A i \in 1 .. Len(stack') : stack'[i].file # g
      <4>1. ASSUME NEW g \in loaded, Ended(g), NEW i \in 1 .. m + 1 PROVE stack'[i].file # g
        <5>1. CASE i = m + 1
          BY <3>1, <3>2, <3>3, <5>1
        <5>2. CASE i \in 1 .. m
          BY <1>0, <3>3, <4>1, <5>2 DEF Ended
        <5>3. QED
          BY <5>1, <5>2
      <4>2. QED
        BY <3>3, <4>1
    <3>5. ASSUME NEW n, NEW k \in 1 .. m, Sourced(n, k) PROVE Sourced(n, k)'
      <4>1. k \in 1 .. Len(stack) /\ \A i \in 1 .. k : stack'[i] = stack[i]
        BY <1>0, <3>3
      <4>2. QED
        BY <2>3, <3>4, <3>5, <4>1, SourceSurvives
    <3>6. \A n \in bound : Sourced(n, m)'
      BY <1>0, <1>1, <3>5 DEF AllSourced, Held
    <3>7. ASSUME NEW n \in bound PROVE Sourced(n, m + 1)'
      <4>1. Sourced(n, m)'
        BY <3>6
      <4>2. 1 .. m \subseteq 1 .. m + 1
        OBVIOUS
      <4>3. QED
        BY <4>1, <4>2, SourcedThen
    <3>8. ASSUME NEW k \in 1 .. Len(stack'), NEW n \in Held(k)' PROVE Sourced(n, k)'
      <4>1. CASE k = m + 1
        BY <2>3, <3>3, <3>7, <3>8, <4>1 DEF Held
      <4>2. CASE k = m
        <5>1. n \in stack'[m + 1].before
          BY <3>3, <3>8, <4>2 DEF Held
        <5>2. QED
          BY <3>2, <3>3, <3>6, <4>2, <5>1
      <4>3. CASE k \in 1 .. m - 1
        <5>1. k \in 1 .. m /\ k + 1 \in 1 .. m /\ k # m /\ k # m + 1
          BY <4>3
        <5>2. n \in stack'[k + 1].before
          BY <3>3, <3>8, <5>1 DEF Held
        <5>3. n \in Held(k)
          BY <1>0, <3>3, <5>1, <5>2 DEF Held
        <5>4. QED
          BY <1>0, <3>5, <5>1, <5>3 DEF AllSourced
      <4>4. QED
        BY <3>3, <4>1, <4>2, <4>3
    <3>9. QED
      BY <3>8 DEF AllSourced
  <2>6. QED
    BY <2>4, <2>5
<1>5. CASE M!EvalFail \/ M!EndProgram
  <2>1. UNCHANGED <<stack, bound, loaded, failed>>
    BY <1>5 DEF M!EvalFail, M!EndProgram
  <2>2. QED
    BY <1>2, <2>1
<1>6. CASE M!EndModule \/ M!Unwind
  BY <1>6, LeavesSourced
<1>7. QED
  BY <1>3, <1>4, <1>5, <1>6 DEF M!Next

\* The imports in progress stay as they are, or one more begins, or the
\* innermost is over.
LEMMA StackNext ==
  ASSUME FilesInv, M!Next
  PROVE  \/ stack' = stack
         \/ \E e : stack' = Append(stack, e)
         \/ /\ M!Depth > 1 /\ Len(stack') = Len(stack) - 1
            /\ \A i \in 1 .. Len(stack) - 1 : stack'[i] = stack[i]
<1>1. CASE M!EndModule \/ M!Unwind
  <2>1. M!Depth > 1 /\ stack' = Front(stack)
    BY <1>1 DEF M!EndModule, M!Unwind, M!Leave, M!Front, Front
  <2>2. stack # <<>> /\ stack \in Seq(Importers)
    BY DEF FilesInv, FileTypes
  <2>3. QED
    BY <2>1, <2>2, Popped
<1>2. CASE M!EvalImport \/ M!EvalUrl
  <2>1. PICK spec \in Specs \cup Urls, guarded \in BOOLEAN : \E f : ImportDoes(spec, guarded, f)
    BY <1>2, ImportStep
  <2>2. QED
    BY <2>1 DEF ImportDoes
<1>3. CASE M!EvalDeclaration \/ M!EvalFail \/ M!EndProgram
  BY <1>3 DEF M!EvalDeclaration, M!EvalFail, M!EndProgram
<1>4. QED
  BY <1>1, <1>2, <1>3 DEF M!Next

LEMMA EntryStays ==
  ASSUME FilesInv, EntryFirst, M!Next
  PROVE  EntryFirst'
<1>1. Len(stack) \in Nat /\ Len(stack) \in 1 .. Len(stack) /\ M!Depth = Len(stack)
  BY InnermostIs DEF FilesInv
<1>2. CASE stack' = stack
  BY <1>2 DEF EntryFirst
<1>3. ASSUME NEW e, stack' = Append(stack, e) PROVE EntryFirst'
  <2>1. stack'[1] = stack[1]
    BY <1>1, <1>3
  <2>2. QED
    BY <2>1 DEF EntryFirst
<1>4. CASE /\ M!Depth > 1 /\ Len(stack') = Len(stack) - 1
           /\ \A i \in 1 .. Len(stack) - 1 : stack'[i] = stack[i]
  <2>1. stack'[1] = stack[1]
    BY <1>1, <1>4
  <2>2. QED
    BY <2>1 DEF EntryFirst
<1>5. QED
  BY <1>2, <1>3, <1>4, StackNext

LEMMA ArrivedThen ==
  Arrived' <=>
    (Simple' =>
      /\ \A i \in 1 .. Len(stack') : ~stack'[i].guarded
      /\ \A f \in loaded' \ {EntryFile} : f \notin M!UrlFiles
      /\ fault' = "none" =>
           \A f \in loaded' :
             /\ \A s \in Range(text'[f]) :
                  s.op = "import" => M!Resolve(s.name, f.dir) \in loaded'
             /\ Introduced(text'[f]) \subseteq bound' \cup Hidden')
BY DEF Arrived

\* What is hidden stays hidden, and a program that was never simple never is.
LEMMA HiddenGrows ==
  ASSUME FilesInv, M!Next
  PROVE  Hidden \subseteq Hidden' /\ (Simple' => Simple)
<1>1. \A f \in M!Modules : Range(text[f]) \subseteq Range(text'[f])
  BY TextGrows
<1>2. Hidden' = UNION {M!DeclaredIn(text'[f]) : f \in {g \in M!Modules : M!ExportedIn(text'[g]) # {}}}
  BY DEF Hidden, M!Exporting
<1>3. Hidden = UNION {M!DeclaredIn(text[f]) : f \in {g \in M!Modules : M!ExportedIn(text[g]) # {}}}
  BY DEF Hidden, M!Exporting
<1>4. \A f \in M!Modules : /\ M!DeclaredIn(text[f]) \subseteq M!DeclaredIn(text'[f])
                           /\ M!ExportedIn(text[f]) \subseteq M!ExportedIn(text'[f])
  BY <1>1, MoreSaid
<1>5. Hidden \subseteq Hidden'
  BY <1>2, <1>3, <1>4
<1>6. Simple' => Simple
  BY <1>1 DEF Simple
<1>7. QED
  BY <1>5, <1>6

\* One more statement introduces one more name, if it is a declaration.
LEMMA OneMoreSaid ==
  ASSUME FileTypes, NEW s \in Statements, M!Write(s)
  PROVE  /\ Range(text'[M!Here]) = Range(text[M!Here]) \cup {s}
         /\ \A f \in M!Modules : f # M!Here => text'[f] = text[f]
         /\ Introduced(text'[M!Here]) \subseteq
              Introduced(text[M!Here]) \cup (IF s.op = "import" THEN {} ELSE {s.name})
<1>1. PICK t \in Seq(Statements) : text' = [text EXCEPT ![M!Here] = @ \o t] /\ Range(t) = {s}
  BY Writes
<1>2. /\ Range(text'[M!Here]) = Range(text[M!Here]) \cup {s}
      /\ \A f \in M!Modules : f # M!Here => text'[f] = text[f]
  BY <1>1, Grows
<1>3. M!Range(text'[M!Here]) = M!Range(text[M!Here]) \cup {s}
  BY <1>2, SameRange
<1>4. QED
  BY <1>2, <1>3 DEF Introduced, M!DeclaredIn, M!SplitIn, M!ExportedIn

LEMMA ArrivedDeclaring ==
  ASSUME FilesInv, Arrived, M!Next, M!EvalDeclaration
  PROVE  Arrived'
<1>1. PICK s \in M!Declarations :
        /\ M!Write(s)
        /\ bound' = IF s.op # "class" /\ M!InBlock THEN bound ELSE bound \cup {s.name}
  BY DEF M!EvalDeclaration
<1>2. UNCHANGED <<stack, loaded, fault>>
  BY DEF M!EvalDeclaration
<1>3. s \in Statements /\ s.op # "import"
  BY WrittenAreStatements
<1>4. loaded \subseteq M!Modules /\ FileTypes /\ M!Depth = Len(stack)
  BY InnermostIs DEF FilesInv, FileTypes
<1>5. SUFFICES ASSUME Simple'
               PROVE  /\ \A i \in 1 .. Len(stack') : ~stack'[i].guarded
                      /\ \A f \in loaded' \ {EntryFile} : f \notin M!UrlFiles
                      /\ fault' = "none" =>
                           \A f \in loaded' :
                             /\ \A r \in Range(text'[f]) :
                                  r.op = "import" => M!Resolve(r.name, f.dir) \in loaded'
                             /\ Introduced(text'[f]) \subseteq bound' \cup Hidden'
  BY ArrivedThen
<1>6. /\ \A i \in 1 .. Len(stack) : ~stack[i].guarded
      /\ \A f \in loaded \ {EntryFile} : f \notin M!UrlFiles
      /\ fault = "none" =>
           \A f \in loaded :
             /\ \A r \in Range(text[f]) :
                  r.op = "import" => M!Resolve(r.name, f.dir) \in loaded
             /\ Introduced(text[f]) \subseteq bound \cup Hidden
  BY <1>5, HiddenGrows DEF Arrived
<1>7. bound' = bound \cup {s.name}
  BY <1>1, <1>4, <1>6 DEF M!InBlock
<1>8. ASSUME NEW f \in loaded, fault = "none"
      PROVE  /\ \A r \in Range(text'[f]) :
                  r.op = "import" => M!Resolve(r.name, f.dir) \in loaded
             /\ Introduced(text'[f]) \subseteq bound' \cup Hidden'
  <2>1. CASE f = M!Here
    BY <1>1, <1>3, <1>4, <1>6, <1>7, <1>8, <2>1, OneMoreSaid, HiddenGrows
  <2>2. CASE f # M!Here
    <3>1. text'[f] = text[f]
      BY <1>1, <1>3, <1>4, <2>2, OneMoreSaid
    <3>2. QED
      BY <1>6, <1>7, <1>8, <3>1, HiddenGrows
  <2>3. QED
    BY <2>1, <2>2
<1>9. QED
  BY <1>2, <1>6, <1>8

LEMMA ArrivedImporting ==
  ASSUME FilesInv, Arrived, M!Next, M!EvalImport \/ M!EvalUrl
  PROVE  Arrived'
<1>1. PICK spec \in Specs \cup Urls, guarded \in BOOLEAN : \E f : ImportDoes(spec, guarded, f)
  BY ImportStep
<1>2. PICK f : ImportDoes(spec, guarded, f)
  BY <1>1
<1>3. PICK s \in Statements : /\ s = M!Import(spec, guarded) /\ s.op = "import"
                              /\ s.name = spec /\ s.flag = guarded
  BY WrittenAreStatements DEF M!Import
<1>4. M!Write(s) /\ bound' = bound /\ fault = "none"
  BY <1>2, <1>3 DEF ImportDoes
<1>5. /\ loaded \subseteq M!Modules /\ FileTypes /\ M!Here \in M!Modules /\ M!Here \in loaded
      /\ current = M!Here.dir /\ Len(stack) \in Nat
      /\ \A g \in M!Modules \ loaded : text[g] = <<>>
  BY InnermostIs DEF FilesInv, FileTypes, Nested, Unread
<1>6. SUFFICES ASSUME Simple'
               PROVE  /\ \A i \in 1 .. Len(stack') : ~stack'[i].guarded
                      /\ \A g \in loaded' \ {EntryFile} : g \notin M!UrlFiles
                      /\ fault' = "none" =>
                           \A g \in loaded' :
                             /\ \A r \in Range(text'[g]) :
                                  r.op = "import" => M!Resolve(r.name, g.dir) \in loaded'
                             /\ Introduced(text'[g]) \subseteq bound' \cup Hidden'
  BY ArrivedThen
<1>7. /\ \A i \in 1 .. Len(stack) : ~stack[i].guarded
      /\ \A g \in loaded \ {EntryFile} : g \notin M!UrlFiles
      /\ \A g \in loaded :
           /\ \A r \in Range(text[g]) :
                r.op = "import" => M!Resolve(r.name, g.dir) \in loaded
           /\ Introduced(text[g]) \subseteq bound \cup Hidden
  BY <1>4, <1>6, HiddenGrows DEF Arrived
<1>8. ~guarded /\ spec \notin Urls
  <2>1. s \in Range(text'[M!Here])
    BY <1>4, <1>5, OneMoreSaid
  <2>2. \A r \in Range(text'[M!Here]) : r.op = "import" => ~r.flag /\ r.name \notin Urls
    BY <1>5, <1>6 DEF Simple
  <2>3. QED
    BY <1>3, <2>1, <2>2
<1>9. Brings(spec, f) =>
        f = M!Resolve(spec, M!Here.dir) /\ f \in M!Modules /\ f \notin M!UrlFiles
  <2>1. Brings(spec, f) => f = M!Resolve(spec, M!Here.dir) /\ f \in M!Modules /\ f.name = spec
    BY <1>5, <1>8, FoundIsFile DEF Brings
  <2>2. \A g \in M!UrlFiles : g.name \in Urls
    BY DEF M!UrlFiles
  <2>3. QED
    BY <1>8, <2>1, <2>2
<1>10. ASSUME NEW g \in loaded
       PROVE  /\ \A r \in Range(text'[g]) :
                   r.op = "import" =>
                     (r = s /\ g = M!Here) \/ M!Resolve(r.name, g.dir) \in loaded
              /\ Introduced(text'[g]) \subseteq bound' \cup Hidden'
  <2>1. CASE g = M!Here
    BY <1>3, <1>4, <1>5, <1>7, <2>1, OneMoreSaid, HiddenGrows
  <2>2. CASE g # M!Here
    <3>1. text'[g] = text[g]
      BY <1>4, <1>5, <2>2, OneMoreSaid
    <3>2. QED
      BY <1>4, <1>7, <3>1, HiddenGrows
  <2>3. QED
    BY <2>1, <2>2
<1>11. CASE UNCHANGED <<stack, loaded>> /\ (fault' = "none" => guarded)
  BY <1>7, <1>8, <1>11
<1>12. CASE Brings(spec, f) /\ f \in loaded /\ UNCHANGED <<stack, loaded>>
  <2>1. \A g \in loaded : \A r \in Range(text'[g]) :
          r.op = "import" => M!Resolve(r.name, g.dir) \in loaded
    BY <1>3, <1>9, <1>10, <1>12
  <2>2. QED
    BY <1>7, <1>10, <1>12, <2>1
<1>13. CASE /\ Brings(spec, f) /\ f \notin loaded /\ loaded' = loaded \cup {f}
            /\ stack' = stack /\ (fault' = "none" => guarded)
  BY <1>7, <1>8, <1>9, <1>13
<1>14. CASE /\ Brings(spec, f) /\ f \notin loaded /\ loaded' = loaded \cup {f}
            /\ stack' = Append(stack, [file |-> f, dir |-> current, exports |-> exports,
                                       before |-> bound, guarded |-> guarded])
  <2>1. \A g \in loaded : \A r \in Range(text'[g]) :
          r.op = "import" => M!Resolve(r.name, g.dir) \in loaded'
    BY <1>3, <1>9, <1>10, <1>14
  <2>2. Range(text'[f]) = {} /\ Introduced(text'[f]) = {}
    <3>1. text'[f] = <<>>
      BY <1>4, <1>5, <1>9, <1>14, OneMoreSaid
    <3>2. QED
      BY <3>1 DEF Range, Introduced, M!DeclaredIn, M!SplitIn, M!ExportedIn, M!Range
  <2>3. \A i \in 1 .. Len(stack') : ~stack'[i].guarded
    <3> DEFINE e == [file |-> f, dir |-> current, exports |-> exports, before |-> bound,
                     guarded |-> guarded]
    <3>1. stack' = Append(stack, e) /\ ~e.guarded
      BY <1>8, <1>14
    <3> HIDE DEF e
    <3>2. /\ Len(stack') = Len(stack) + 1 /\ stack'[Len(stack) + 1] = e
          /\ \A i \in 1 .. Len(stack) : stack'[i] = stack[i]
      BY <1>5, <3>1, AppendProperties DEF FileTypes
    <3>3. QED
      BY <1>5, <1>7, <3>1, <3>2
  <2>4. QED
    BY <1>7, <1>9, <1>10, <1>14, <2>1, <2>2, <2>3
<1>15. QED
  BY <1>2, <1>11, <1>12, <1>13, <1>14 DEF ImportDoes

LEMMA ArrivedLeaving ==
  ASSUME FilesInv, EntryFirst, Arrived, M!Next, M!EndModule \/ M!Unwind
  PROVE  Arrived'
<1>1. M!Depth > 1 /\ M!Leave /\ loaded' = loaded
  BY DEF M!EndModule, M!Unwind
<1>2. PICK m \in Nat : m = Len(stack) /\ m > 1 /\ m \in 1 .. m /\ 1 \in 1 .. m
  BY <1>1, InnermostIs DEF FilesInv
<1>3. /\ loaded \subseteq M!Modules /\ M!Here \in M!Modules /\ M!Here \in loaded
      /\ M!Here # EntryFile /\ M!Top = stack[m]
      /\ exports = M!ExportedIn(text[M!Here])
  BY <1>2, InnermostIs DEF FilesInv, FileTypes, Nested, Told, EntryFirst
<1>4. SUFFICES ASSUME Simple'
               PROVE  /\ \A i \in 1 .. Len(stack') : ~stack'[i].guarded
                      /\ \A g \in loaded' \ {EntryFile} : g \notin M!UrlFiles
                      /\ fault' = "none" =>
                           \A g \in loaded' :
                             /\ \A r \in Range(text'[g]) :
                                  r.op = "import" => M!Resolve(r.name, g.dir) \in loaded'
                             /\ Introduced(text'[g]) \subseteq bound' \cup Hidden'
  BY ArrivedThen
<1>5. /\ \A i \in 1 .. m : ~stack[i].guarded
      /\ \A g \in loaded \ {EntryFile} : g \notin M!UrlFiles
      /\ fault = "none" =>
           \A g \in loaded :
             /\ \A r \in Range(text[g]) :
                  r.op = "import" => M!Resolve(r.name, g.dir) \in loaded
             /\ Introduced(text[g]) \subseteq bound \cup Hidden
  BY <1>2, <1>4, HiddenGrows DEF Arrived
<1>6. \A i \in 1 .. Len(stack') : ~stack'[i].guarded
  <2>1. Len(stack') = m - 1 /\ \A i \in 1 .. m - 1 : stack'[i] = stack[i]
    <3>1. stack' = Front(stack)
      BY <1>1 DEF M!Leave, M!Front, Front
    <3>2. stack # <<>> /\ stack \in Seq(Importers)
      BY DEF FilesInv, FileTypes
    <3>3. QED
      BY <1>2, <3>1, <3>2, Popped
  <2>2. QED
    BY <1>2, <1>5, <2>1
<1>7. CASE M!Unwind
  <2>1. fault' = fault /\ fault # "none"
    BY <1>2, <1>3, <1>5, <1>7 DEF M!Unwind
  <2>2. QED
    BY <1>1, <1>5, <1>6, <2>1
<1>8. CASE M!EndModule
  <2>1. text' = text /\ fault' = fault
    BY <1>8 DEF M!EndModule
  <2>2. bound \subseteq bound' \cup Hidden
    <3>1. M!Here \notin M!UrlFiles
      BY <1>3, <1>5
    <3>2. bound' = IF exports = {} THEN bound ELSE M!Kept(M!Top)
      BY <1>8, <3>1 DEF M!EndModule
    <3>3. CASE exports = {}
      BY <3>2, <3>3
    <3>4. CASE exports # {}
      <4>1. M!DeclaredIn(text[M!Here]) \subseteq Hidden
        BY <1>3, <3>4 DEF Hidden, M!Exporting
      <4>2. bound \subseteq bound' \cup M!DeclaredIn(text[M!Here])
        BY <3>2, <3>4 DEF M!Kept, M!Here
      <4>3. QED
        BY <4>1, <4>2
    <3>5. QED
      BY <3>3, <3>4
  <2>3. QED
    BY <1>1, <1>5, <1>6, <2>1, <2>2, HiddenGrows
<1>9. QED
  BY <1>7, <1>8

LEMMA ArrivedNext ==
  ASSUME FilesInv, EntryFirst, Arrived, M!Next
  PROVE  Arrived'
<1>1. CASE M!EvalFail \/ M!EndProgram
  <2>1. fault' # "none" /\ UNCHANGED <<stack, loaded>>
    BY <1>1 DEF M!EvalFail, M!EndProgram
  <2>2. Simple' => /\ \A i \in 1 .. Len(stack) : ~stack[i].guarded
                   /\ \A g \in loaded \ {EntryFile} : g \notin M!UrlFiles
    BY HiddenGrows DEF Arrived
  <2>3. QED
    BY <2>1, <2>2, ArrivedThen
<1>2. QED
  BY <1>1, ArrivedDeclaring, ArrivedImporting, ArrivedLeaving DEF M!Next

\* Where the walk read all there is, it promises what is there.
LEMMA PromisesHold ==
  ASSUME FilesInv, EntryFirst, Reached, AllSourced, Arrived
  PROVE  M!PromisedNamesArrive /\ M!NothingUsableIsRejected
<1>1. SUFFICES ASSUME M!Depth = 1, fault = "none", M!ImportedNames.complete
               PROVE  M!PromisedNamesArrive /\ M!NothingUsableIsRejected
  BY DEF M!PromisedNamesArrive, M!NothingUsableIsRejected
<1>2. PICK V \in SUBSET M!Modules :
        /\ Closed(V \cup {EntryFile})
        /\ M!ImportedNames.names = UNION {M!Contributed(text[f]) : f \in V}
        /\ \A S \in SUBSET M!Modules : Closed(S) => V \subseteq S
  BY <1>1, PromisesAre DEF FilesInv
<1>3. /\ Len(stack) = 1 /\ stack[1].file = EntryFile /\ EntryFile \in loaded
      /\ EntryFile \in M!Modules /\ loaded \subseteq M!Modules
  BY <1>1, InnermostIs DEF FilesInv, FileTypes, Nested, EntryFirst
<1>4. loaded \subseteq V \cup {EntryFile}
  BY <1>2, <1>3 DEF Reached
<1>5. M!NothingUsableIsRejected
  <2>1. ASSUME NEW n \in bound
        PROVE  \/ n \in M!OwnNames \/ n \in M!ImportedNames.names
               \/ n \in UNION {M!SplitIn(text[f]) : f \in M!Exporting}
               \/ n \in UNION {M!DeclaredIn(text[f]) : f \in failed}
    <3>1. Sourced(n, 1)
      BY <1>3 DEF AllSourced, Held
    <3>2. PICK f \in loaded :
            /\ n \in Introduced(text[f])
            /\ (\E i \in 1 .. 1 : stack[i].file = f) \/ (Ended(f) /\ Left(f, n))
      BY <3>1 DEF Sourced
    <3>3. CASE f = EntryFile
      BY <3>2, <3>3 DEF Introduced, M!OwnNames
    <3>4. CASE f # EntryFile
      <4>1. f \in V /\ f \in M!Modules /\ Left(f, n)
        BY <1>3, <1>4, <3>2, <3>4
      <4>2. CASE n \in M!Contributed(text[f])
        BY <1>2, <4>1, <4>2
      <4>3. CASE n \in M!SplitIn(text[f]) /\ M!ExportedIn(text[f]) # {}
        BY <4>1, <4>3 DEF M!Exporting
      <4>4. CASE n \in M!DeclaredIn(text[f]) /\ f \in failed
        <5>1. n \in UNION {M!DeclaredIn(text[g]) : g \in failed}
          BY <4>4, Zenon
        <5>2. QED
          BY <5>1, Zenon
      <4>5. QED
        BY <4>1, <4>2, <4>3, <4>4 DEF Left
    <3>5. QED
      BY <3>3, <3>4
  <2> DEFINE A == M!OwnNames
             B == M!ImportedNames.names
             C == UNION {M!SplitIn(text[f]) : f \in M!Exporting}
             D == UNION {M!DeclaredIn(text[f]) : f \in failed}
  <2>2. \A n \in bound : n \in A \/ n \in B \/ n \in C \/ n \in D
    BY <2>1, Zenon
  <2> HIDE DEF A, B, C, D
  <2>3. bound \subseteq A \cup B \cup C \cup D
    BY <2>2
  <2>4. QED
    BY <2>3, Zenon DEF A, B, C, D, M!NothingUsableIsRejected
<1>6. M!PromisedNamesArrive
  <2>1. SUFFICES ASSUME \A f \in M!Modules : \A s \in M!Range(text[f]) : s.op = "import" => ~s.flag
                 PROVE  M!ImportedNames.names \ Hidden \subseteq bound
    BY DEF M!PromisedNamesArrive, Hidden
  <2>2. Simple
    <3>1. ASSUME NEW f \in M!Modules, NEW s \in Range(text[f]), s.op = "import"
          PROVE  ~s.flag /\ s.name \notin Urls
      <4>1. ~s.flag
        BY <2>1, <3>1, SameRange
      <4>2. f \in loaded
        <5>1. f \notin loaded => text[f] = <<>>
          BY DEF FilesInv, Unread
        <5>2. QED
          BY <5>1 DEF Range
      <4>3. QED
        BY <1>2, <1>4, <3>1, <4>1, <4>2 DEF Closed
    <3>2. QED
      BY <3>1 DEF Simple
  <2>3. \A f \in loaded :
          /\ \A s \in Range(text[f]) : s.op = "import" => M!Resolve(s.name, f.dir) \in loaded
          /\ Introduced(text[f]) \subseteq bound \cup Hidden
    BY <1>1, <2>2 DEF Arrived
  <2>4. Closed(loaded)
    BY <1>3, <2>2, <2>3 DEF Closed, Simple
  <2>5. V \subseteq loaded
    BY <1>2, <1>3, <2>4
  <2>6. \A t : M!Contributed(t) \subseteq Introduced(t)
    BY DEF M!Contributed, Introduced
  <2>7. QED
    BY <1>2, <2>3, <2>5, <2>6
<1>7. QED
  BY <1>5, <1>6

PromiseInv == FilesInv /\ EntryFirst /\ Reached /\ AllSourced /\ Arrived

LEMMA PromisesBegin == M!Init => PromiseInv
<1> SUFFICES ASSUME M!Init PROVE PromiseInv
  OBVIOUS
<1> DEFINE e == [file |-> EntryFile, dir |-> EntryFile.dir, exports |-> M!NoExports,
                 before |-> {}, guarded |-> FALSE]
<1>1. /\ stack = <<e>> /\ loaded = {EntryFile} /\ bound = {}
      /\ text = [f \in M!Modules |-> <<>>]
  BY DEF M!Init
<1>2. e.file = EntryFile /\ ~e.guarded
  OBVIOUS
<1> HIDE DEF e
<1>3. Len(stack) = 1 /\ stack[1] = e
  BY <1>1
<1>4. EntryFirst /\ AllSourced
  BY <1>1, <1>2, <1>3 DEF EntryFirst, AllSourced, Held
<1>5. Reached
  BY <1>1 DEF Reached, Closed
<1>6. Arrived
  <2>1. EntryFile \in M!Modules
    BY ImportsAssumption DEF M!Modules
  <2>2. text[EntryFile] = <<>>
    BY <1>1, <2>1
  <2>3. Range(text[EntryFile]) = {} /\ Introduced(text[EntryFile]) = {}
    BY <2>2 DEF Range, Introduced, M!DeclaredIn, M!SplitIn, M!ExportedIn, M!Range
  <2>4. QED
    BY <1>1, <1>2, <1>3, <2>3 DEF Arrived
<1>7. QED
  BY <1>4, <1>5, <1>6, FilesBegin DEF PromiseInv

\* The names the static walk over the imports finds are those the program has:
\* what it promises has arrived when every import went well, and what a program
\* can use it knows of (semantic::imports against eval_import and eval_export).
THEOREM PromisesAreExact == NameSpec => []ImportedNamesAreExact
<1> DEFINE AllInv == program = "files" => PromiseInv
<1>1. NameInit => AllInv
  BY PromisesBegin DEF NameInit
<1>2. AllInv /\ [NameNext]_nameVars => AllInv'
  <2> SUFFICES ASSUME AllInv, [NameNext]_nameVars, program' = "files" PROVE PromiseInv'
    OBVIOUS
  <2>1. CASE NameNext
    <3>1. program = "files" /\ M!Next
      BY <2>1 DEF NameNext
    <3>2. PromiseInv
      BY <3>1
    <3>3. FilesInv'
      BY <3>1, <3>2, FilesFollow DEF PromiseInv
    <3>4. EntryFirst' /\ Reached' /\ AllSourced' /\ Arrived'
      BY <3>1, <3>2, EntryStays, ReachedNext, SourcedNext, ArrivedNext DEF PromiseInv
    <3>5. QED
      BY <3>3, <3>4 DEF PromiseInv
  <2>2. CASE UNCHANGED nameVars
    <3>1. /\ program = "files"
          /\ UNCHANGED <<text, stack, bound, exports, current, loaded, failed, fault>>
      BY <2>2 DEF nameVars, modules
    <3>2. PromiseInv
      BY <3>1
    <3>3. FilesInv'
      BY <3>1, <3>2, FilesStay DEF PromiseInv
    <3>4. EntryFirst' /\ Reached'
      BY <3>1, <3>2 DEF PromiseInv, EntryFirst, Reached, Closed
    <3>5. AllSourced'
      <4>1. ASSUME NEW n, NEW k PROVE Sourced(n, k) => Sourced(n, k)'
        BY <3>1, SourcedThen DEF Sourced, Ended, Left
      <4>2. \A k \in 1 .. Len(stack') : k \in 1 .. Len(stack) /\ Held(k)' = Held(k)
        BY <3>1 DEF Held
      <4>3. QED
        BY <3>2, <4>1, <4>2 DEF PromiseInv, AllSourced
    <3>6. Arrived'
      BY <3>1, <3>2 DEF PromiseInv, Arrived, Simple, Hidden, M!Exporting
    <3>7. QED
      BY <3>3, <3>4, <3>5, <3>6 DEF PromiseInv
  <2>3. QED
    BY <2>1, <2>2
<1>3. AllInv => ImportedNamesAreExact
  BY PromisesHold DEF PromiseInv, ImportedNamesAreExact
<1>4. QED
  BY <1>1, <1>2, <1>3, PTL DEF NameSpec

=============================================================================
