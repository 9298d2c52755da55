------------------------- MODULE SlackImportProofs -------------------------
(***************************************************************************)
(* Proofs about SlackImport, for any exports, channels, days and number of *)
(* overlapping requests: the types; that nothing is imported that no saved *)
(* selection covers (OnlyPicked); that on_done tells of an import that is  *)
(* complete (DoneMeansStored); that a request is not dropped in silence    *)
(* over a channel of its own (DroppedOverOthers).                          *)
(*                                                                         *)
(* OnlyPicked is not inductive: what a file loop may store depends on the  *)
(* specification the handler took from the shared map, and that on the     *)
(* requests merged into it.  PickedInv says of each of these places that   *)
(* the days its specifications admit were picked.  ProgressInv says what a *)
(* run has stored so far, and OneUploadInv that there is one listing until *)
(* a second upload, all of it in memory or nothing unless decodes overlap. *)
(***************************************************************************)
EXTENDS SlackImport, TLAPS

-----------------------------------------------------------------------------
\* What the page sends

\* Every date the page can send has a specification of the declared types.
LEMMA SpecOfType ==
    ASSUME NEW c \in Channels, NEW choice \in Choices \cup {NoChoice}, NEW whole
    PROVE  SpecOf(c, choice, whole) \in Specs
<1>1. Now \in Nat /\ Created[c] \in 0 .. Now /\ LastDay \in Nat \ {0}
  BY ImportAssumption DEF Now, Midnight
<1>2. CASE choice = NoChoice
  BY <1>2 DEF SpecOf, Specs
<1>3. CASE choice # NoChoice
  <2>1. choice \in [start : 0 .. LastDay, end : 0 .. LastDay]
    BY <1>3, ImportAssumption
  <2>2. Midnight(choice.start) \in 0 .. Now /\ Midnight(choice.end) \in 0 .. Now
    BY <1>1, <2>1 DEF Midnight, Now
  <2>3. \A f, t \in 0 .. Now : Dates(f, t) \in Specs
    BY DEF Specs
  <2>4. Dates(Midnight(choice.start), Midnight(choice.end)) \in Specs
        /\ Dates(Midnight(choice.start), Now) \in Specs
        /\ Dates(Created[c], Midnight(choice.end)) \in Specs
    BY <1>1, <2>2, <2>3
  <2>5. All \in Specs /\ Unreadable \in Specs
    BY DEF Specs
  <2>6. QED
    BY <1>3, <2>4, <2>5 DEF SpecOf
<1>4. QED
  BY <1>2, <1>3

\* A day that a specification admits is one the admin meant: the dates become
\* times that no file of another day fits into.
LEMMA SpecOfMeant ==
    ASSUME NEW c \in Channels, NEW choice \in Choices \cup {NoChoice}, NEW whole,
           SpecOf(c, choice, whole).kind \in {"all", "dates"},
           NEW d \in Days, InRange(SpecOf(c, choice, whole), d)
    PROVE  d \in Meant(choice)
<1>1. choice # NoChoice
  BY DEF SpecOf, None
<1>2. choice \in [start : 0 .. LastDay, end : 0 .. LastDay]
  BY <1>1, ImportAssumption
<1>3. d \in Nat /\ LastDay \in Nat /\ Created[c] \in Nat
  BY ImportAssumption DEF Days, Now, Midnight
<1>4. choice.start <= d
  BY <1>1, <1>2, <1>3 DEF SpecOf, InRange, Dates, All, Midnight, Unreadable
<1>5. choice.end = 0 \/ d <= choice.end
  BY <1>1, <1>2, <1>3 DEF SpecOf, InRange, Dates, All, Midnight, Unreadable
<1>6. QED
  BY <1>1, <1>4, <1>5 DEF Meant

\* A map of specifications is one on some of the channels.
LEMMA SelectionsIs ==
    ASSUME NEW f \in Selections
    PROVE  /\ DOMAIN f \subseteq Channels
           /\ \A c \in DOMAIN f : f[c] \in Specs
  BY DEF Selections

LEMMA MergedType ==
    ASSUME NEW body \in Selections, filtered \in Selections
    PROVE  Merged(body) \in Selections
<1>1. DOMAIN body \cup DOMAIN filtered \in SUBSET Channels
  BY SelectionsIs
<1>2. Merged(body) \in [DOMAIN body \cup DOMAIN filtered -> Specs]
  BY SelectionsIs DEF Merged
<1>3. QED
  BY <1>1, <1>2 DEF Selections

LEMMA NothingType == Nothing \in Selections
<1>1. Nothing \in [{} -> Specs]
  BY DEF Nothing
<1>2. QED
  BY <1>1 DEF Selections

LEMMA IdleType == Idle \in ImportType
  BY NothingType DEF Idle, ImportType, Specs

-----------------------------------------------------------------------------
\* Types

\* A run that only loses its "alone" is otherwise as it was.
LEMMA SpoiledIs ==
    ASSUME NEW run \in ImportType
    PROVE  LET spoiled == [run EXCEPT !.alone = FALSE]
           IN /\ spoiled \in ImportType /\ spoiled.alone = FALSE
              /\ spoiled.pc = run.pc /\ spoiled.body = run.body
              /\ spoiled.keys = run.keys /\ spoiled.seen = run.seen
              /\ spoiled.export = run.export /\ spoiled.channel = run.channel
              /\ spoiled.days = run.days /\ spoiled.spec = run.spec
  BY DEF ImportType

\* After a file of a channel: its days are one less, and with the last of them
\* the loop over the files is left.
LEMMA AfterFileIs ==
    ASSUME NEW run \in ImportType, run.pc = "files", NEW d \in run.days
    PROVE  LET next == AfterFile(run, d)
           IN /\ next \in ImportType
              /\ next.days = run.days \ {d}
              /\ next.pc = (IF run.days = {d} THEN "channels" ELSE "files")
              /\ next.body = run.body /\ next.keys = run.keys /\ next.seen = run.seen
              /\ next.alone = run.alone
              /\ next.pc = "files" => next.channel = run.channel /\ next.spec = run.spec
<1>1. None \in Specs
  BY DEF Specs
<1>2. CASE run.days = {d}
  BY <1>1, <1>2 DEF AfterFile, ImportType
<1>3. CASE run.days # {d}
  BY <1>3 DEF AfterFile, ImportType
<1> QED
  BY <1>2, <1>3

\* Extracting some files of an archive, and a piece of one more: no two files
\* of one channel and day, and a folder for each, whatever was there.
LEMMA ExtractedType ==
    ASSUME TypeOK, NEW e \in Exports, NEW part \in SUBSET FilesIn[e],
           NEW torn \in SUBSET (FilesIn[e] \ part), Extracted(e, part, torn),
           folders' \subseteq Channels, folders \subseteq folders',
           \A q \in part \cup torn : q[1] \in folders',
           listed' \in {e, listed, Torn}
    PROVE  FilesType' /\ ImportsType'
<1>1. part \subseteq Channels \X Days /\ torn \subseteq Channels \X Days
      /\ part \cap torn = {}
  BY ImportAssumption
<1>2. disk' = {f \in disk : <<f[1], f[2]>> \notin part \cup torn}
                \cup {<<p[1], p[2], e>> : p \in part}
                \cup {<<p[1], p[2], Torn>> : p \in torn}
  BY DEF Extracted
<1>3. disk' \subseteq Channels \X Days \X (Exports \cup {Torn})
  BY <1>1, <1>2 DEF TypeOK, FilesType
<1>4. \A f \in disk' : \/ f \in disk /\ <<f[1], f[2]>> \notin part \cup torn
                       \/ <<f[1], f[2]>> \in part /\ f = <<f[1], f[2], e>>
                       \/ <<f[1], f[2]>> \in torn /\ f = <<f[1], f[2], Torn>>
  <2> TAKE f \in disk'
  <2>1. CASE f \in disk /\ <<f[1], f[2]>> \notin part \cup torn
    BY <2>1
  <2>2. ASSUME NEW x, NEW P \in {part, torn}, NEW p \in P, f = <<p[1], p[2], x>>
        PROVE  <<f[1], f[2]>> \in P /\ f = <<f[1], f[2], x>>
    <3>1. p = <<p[1], p[2]>>
      BY <1>1
    <3>2. f[1] = p[1] /\ f[2] = p[2]
      BY <2>2
    <3>3. QED
      BY <2>2, <3>1, <3>2
  <2>3. QED
    BY <1>2, <2>1, <2>2
<1>5. \A f, g \in disk' : f[1] = g[1] /\ f[2] = g[2] => f = g
  <2> SUFFICES ASSUME NEW f \in disk', NEW g \in disk', f[1] = g[1], f[2] = g[2]
               PROVE  f = g
    OBVIOUS
  <2>1. <<f[1], f[2]>> = <<g[1], g[2]>> /\ <<f[1], f[2], e>> = <<g[1], g[2], e>>
        /\ <<f[1], f[2], Torn>> = <<g[1], g[2], Torn>>
    OBVIOUS
  <2>2. CASE <<f[1], f[2]>> \in part \cup torn
    BY <1>1, <1>4, <2>1, <2>2
  <2>3. CASE <<f[1], f[2]>> \notin part \cup torn
    <3>1. f \in disk /\ g \in disk
      BY <1>4, <2>1, <2>3
    <3>2. QED
      BY <3>1 DEF TypeOK, FilesType
  <2>4. QED
    BY <2>2, <2>3
<1>6. \A f \in disk' : f[1] \in folders'
  <2> TAKE f \in disk'
  <2>1. CASE f \in disk
    BY <2>1 DEF TypeOK, FilesType
  <2>2. CASE <<f[1], f[2]>> \in part \cup torn
    BY <2>2
  <2>3. QED
    BY <1>4, <2>1, <2>2
<1>7. FilesType'
  BY <1>3, <1>5, <1>6 DEF TypeOK, FilesType
<1>8. ImportsType'
  BY SpoiledIs DEF Extracted, TypeOK, ImportsType
<1>9. QED
  BY <1>7, <1>8

\* What may be in memory during a decode, and what is after it.
LEMMA MixableType ==
    ASSUME TypeOK
    PROVE  Decoded \subseteq Exports /\ Mixable \subseteq Channels
<1>1. Decoded \subseteq Exports
  BY DEF Decoded, TypeOK, ImportsType
<1> QED
  BY <1>1, ImportAssumption DEF Mixable, TypeOK, RestType

LEMMA EndsDecodeType ==
    ASSUME TypeOK, NEW e \in Exports, EndsDecode(e)
    PROVE  known' \subseteq Channels /\ known' # {}
  BY MixableType, ImportAssumption DEF EndsDecode

\* A handler ends, or the process does.
LEMMA AnswerType ==
    ASSUME TypeOK, NEW r \in Requests, Answer(r)
    PROVE  ImportsType'
  BY IdleType DEF Answer, FilesType, ImportsType, RestType, TypeOK, Idle

LEMMA DiesType == ASSUME TypeOK, Dies PROVE TypeOK'
<1>1. ImportsType'
  BY IdleType DEF Dies, FilesType, ImportsType, RestType, Idle
<1>2. FilesType'
  BY DEF Dies, FilesType, ImportsType, RestType, files, TypeOK
<1>3. RestType'
  <2>1. reading' \in [Exports -> Nat] /\ muddled' \in BOOLEAN /\ known' = {}
    BY DEF Dies
  <2>2. crashes' \in 0 .. MaxCrashes
    BY BoundsAssumption DEF Dies, RestType, TypeOK
  <2> QED
    BY <2>1, <2>2, NothingType DEF Dies, RestType, page, TypeOK
<1>4. QED
  BY <1>1, <1>2, <1>3 DEF TypeOK

LEMMA TypeInit == Init => TypeOK
<1> SUFFICES ASSUME Init PROVE TypeOK
  OBVIOUS
<1>1. FilesType
  BY DEF Init, FilesType
<1>2. ImportsType
  BY IdleType DEF Init, ImportsType, Idle
<1>3. RestType
  <2>1. filtered \in Selections /\ done \in BOOLEAN
    BY NothingType DEF Init
  <2>2. uploads \in 0 .. MaxUploads /\ saves \in 0 .. MaxSaves /\ crashes \in 0 .. MaxCrashes
    BY BoundsAssumption DEF Init
  <2>3. QED
    BY <2>1, <2>2 DEF Init, RestType
<1>4. QED
  BY <1>1, <1>2, <1>3 DEF TypeOK

\* The steps of the uploads and of the page.
LEMMA TypePage ==
    ASSUME TypeOK,
           \/ \E e \in Exports : Unzip(e) \/ UnzipFails(e) \/ ReadListing(e)
           \/ OpenListing \/ ReadFails \/ HearDone \/ Leave
    PROVE  TypeOK'
<1> USE DEF files, page, server
<1>1. ASSUME NEW e \in Exports, Unzip(e) PROVE TypeOK'
  <2>1. FilesType' /\ ImportsType'
    <3>1. \A q \in FilesIn[e] : q[1] \in FoldersIn[e]
      BY ImportAssumption
    <3>2. FoldersIn[e] \subseteq Channels
      BY ImportAssumption
    <3>3. folders' = folders \cup FoldersIn[e] /\ listed' = e
          /\ Extracted(e, FilesIn[e], {}) /\ folders \subseteq Channels
      BY <1>1 DEF Unzip, TypeOK, FilesType
    <3>4. QED
      BY <3>1, <3>2, <3>3, ExtractedType
  <2>2. RestType'
    BY <1>1, BoundsAssumption DEF Unzip, RestType, TypeOK
  <2>3. QED
    BY <2>1, <2>2 DEF TypeOK
<1>2. ASSUME NEW e \in Exports, UnzipFails(e) PROVE TypeOK'
  <2>1. FilesType' /\ ImportsType'
    <3>0. PICK part \in SUBSET FilesIn[e] :
             \E torn \in {{}} \cup {{p} : p \in FilesIn[e] \ part} :
              /\ Extracted(e, part, torn)
              /\ folders' = folders \cup {p[1] : p \in part \cup torn}
              /\ listed' \in {listed, e} \cup (IF torn = {} THEN {Torn} ELSE {})
      BY <1>2 DEF UnzipFails
    <3>1. PICK torn \in {{}} \cup {{p} : p \in FilesIn[e] \ part} :
              /\ Extracted(e, part, torn)
              /\ folders' = folders \cup {p[1] : p \in part \cup torn}
              /\ listed' \in {listed, e} \cup (IF torn = {} THEN {Torn} ELSE {})
      BY <3>0
    <3>2. part \cup torn \subseteq Channels \X Days /\ torn \in SUBSET (FilesIn[e] \ part)
      BY ImportAssumption
    <3>3. folders' \subseteq Channels /\ folders \subseteq folders'
          /\ \A q \in part \cup torn : q[1] \in folders'
      BY <3>1, <3>2 DEF TypeOK, FilesType
    <3>4. listed' \in {e, listed, Torn}
      BY <3>1
    <3>5. QED
      BY <3>1, <3>2, <3>3, <3>4, ExtractedType
  <2>2. RestType'
    BY <1>2, BoundsAssumption DEF UnzipFails, RestType, TypeOK
  <2>3. QED
    BY <2>1, <2>2 DEF TypeOK
<1>3. ASSUME NEW e \in Exports, ReadListing(e) PROVE TypeOK'
  <2>1. reading' \in [Exports -> Nat]
    BY <1>3 DEF ReadListing, RestType, TypeOK
  <2>2. known' \subseteq Channels
    BY <1>3, EndsDecodeType DEF ReadListing
  <2>3. RestType'
    BY <1>3, <2>1, <2>2 DEF ReadListing, RestType, TypeOK
  <2> QED
    BY <1>3, <2>3 DEF ReadListing, FilesType, ImportsType, TypeOK
<1>4. CASE OpenListing
  <2>1. RestType'
    BY <1>4 DEF OpenListing, BeginsDecode, RestType, TypeOK
  <2> QED
    BY <1>4, <2>1 DEF OpenListing, FilesType, ImportsType, TypeOK
<1>5. CASE ReadFails
  BY <1>5 DEF ReadFails, FilesType, ImportsType, RestType, TypeOK
<1>6. CASE HearDone
  BY <1>6 DEF HearDone, FilesType, ImportsType, RestType, TypeOK
<1>7. CASE Leave
  BY <1>7 DEF Leave, FilesType, ImportsType, RestType, TypeOK
<1>8. QED
  BY <1>1, <1>2, <1>3, <1>4, <1>5, <1>6, <1>7

\* The Save button: what the page sends, and what it counts as picked.
LEMMA TypeSave == ASSUME TypeOK, NEW r \in Requests, Save(r) PROVE TypeOK'
<1> USE DEF files, page
<1>1. PICK choice \in [shown -> Choices \cup {NoChoice}], whole \in SUBSET shown :
           /\ \E c \in DOMAIN choice : choice[c] # NoChoice
           /\ import' = [import EXCEPT ![r] =
                  [Idle EXCEPT !.pc = "sent",
                     !.body = [c \in DOMAIN choice |-> SpecOf(c, choice[c], c \in whole)]]]
           /\ picked' = picked \cup
                UNION {{<<c, d, table>> : d \in Meant(choice[c])} : c \in DOMAIN choice}
  BY DEF Save
<1>2. shown \subseteq Channels /\ table \in Exports
  BY <1>1 DEF TypeOK, RestType
<1>3. [c \in DOMAIN choice |-> SpecOf(c, choice[c], c \in whole)] \in Selections
  <2>1. \A c \in DOMAIN choice : SpecOf(c, choice[c], c \in whole) \in Specs
    BY <1>2, SpecOfType
  <2>2. [c \in DOMAIN choice |-> SpecOf(c, choice[c], c \in whole)]
            \in [shown -> Specs]
    BY <2>1
  <2>3. QED
    BY <1>2, <2>2 DEF Selections
<1>4. ImportsType'
  <2>1. [Idle EXCEPT !.pc = "sent",
             !.body = [c \in DOMAIN choice |-> SpecOf(c, choice[c], c \in whole)]]
            \in ImportType
    BY <1>3, IdleType DEF ImportType, Idle
  <2>2. QED
    BY <1>1, <2>1 DEF TypeOK, ImportsType, Idle
<1>5. picked' \subseteq Channels \X Days \X Exports
  <2>1. \A c \in DOMAIN choice : Meant(choice[c]) \subseteq Days
    BY DEF Meant
  <2>2. QED
    BY <1>1, <1>2, <2>1 DEF TypeOK, RestType
<1>6. RestType'
  BY <1>5, BoundsAssumption DEF Save, TypeOK, RestType
<1>7. FilesType'
  BY DEF Save, TypeOK, FilesType
<1>8. QED
  BY <1>4, <1>6, <1>7 DEF TypeOK

\* A handler that goes on: the other runs are as they were.
LEMMA GoesType ==
    ASSUME TypeOK, NEW r \in Requests, NEW next \in ImportType, Goes(r, next),
           next.pc = "files" <=> next.days # {},
           next.pc = "decoding" => next.export \in Exports
    PROVE  ImportsType'
  BY DEF Goes, TypeOK, ImportsType

\* A handler reads its request into the shared map.
LEMMA TypeMerge ==
    ASSUME TypeOK, NEW r \in Requests, Merge(r)
    PROVE  TypeOK'
<1> USE DEF files, page
<1>1. import[r] \in ImportType /\ import[r].body \in Selections
  BY DEF TypeOK, ImportsType, ImportType
<1>2. Merged(import[r].body) \in Selections
  BY <1>1, MergedType DEF TypeOK, RestType
<1>3. FilesType' /\ RestType'
  BY <1>2 DEF Merge, TypeOK, FilesType, RestType
<1>4. import[r].days = {}
  BY DEF Merge, TypeOK, ImportsType
<1> DEFINE merged == [import[r] EXCEPT !.pc = "merged"]
<1>5. merged \in ImportType /\ merged.pc = "merged" /\ merged.days = {}
  BY <1>1, <1>4 DEF ImportType
<1>6. ASSUME NEW q \in Requests
      PROVE  /\ import'[q] \in ImportType
             /\ import'[q].pc = "files" <=> import'[q].days # {}
             /\ import'[q].pc = "decoding" => import'[q].export \in Exports
  <2> DEFINE spoiled == [import[q] EXCEPT !.alone = FALSE]
  <2>1. \/ import'[q] = merged
        \/ import'[q] = spoiled
        \/ import'[q] = import[q]
    BY DEF Merge
  <2>2. import[q] \in ImportType
    BY DEF TypeOK, ImportsType
  <2>3. /\ spoiled \in ImportType /\ spoiled.pc = import[q].pc
        /\ spoiled.days = import[q].days /\ spoiled.export = import[q].export
    BY <2>2, SpoiledIs
  <2> HIDE DEF merged, spoiled
  <2> QED
    BY <1>5, <2>1, <2>2, <2>3 DEF TypeOK, ImportsType
<1>7. ImportsType'
  BY <1>6 DEF Merge, ImportsType
<1> QED
  BY <1>3, <1>7 DEF TypeOK

\* The loop over the map starts.
LEMMA LoopsType ==
    ASSUME TypeOK, NEW r \in Requests, Loops(r), import[r].pc # "files"
    PROVE  ImportsType'
<1>1. import[r] \in ImportType /\ import[r].days = {} /\ DOMAIN filtered \subseteq Channels
  BY SelectionsIs DEF TypeOK, ImportsType, RestType
<1>2. [import[r] EXCEPT !.pc = "channels", !.export = NoListing, !.keys = DOMAIN filtered]
        \in ImportType
  BY <1>1 DEF ImportType
<1> QED
  BY <1>1, <1>2, GoesType DEF Loops, ImportType

\* A handler looks whether there are channels in memory, and reads them.
LEMMA TypeBegin ==
    ASSUME TypeOK, NEW r \in Requests,
           HasChannels(r) \/ Begin(r) \/ BeginFails(r) \/ Decodes(r)
    PROVE  TypeOK'
<1> USE DEF files, page
<1>1. import[r] \in ImportType
  BY DEF TypeOK, ImportsType
<1>2. CASE HasChannels(r)
  BY <1>2, LoopsType DEF HasChannels, Checking, TypeOK, FilesType, RestType
<1>3. CASE Begin(r)
  <2>1. /\ [import[r] EXCEPT !.pc = "decoding", !.export = listed] \in ImportType
        /\ import[r].days = {}
    BY <1>1, <1>3 DEF Begin, Checking, ImportType, TypeOK, ImportsType
  <2>2. ImportsType'
    BY <1>1, <1>3, <2>1, GoesType DEF Begin, ImportType
  <2> QED
    BY <1>3, <2>2 DEF Begin, BeginsDecode, Checking, TypeOK, FilesType, RestType
<1>4. CASE BeginFails(r)
  BY <1>4, AnswerType DEF BeginFails, Checking, TypeOK, FilesType, RestType
<1>5. CASE Decodes(r)
  <2>1. import[r].export \in Exports
    BY <1>5 DEF Decodes, TypeOK, ImportsType
  <2>2. known' \subseteq Channels
    BY <1>5, <2>1, EndsDecodeType DEF Decodes
  <2>3. ImportsType'
    BY <1>5, LoopsType DEF Decodes
  <2> QED
    BY <1>5, <2>2, <2>3 DEF Decodes, TypeOK, FilesType, RestType
<1> QED
  BY <1>2, <1>3, <1>4, <1>5

\* The steps of the loops.
LEMMA TypeLoops ==
    ASSUME TypeOK, NEW r \in Requests,
           \/ Done(r)
           \/ \E c \in Channels : Abandon(r, c) \/ Refuse(r, c) \/ Skip(r, c) \/ Enter(r, c)
           \/ \E d \in Days : StoreFile(r, d) \/ PassOver(r, d)
    PROVE  TypeOK'
<1> USE DEF files, page
<1>0. import[r] \in ImportType
  BY DEF TypeOK, ImportsType
<1>1. CASE Done(r)
  <2>1. FilesType' /\ RestType'
    BY <1>1 DEF Done, TypeOK, FilesType, RestType
  <2>2. QED
    BY <1>1, <2>1, AnswerType DEF Done, TypeOK
<1>2. ASSUME NEW c \in Channels, Abandon(r, c) \/ Refuse(r, c) PROVE TypeOK'
  <2>1. FilesType' /\ RestType' /\ Answer(r)
    BY <1>2 DEF Abandon, Refuse, Visiting, TypeOK, FilesType, RestType
  <2>2. QED
    BY <2>1, AnswerType DEF TypeOK
<1>3. ASSUME NEW c \in Channels, Skip(r, c) PROVE TypeOK'
  <2>1. FilesType' /\ RestType'
    BY <1>3 DEF Skip, Visiting, TypeOK, FilesType, RestType
  <2>2. [import[r] EXCEPT !.seen = @ \cup {c}] \in ImportType
    BY <1>0 DEF ImportType
  <2>3. ImportsType'
    BY <1>3, <2>2 DEF Skip, Goes, TypeOK, ImportsType, ImportType
  <2>4. QED
    BY <2>1, <2>3 DEF TypeOK
<1>4. ASSUME NEW c \in Channels, Enter(r, c) PROVE TypeOK'
  <2> DEFINE entered == [import[r] EXCEPT !.pc = "files", !.seen = @ \cup {c},
                                          !.channel = c, !.days = FolderDays(c),
                                          !.spec = filtered[c]]
  <2>1. FilesType' /\ RestType'
    BY <1>4 DEF Enter, Visiting, TypeOK, FilesType, RestType
  <2>2. filtered[c] \in Specs /\ FolderDays(c) \subseteq Days /\ FolderDays(c) # {}
    BY <1>4, SelectionsIs DEF Enter, Visiting, TypeOK, RestType, FolderDays
  <2>3. entered \in ImportType /\ entered.pc = "files" /\ entered.days # {}
    BY <1>0, <2>2 DEF ImportType
  <2>4. import' = [import EXCEPT ![r] = entered]
    BY <1>4 DEF Enter, Goes
  <2>5. ImportsType'
    BY <2>3, <2>4 DEF TypeOK, ImportsType
  <2>6. QED
    BY <2>1, <2>5 DEF TypeOK
<1>5. ASSUME NEW d \in Days, StoreFile(r, d) \/ PassOver(r, d) PROVE TypeOK'
  <2> DEFINE next == AfterFile(import[r], d)
             over == [next EXCEPT !.alone = FALSE]
  <2>1. FilesType' /\ RestType'
    <3>1. Stored(import[r].channel, d) \subseteq Channels \X Days \X Exports
      BY DEF Stored, TypeOK, FilesType
    <3> QED
      BY <1>5, <3>1 DEF StoreFile, PassOver, TypeOK, FilesType, RestType
  <2>2. next \in ImportType /\ (next.pc = "files" <=> next.days # {})
        /\ next.pc \in {"channels", "files"}
    BY <1>0, <1>5, AfterFileIs DEF StoreFile, PassOver
  <2>3. over \in ImportType /\ over.pc = next.pc /\ over.days = next.days
    BY <2>2, SpoiledIs
  <2>4. Goes(r, next) \/ Goes(r, over)
    BY <1>5 DEF StoreFile, FileDone, PassOver
  <2> HIDE DEF next, over
  <2>5. ImportsType'
    BY <2>2, <2>3, <2>4, GoesType
  <2>6. QED
    BY <2>1, <2>5 DEF TypeOK
<1>6. QED
  BY <1>1, <1>2, <1>3, <1>4, <1>5

LEMMA TypeStep == TypeOK /\ [Next]_vars => TypeOK'
<1> SUFFICES ASSUME TypeOK, [Next]_vars PROVE TypeOK'
  OBVIOUS
<1>1. CASE UNCHANGED vars
  BY <1>1 DEF vars, server, files, page, TypeOK, FilesType, ImportsType, RestType
<1>2. ASSUME NEW r \in Requests, Save(r) \/ Handler(r) PROVE TypeOK'
  BY <1>2, TypeSave, TypeMerge, TypeBegin, TypeLoops DEF Handler
<1>3. CASE Dies
  BY <1>3, DiesType
<1>4. QED
  BY <1>1, <1>2, <1>3, TypePage DEF Next, UpsertFails, MapRace, Crash

\* Every variable of the import keeps its type; a channel never gets two files
\* for a day, and a handler that walks a channel's files has one left.
THEOREM TypeCorrect == Spec => []TypeOK
  BY TypeInit, TypeStep, PTL DEF Spec

-----------------------------------------------------------------------------
\* What was picked

\* The days that a specification of channel c admits are among those picked.
Covers(P, c, spec) ==
    spec.kind \in {"all", "dates"} =>
        \A d \in Days : InRange(spec, d) => \E p \in P : p[1] = c /\ p[2] = d

CoversAll(P, f) == \A c \in DOMAIN f : Covers(P, c, f[c])

CoversRun(P, run) ==
    /\ CoversAll(P, run.body)
    /\ run.pc = "files" => /\ run.spec.kind \in {"all", "dates"}
                           /\ Covers(P, run.channel, run.spec)

\* Of each place a specification passes through, from the request to the file
\* loop: what it admits was picked.
PickedInv ==
    /\ CoversAll(picked, filtered)
    /\ \A r \in Requests : CoversRun(picked, import[r])
    /\ OnlyPicked

LEMMA CoversMore ==
    ASSUME NEW P, NEW Q, P \subseteq Q, NEW f, CoversAll(P, f)
    PROVE  CoversAll(Q, f)
  BY DEF CoversAll, Covers

LEMMA CoversRunMore ==
    ASSUME NEW P, NEW Q, P \subseteq Q, NEW run, CoversRun(P, run)
    PROVE  CoversRun(Q, run)
  BY CoversMore DEF CoversRun, Covers

LEMMA CoversMerged ==
    ASSUME NEW P, NEW body, CoversAll(P, body), CoversAll(P, filtered)
    PROVE  CoversAll(P, Merged(body))
  BY DEF CoversAll, Merged

LEMMA CoversIdle == ASSUME NEW P PROVE CoversRun(P, Idle)
  BY DEF CoversRun, CoversAll, Idle, Nothing

\* A run that goes on with the same request, and is in no file loop that it
\* was not in, is covered as before.
LEMMA CoversOn ==
    ASSUME NEW P, NEW run, NEW next, CoversRun(P, run),
           next.body = run.body,
           \/ next.pc # "files"
           \/ next.pc = run.pc /\ next.spec = run.spec /\ next.channel = run.channel
    PROVE  CoversRun(P, next)
  BY DEF CoversRun

LEMMA PickedInit == Init => PickedInv
  BY CoversIdle DEF Init, PickedInv, OnlyPicked, CoversAll, Nothing

\* A step that only changes the runs, or drops some of them.
LEMMA PickedRuns ==
    ASSUME PickedInv, UNCHANGED <<picked, filtered, store>>,
           \A r \in Requests : CoversRun(picked, import'[r])
    PROVE  PickedInv'
  BY DEF PickedInv, OnlyPicked

LEMMA PickedAnswer ==
    ASSUME TypeOK, PickedInv, NEW r \in Requests, Answer(r)
    PROVE  \A q \in Requests : CoversRun(picked, import'[q])
  BY CoversIdle DEF Answer, PickedInv, TypeOK, ImportsType

\* A run that goes on: the others are as they were.
LEMMA PickedGoes ==
    ASSUME TypeOK, PickedInv, NEW r \in Requests, NEW next, Goes(r, next),
           CoversRun(picked, next)
    PROVE  \A q \in Requests : CoversRun(picked, import'[q])
  BY DEF Goes, PickedInv, TypeOK, ImportsType

\* The runs an upload or another request spoils lose only their "alone".
LEMMA PickedSpoiled ==
    ASSUME TypeOK, NEW q \in Requests, CoversRun(picked, import[q])
    PROVE  CoversRun(picked, [import[q] EXCEPT !.alone = FALSE])
<1> DEFINE spoiled == [import[q] EXCEPT !.alone = FALSE]
<1>1. import[q] \in ImportType
  BY DEF TypeOK, ImportsType
<1>2. spoiled.pc = import[q].pc /\ spoiled.body = import[q].body
      /\ spoiled.spec = import[q].spec /\ spoiled.channel = import[q].channel
  BY <1>1, SpoiledIs
<1> HIDE DEF spoiled
<1>3. CoversRun(picked, spoiled)
  BY <1>2, CoversOn
<1> QED
  BY <1>3 DEF spoiled

LEMMA PickedExtracted ==
    ASSUME TypeOK, PickedInv, NEW e, NEW part, NEW torn, Extracted(e, part, torn)
    PROVE  \A q \in Requests : CoversRun(picked, import'[q])
  BY PickedSpoiled DEF Extracted, PickedInv

LEMMA PickedDies == ASSUME PickedInv, Dies PROVE PickedInv'
  BY CoversIdle DEF Dies, PickedInv, OnlyPicked, CoversAll, Nothing

\* The Save button: what is sent admits only what it counts as picked.
LEMMA PickedSave ==
    ASSUME TypeOK, PickedInv, NEW r \in Requests, Save(r)
    PROVE  PickedInv'
<1>1. PICK choice \in [shown -> Choices \cup {NoChoice}], whole \in SUBSET shown :
           /\ import' = [import EXCEPT ![r] =
                  [Idle EXCEPT !.pc = "sent",
                     !.body = [c \in DOMAIN choice |-> SpecOf(c, choice[c], c \in whole)]]]
           /\ picked' = picked \cup
                UNION {{<<c, d, table>> : d \in Meant(choice[c])} : c \in DOMAIN choice}
  BY DEF Save
<1> DEFINE body == [c \in DOMAIN choice |-> SpecOf(c, choice[c], c \in whole)]
           sent == [Idle EXCEPT !.pc = "sent", !.body = body]
<1>2. picked \subseteq picked'
  BY <1>1
<1>3. shown \subseteq Channels
  BY DEF TypeOK, RestType
<1>4. CoversAll(picked', body)
  <2> SUFFICES ASSUME NEW c \in DOMAIN choice, NEW d \in Days,
                      SpecOf(c, choice[c], c \in whole).kind \in {"all", "dates"},
                      InRange(SpecOf(c, choice[c], c \in whole), d)
               PROVE  \E p \in picked' : p[1] = c /\ p[2] = d
    BY DEF CoversAll, Covers
  <2>1. d \in Meant(choice[c])
    BY <1>3, SpecOfMeant
  <2>2. <<c, d, table>> \in picked'
    BY <1>1, <2>1
  <2>3. <<c, d, table>>[1] = c /\ <<c, d, table>>[2] = d
    OBVIOUS
  <2>4. QED
    BY <2>2, <2>3
<1>5. CoversRun(picked', sent)
  <2>1. sent.pc = "sent" /\ sent.body = body
    BY DEF Idle
  <2>2. QED
    BY <1>4, <2>1 DEF CoversRun
<1>6. \A q \in Requests : CoversRun(picked', import'[q])
  <2> TAKE q \in Requests
  <2>1. CASE q = r
    BY <1>1, <1>5, <2>1 DEF TypeOK, ImportsType
  <2>2. CASE q # r
    <3>1. import'[q] = import[q]
      BY <1>1, <2>2 DEF TypeOK, ImportsType
    <3>2. QED
      BY <1>2, <3>1, CoversRunMore DEF PickedInv
  <2>3. QED
    BY <2>1, <2>2
<1>7. CoversAll(picked', filtered')
  BY <1>2, CoversMore DEF PickedInv, Save
<1>8. OnlyPicked'
  BY <1>2 DEF PickedInv, OnlyPicked, Save
<1>9. QED
  BY <1>6, <1>7, <1>8 DEF PickedInv

\* A handler starts: requests that are covered are merged.
LEMMA PickedMerge ==
    ASSUME TypeOK, PickedInv, NEW r \in Requests, Merge(r)
    PROVE  PickedInv'
<1>1. UNCHANGED <<store, picked>> /\ filtered' = Merged(import[r].body)
  BY DEF Merge
<1>2. CoversAll(picked, import[r].body)
  BY DEF PickedInv, CoversRun
<1>3. CoversAll(picked', filtered')
  BY <1>1, <1>2, CoversMerged DEF PickedInv
<1> DEFINE merged == [import[r] EXCEPT !.pc = "merged"]
<1>4. CoversRun(picked, merged)
  <2>1. merged.pc = "merged" /\ merged.body = import[r].body
    BY DEF TypeOK, ImportsType, ImportType
  <2> QED
    BY <1>2, <2>1 DEF CoversRun
<1>5. ASSUME NEW q \in Requests PROVE CoversRun(picked, import'[q])
  <2>1. CoversRun(picked, import[q])
        /\ CoversRun(picked, [import[q] EXCEPT !.alone = FALSE])
    BY PickedSpoiled DEF PickedInv
  <2>2. import'[q] \in {merged, [import[q] EXCEPT !.alone = FALSE], import[q]}
    BY DEF Merge
  <2> QED
    BY <1>4, <2>1, <2>2
<1> QED
  BY <1>1, <1>3, <1>5 DEF PickedInv, OnlyPicked

\* Until its loop starts, a handler takes nothing from the map.
LEMMA PickedBegin ==
    ASSUME TypeOK, PickedInv, NEW r \in Requests,
           HasChannels(r) \/ Begin(r) \/ BeginFails(r) \/ Decodes(r)
    PROVE  PickedInv'
<1>1. UNCHANGED <<picked, filtered, store>>
  BY DEF HasChannels, Begin, BeginFails, Checking, Decodes
<1>2. CASE Answer(r)
  BY <1>1, <1>2, PickedAnswer, PickedRuns
<1>3. ASSUME NEW next, Goes(r, next), next.body = import[r].body, next.pc # "files"
      PROVE  PickedInv'
  <2>1. CoversRun(picked, next)
    BY <1>3, CoversOn DEF PickedInv
  <2> QED
    BY <1>1, <1>3, <2>1, PickedGoes, PickedRuns
<1>4. CASE Loops(r)
  <2> DEFINE next == [import[r] EXCEPT !.pc = "channels", !.export = NoListing,
                                       !.keys = DOMAIN filtered]
  <2>1. next.body = import[r].body /\ next.pc # "files"
    BY DEF TypeOK, ImportsType, ImportType
  <2>2. Goes(r, next)
    BY <1>4 DEF Loops
  <2> QED
    BY <1>3, <2>1, <2>2
<1>5. CASE Begin(r)
  <2> DEFINE next == [import[r] EXCEPT !.pc = "decoding", !.export = listed]
  <2>1. next.body = import[r].body /\ next.pc # "files"
    BY DEF TypeOK, ImportsType, ImportType
  <2>2. Goes(r, next)
    BY <1>5 DEF Begin
  <2> QED
    BY <1>3, <2>1, <2>2
<1> QED
  BY <1>2, <1>4, <1>5 DEF HasChannels, BeginFails, Decodes

\* The loops: the specification goes from the shared map to the file loop, and
\* there decides what is stored.
LEMMA PickedLoops ==
    ASSUME TypeOK, PickedInv, NEW r \in Requests,
           \/ Done(r)
           \/ \E c \in Channels : Abandon(r, c) \/ Refuse(r, c) \/ Skip(r, c) \/ Enter(r, c)
           \/ \E d \in Days : StoreFile(r, d) \/ PassOver(r, d)
    PROVE  PickedInv'
<1>0. import[r] \in ImportType /\ CoversRun(picked, import[r])
  BY DEF TypeOK, ImportsType, PickedInv
<1>1. CASE Done(r)
  BY <1>1, PickedAnswer, PickedRuns DEF Done
<1>2. ASSUME NEW c \in Channels, Abandon(r, c) \/ Refuse(r, c) PROVE PickedInv'
  BY <1>2, PickedAnswer, PickedRuns DEF Abandon, Refuse, Visiting
<1>3. ASSUME NEW c \in Channels, Skip(r, c) PROVE PickedInv'
  <2> DEFINE next == [import[r] EXCEPT !.seen = @ \cup {c}]
  <2>1. next.body = import[r].body /\ next.pc # "files"
    BY <1>0, <1>3 DEF ImportType, Skip, Visiting
  <2>2. CoversRun(picked, next)
    BY <1>0, <2>1, CoversOn
  <2>3. Goes(r, next) /\ UNCHANGED <<picked, filtered, store>>
    BY <1>3 DEF Skip, Visiting
  <2>4. QED
    BY <2>2, <2>3, PickedGoes, PickedRuns
<1>4. ASSUME NEW c \in Channels, Enter(r, c) PROVE PickedInv'
  <2> DEFINE next == [import[r] EXCEPT !.pc = "files", !.seen = @ \cup {c},
                                       !.channel = c, !.days = FolderDays(c),
                                       !.spec = filtered[c]]
  <2>1. next.body = import[r].body /\ next.channel = c /\ next.spec = filtered[c]
    BY <1>0 DEF ImportType
  <2>2. Covers(picked, c, filtered[c]) /\ filtered[c].kind \in {"all", "dates"}
    BY <1>4 DEF Enter, Visiting, PickedInv, CoversAll
  <2>3. CoversRun(picked, next)
    BY <1>0, <2>1, <2>2 DEF CoversRun
  <2>4. Goes(r, next) /\ UNCHANGED <<picked, filtered, store>>
    BY <1>4 DEF Enter, Visiting
  <2>5. QED
    BY <2>3, <2>4, PickedGoes, PickedRuns
<1>5. ASSUME NEW d \in Days, StoreFile(r, d) \/ PassOver(r, d) PROVE PickedInv'
  <2> DEFINE next == AfterFile(import[r], d)
             over == [next EXCEPT !.alone = FALSE]
  <2>1. import[r].pc = "files" /\ d \in import[r].days
    BY <1>5 DEF StoreFile, PassOver
  <2>2. CoversRun(picked, next)
    BY <1>0, <2>1, AfterFileIs, CoversOn
  <2>3. over.body = next.body /\ over.pc = next.pc /\ over.spec = next.spec
        /\ over.channel = next.channel
    <3>1. next \in ImportType
      BY <1>0, <2>1, AfterFileIs
    <3> QED
      BY <3>1, SpoiledIs
  <2>4. CoversRun(picked, over)
    <3> HIDE DEF next, over
    <3> QED
      BY <2>2, <2>3, CoversOn
  <2>5. \A q \in Requests : CoversRun(picked, import'[q])
    BY <1>5, <2>2, <2>4, PickedGoes DEF StoreFile, FileDone, PassOver
  <2>6. UNCHANGED <<picked, filtered>>
    BY <1>5 DEF StoreFile, PassOver
  <2>7. OnlyPicked'
    <3>1. CASE StoreFile(r, d) /\ InRange(import[r].spec, d)
      <4>1. \E p \in picked : p[1] = import[r].channel /\ p[2] = d
        BY <1>0, <2>1, <3>1 DEF CoversRun, Covers
      <4>2. store' = store \cup Stored(import[r].channel, d)
        BY <3>1 DEF StoreFile
      <4>3. QED
        BY <2>6, <4>1, <4>2 DEF OnlyPicked, PickedInv, Stored
    <3>2. CASE PassOver(r, d) \/ ~InRange(import[r].spec, d)
      BY <1>5, <2>6, <3>2 DEF StoreFile, PassOver, OnlyPicked, PickedInv
    <3>3. QED
      BY <1>5, <3>1, <3>2
  <2> QED
    BY <2>5, <2>6, <2>7 DEF PickedInv
<1>6. QED
  BY <1>1, <1>2, <1>3, <1>4, <1>5

LEMMA PickedStep == TypeOK /\ PickedInv /\ [Next]_vars => PickedInv'
<1> SUFFICES ASSUME TypeOK, PickedInv, [Next]_vars PROVE PickedInv'
  OBVIOUS
<1>1. CASE UNCHANGED vars
  BY <1>1, PickedRuns DEF vars, server, PickedInv
<1>2. ASSUME NEW e \in Exports, Unzip(e) \/ UnzipFails(e) PROVE PickedInv'
  BY <1>2, PickedExtracted, PickedRuns DEF Unzip, UnzipFails
<1>3. CASE \/ \E e \in Exports : ReadListing(e)
           \/ OpenListing \/ ReadFails \/ HearDone \/ Leave
  BY <1>3, PickedRuns DEF ReadListing, OpenListing, ReadFails, HearDone, Leave, server, PickedInv
<1>4. ASSUME NEW r \in Requests, Save(r) \/ Handler(r) PROVE PickedInv'
  BY <1>4, PickedSave, PickedMerge, PickedBegin, PickedLoops DEF Handler
<1>5. CASE Dies
  BY <1>5, PickedDies
<1>6. QED
  BY <1>1, <1>2, <1>3, <1>4, <1>5 DEF Next, UpsertFails, MapRace, Crash

\* plugin.json:53 "choose the channels that will be imported": no message is
\* stored of a channel and a day that no saved selection covered, however the
\* requests of overlapping handlers are mixed in the shared map.
THEOREM OnlyWhatWasPicked == Spec => []OnlyPicked
<1>1. Init => PickedInv
  BY PickedInit
<1>2. TypeOK /\ PickedInv /\ [Next]_vars => PickedInv'
  BY PickedStep
<1>3. PickedInv => OnlyPicked
  BY DEF PickedInv
<1>4. QED
  BY <1>1, <1>2, <1>3, TypeCorrect, PTL DEF Spec

-----------------------------------------------------------------------------
\* What a run has done

\* File f is one that the run was asked for.
Asked(run, f) == /\ f[1] \in DOMAIN run.body
                 /\ run.body[f[1]].kind \in {"all", "dates"}
                 /\ InRange(run.body[f[1]], f[2])

\* A run that nobody came between finds its own specifications in the shared
\* map F, and has stored what can be decoded on the disk D of the channels it
\* has seen, but for the files it has still to reach.
Alone(run) == run.alone /\ run.pc \notin {"idle", "sent"}

Finds(run, F) == \A c \in DOMAIN run.body : c \in DOMAIN F /\ F[c] = run.body[c]

Left(run, D, S) ==
    \A f \in D : f[3] # Torn /\ Asked(run, f) /\ f[1] \in run.seen =>
        \/ f \in S
        \/ run.pc = "files" /\ f[1] = run.channel /\ f[2] \in run.days

Progress(run, F, D, S) ==
    /\ run.pc \notin {"channels", "files"} => run.seen = {}
    /\ Alone(run) =>
          /\ run.pc \in {"channels", "files"} => DOMAIN run.body \subseteq run.keys
          /\ Finds(run, F)
          /\ run.pc = "files" /\ run.channel \in DOMAIN run.body
                 => run.spec = run.body[run.channel]
          /\ Left(run, D, S)

ProgressInv == \A r \in Requests : Progress(import[r], filtered, disk, store)

\* More is stored: no run has more to do.
LEMMA ProgressMore ==
    ASSUME NEW run, NEW F, NEW D, NEW S, NEW T, S \subseteq T, Progress(run, F, D, S)
    PROVE  Progress(run, F, D, T)
  BY DEF Progress, Left

LEMMA ProgressIdle ==
    ASSUME NEW F, NEW D, NEW S PROVE Progress(Idle, F, D, S)
  BY DEF Progress, Alone, Idle

\* A run that was spoiled, or has not started, owes nothing.
LEMMA ProgressSpoiled ==
    ASSUME NEW run \in ImportType, NEW E, NEW C, NEW R, Progress(run, E, C, R),
           NEW F, NEW D, NEW S
    PROVE  Progress([run EXCEPT !.alone = FALSE], F, D, S)
  BY SpoiledIs DEF Progress, Alone

LEMMA ProgressWaits ==
    ASSUME NEW run, NEW E, NEW C, NEW R, Progress(run, E, C, R), ~Alone(run),
           NEW F, NEW D, NEW S
    PROVE  Progress(run, F, D, S)
  BY DEF Progress

LEMMA ProgressInit == Init => ProgressInv
  BY ProgressIdle DEF Init, ProgressInv

\* The steps of one run, while the disk and the shared map stay.
LEMMA ProgressGoes ==
    ASSUME TypeOK, ProgressInv, NEW r \in Requests, NEW next,
           import' = [import EXCEPT ![r] = next],
           UNCHANGED <<filtered, disk>>, store \subseteq store',
           Progress(next, filtered, disk, store')
    PROVE  ProgressInv'
<1>1. ASSUME NEW q \in Requests
      PROVE  Progress(import'[q], filtered, disk, store')
  <2>1. CASE q = r
    BY <2>1 DEF TypeOK, ImportsType
  <2>2. CASE q # r
    BY <2>2, ProgressMore DEF TypeOK, ImportsType, ProgressInv
  <2> QED
    BY <2>1, <2>2
<1> QED
  BY <1>1 DEF ProgressInv

LEMMA ProgressUploads ==
    ASSUME TypeOK, ProgressInv, NEW e \in Exports, Unzip(e) \/ UnzipFails(e)
    PROVE  ProgressInv'
<1>1. import' = [q \in Requests |-> IF Running(q)
                                    THEN [import[q] EXCEPT !.alone = FALSE]
                                    ELSE import[q]]
  BY DEF Unzip, UnzipFails, Extracted
<1>2. ASSUME NEW q \in Requests
      PROVE  Progress(import'[q], filtered', disk', store')
  <2>1. import[q] \in ImportType /\ Progress(import[q], filtered, disk, store)
    BY DEF TypeOK, ImportsType, ProgressInv
  <2>2. CASE Running(q)
    BY <1>1, <2>1, <2>2, ProgressSpoiled
  <2>3. CASE ~Running(q)
    <3>1. ~Alone(import[q]) /\ import'[q] = import[q]
      BY <1>1, <2>3 DEF Running, Alone
    <3> QED
      BY <2>1, <3>1, ProgressWaits
  <2> QED
    BY <2>2, <2>3
<1> QED
  BY <1>2 DEF ProgressInv

LEMMA ProgressSave ==
    ASSUME TypeOK, ProgressInv, NEW r \in Requests, Save(r)
    PROVE  ProgressInv'
<1>1. PICK body : import' = [import EXCEPT ![r] = [Idle EXCEPT !.pc = "sent", !.body = body]]
  BY DEF Save
<1>2. Progress([Idle EXCEPT !.pc = "sent", !.body = body], filtered, disk, store)
  BY DEF Progress, Alone, Idle
<1>3. UNCHANGED <<filtered, files, store>>
  BY DEF Save
<1> QED
  BY <1>1, <1>2, <1>3, ProgressGoes DEF files

\* A request puts its specifications into the map: a run with other choices is
\* spoiled, one with the same choices finds them there.
LEMMA ProgressMerge ==
    ASSUME TypeOK, ProgressInv, NEW r \in Requests, Merge(r)
    PROVE  ProgressInv'
<1> DEFINE body == import[r].body
           merged == [import[r] EXCEPT !.pc = "merged"]
<1>1. UNCHANGED <<disk, store>> /\ filtered' = Merged(body) /\ import[r].pc = "sent"
  BY DEF Merge, files
<1>2. ASSUME NEW run, run.body = body PROVE Finds(run, filtered')
  BY <1>1, <1>2 DEF Merged, Finds
<1>3. Progress(merged, filtered', disk, store)
  <2>1. merged.pc = "merged" /\ merged.body = body /\ merged.seen = import[r].seen
    BY DEF TypeOK, ImportsType, ImportType
  <2>2. merged.seen = {}
    BY <1>1, <2>1 DEF ProgressInv, Progress
  <2> HIDE DEF merged, body
  <2> QED
    BY <1>2, <2>1, <2>2 DEF Progress, Left
<1>4. ASSUME NEW q \in Requests PROVE Progress(import'[q], filtered', disk, store)
  <2>1. import[q] \in ImportType /\ Progress(import[q], filtered, disk, store)
    BY DEF TypeOK, ImportsType, ProgressInv
  <2>2. CASE q = r
    BY <1>3, <2>2 DEF Merge
  <2>3. CASE q # r /\ Running(q) /\ import[q].body # body
    BY <2>1, <2>3, ProgressSpoiled DEF Merge
  <2>4. CASE q # r /\ ~Running(q)
    <3>1. import'[q] = import[q] /\ ~Alone(import[q])
      BY <2>4 DEF Merge, Running, Alone
    <3> QED
      BY <2>1, <3>1, ProgressWaits
  <2>5. CASE q # r /\ import[q].body = body
    <3>1. import'[q] = import[q] /\ Finds(import[q], filtered')
      BY <1>2, <2>5 DEF Merge
    <3> QED
      BY <2>1, <3>1 DEF Progress
  <2> QED
    BY <2>2, <2>3, <2>4, <2>5
<1> QED
  BY <1>1, <1>4 DEF ProgressInv

\* A run is about to start its loop, over what the map holds.
LEMMA ProgressBegin ==
    ASSUME TypeOK, ProgressInv, NEW r \in Requests,
           HasChannels(r) \/ Begin(r) \/ BeginFails(r) \/ Decodes(r)
    PROVE  ProgressInv'
<1>1. UNCHANGED <<filtered, disk, store>> /\ import[r].pc \in {"merged", "decoding"}
  BY DEF HasChannels, Begin, BeginFails, Checking, Decodes, files
<1>2. import[r] \in ImportType /\ Progress(import[r], filtered, disk, store)
  BY DEF TypeOK, ImportsType, ProgressInv
<1>3. CASE Answer(r)
  BY <1>1, <1>3, ProgressIdle, ProgressGoes DEF Answer
<1>4. CASE Loops(r)
  <2> DEFINE next == [import[r] EXCEPT !.pc = "channels", !.export = NoListing,
                                       !.keys = DOMAIN filtered]
  <2>1. next.pc = "channels" /\ next.keys = DOMAIN filtered /\ next.body = import[r].body
        /\ next.alone = import[r].alone /\ next.seen = import[r].seen
    BY <1>2 DEF ImportType
  <2>2. import' = [import EXCEPT ![r] = next]
    BY <1>4 DEF Loops, Goes
  <2>3. Progress(next, filtered, disk, store)
    <3> HIDE DEF next
    <3> QED
      BY <1>1, <1>2, <2>1 DEF Progress, Alone, Finds, Left
  <2> QED
    BY <1>1, <2>2, <2>3, ProgressGoes
<1>5. CASE Begin(r)
  <2> DEFINE next == [import[r] EXCEPT !.pc = "decoding", !.export = listed]
  <2>1. next.pc = "decoding" /\ next.body = import[r].body
        /\ next.alone = import[r].alone /\ next.seen = import[r].seen
    BY <1>2 DEF ImportType
  <2>2. import' = [import EXCEPT ![r] = next]
    BY <1>5 DEF Begin, Goes
  <2>3. Progress(next, filtered, disk, store)
    <3> HIDE DEF next
    <3> QED
      BY <1>1, <1>2, <2>1 DEF Progress, Alone, Finds, Left
  <2> QED
    BY <1>1, <2>2, <2>3, ProgressGoes
<1> QED
  BY <1>3, <1>4, <1>5 DEF HasChannels, BeginFails, Decodes

\* The loops.  A channel that is skipped owes nothing; one that is entered owes
\* the files of its folder that are left; a file that is asked for is stored,
\* or the run that passes it over owes nothing any more.
LEMMA ProgressLoops ==
    ASSUME TypeOK, ProgressInv, NEW r \in Requests,
           \/ Done(r)
           \/ \E c \in Channels : Abandon(r, c) \/ Refuse(r, c) \/ Skip(r, c) \/ Enter(r, c)
           \/ \E d \in Days : StoreFile(r, d) \/ PassOver(r, d)
    PROVE  ProgressInv'
<1>0. /\ import[r] \in ImportType
      /\ Progress(import[r], filtered, disk, store)
  BY DEF TypeOK, ImportsType, ProgressInv
<1>1. CASE Done(r) \/ \E c \in Channels : Abandon(r, c) \/ Refuse(r, c)
  <2>1. Answer(r) /\ UNCHANGED <<filtered, files, store>>
    BY <1>1 DEF Done, Abandon, Refuse, Visiting
  <2> QED
    BY <2>1, ProgressIdle, ProgressGoes DEF Answer, files
<1>2. ASSUME NEW c \in Channels, Skip(r, c) PROVE ProgressInv'
  <2> DEFINE next == [import[r] EXCEPT !.seen = @ \cup {c}]
  <2>1. /\ next.body = import[r].body /\ next.pc = "channels"
        /\ next.seen = import[r].seen \cup {c}
        /\ next.keys = import[r].keys /\ next.alone = import[r].alone
        /\ import[r].pc = "channels"
    BY <1>0, <1>2 DEF ImportType, Skip, Visiting
  <2>2. filtered[c].kind = "none" \/ FolderDays(c) = {}
    BY <1>2 DEF Skip
  <2>3. \A f \in disk : f[2] \in Days
    BY DEF TypeOK, FilesType
  <2>4. ASSUME Alone(next) PROVE Left(next, disk, store)
    <3> SUFFICES ASSUME NEW f \in disk, f[3] # Torn, Asked(next, f), f[1] \in next.seen
                 PROVE  f \in store
      BY DEF Left
    <3>1. Asked(import[r], f) /\ Alone(import[r])
      BY <2>1, <2>4 DEF Asked, Alone
    <3>2. CASE f[1] \in import[r].seen
      BY <1>0, <2>1, <3>1, <3>2 DEF Progress, Left
    <3>3. CASE f[1] = c
      <4>1. filtered[c] = import[r].body[c] /\ filtered[c].kind # "none"
        BY <1>0, <3>1, <3>3 DEF Progress, Finds, Asked
      <4>2. f[2] \in FolderDays(c)
        BY <2>3, <3>3 DEF FolderDays
      <4> QED
        BY <2>2, <4>1, <4>2
    <3> QED
      BY <2>1, <3>2, <3>3
  <2>5. Alone(next) => Alone(import[r])
    BY <2>1 DEF Alone
  <2>6. Progress(next, filtered, disk, store)
    <3> HIDE DEF next
    <3> QED
      BY <1>0, <2>1, <2>4, <2>5 DEF Progress, Finds
  <2>7. Goes(r, next) /\ UNCHANGED <<filtered, files, store>>
    BY <1>2 DEF Skip, Visiting
  <2> QED
    BY <2>6, <2>7, ProgressGoes DEF Goes, files
<1>3. ASSUME NEW c \in Channels, Enter(r, c) PROVE ProgressInv'
  <2> DEFINE next == [import[r] EXCEPT !.pc = "files", !.seen = @ \cup {c},
                                       !.channel = c, !.days = FolderDays(c),
                                       !.spec = filtered[c]]
  <2>1. /\ next.body = import[r].body /\ next.pc = "files"
        /\ next.seen = import[r].seen \cup {c}
        /\ next.keys = import[r].keys /\ next.alone = import[r].alone
        /\ next.channel = c /\ next.days = FolderDays(c) /\ next.spec = filtered[c]
        /\ import[r].pc = "channels"
    BY <1>0, <1>3 DEF ImportType, Enter, Visiting
  <2>2. \A f \in disk : f[1] = c => f[2] \in FolderDays(c)
    BY DEF TypeOK, FilesType, FolderDays
  <2>3. Alone(next) => Alone(import[r])
    BY <2>1 DEF Alone
  <2>4. Progress(next, filtered, disk, store)
    <3> HIDE DEF next
    <3>1. Alone(next) => Finds(next, filtered)
      BY <1>0, <2>1, <2>3 DEF Progress, Finds
    <3>2. Alone(next) => Left(next, disk, store)
      BY <1>0, <2>1, <2>2, <2>3 DEF Progress, Left, Asked
    <3> QED
      BY <1>0, <2>1, <2>3, <3>1, <3>2 DEF Progress, Finds
  <2>5. Goes(r, next) /\ UNCHANGED <<filtered, files, store>>
    BY <1>3 DEF Enter, Visiting
  <2> QED
    BY <2>4, <2>5, ProgressGoes DEF Goes, files
<1>4. ASSUME NEW d \in Days, StoreFile(r, d) \/ PassOver(r, d) PROVE ProgressInv'
  <2> DEFINE next == AfterFile(import[r], d)
  <2>1. /\ import[r].pc = "files" /\ d \in import[r].days
        /\ UNCHANGED <<filtered, disk>> /\ store \subseteq store'
    BY <1>4 DEF StoreFile, PassOver, files
  <2>2. /\ next \in ImportType
        /\ next.days = import[r].days \ {d}
        /\ next.pc = (IF import[r].days = {d} THEN "channels" ELSE "files")
        /\ next.body = import[r].body /\ next.keys = import[r].keys
        /\ next.seen = import[r].seen /\ next.alone = import[r].alone
        /\ next.pc = "files" => next.channel = import[r].channel /\ next.spec = import[r].spec
    BY <1>0, <2>1, AfterFileIs
  <2>3. Alone(next) => Alone(import[r])
    BY <2>1, <2>2 DEF Alone
  <2> HIDE DEF next
  <2>4. ASSUME Alone(next), StoreFile(r, d) PROVE Left(next, disk, store')
    <3> SUFFICES ASSUME NEW f \in disk, f[3] # Torn, Asked(next, f), f[1] \in next.seen
                 PROVE  \/ f \in store'
                        \/ next.pc = "files" /\ f[1] = next.channel /\ f[2] \in next.days
      BY DEF Left
    <3>1. \/ f \in store
          \/ f[1] = import[r].channel /\ f[2] \in import[r].days
      BY <1>0, <2>2, <2>3, <2>4 DEF Progress, Left, Asked
    <3>2. CASE f[1] = import[r].channel /\ f[2] = d
      <4>1. InRange(import[r].spec, d)
        BY <1>0, <2>1, <2>2, <2>3, <2>4, <3>2 DEF Progress, Asked
      <4> QED
        BY <2>4, <3>2, <4>1 DEF StoreFile, Stored
    <3>3. CASE f[1] = import[r].channel /\ f[2] \in import[r].days /\ f[2] # d
      BY <2>2, <3>3
    <3> QED
      BY <2>1, <3>1, <3>2, <3>3
  <2>5. StoreFile(r, d) => Progress(next, filtered, disk, store')
    BY <1>0, <2>1, <2>2, <2>3, <2>4 DEF Progress, Finds
  <2>6. Progress([next EXCEPT !.alone = FALSE], filtered, disk, store')
    <3> DEFINE over == [next EXCEPT !.alone = FALSE]
    <3>1. over.alone = FALSE /\ over.pc \in {"channels", "files"}
      BY <2>2, SpoiledIs
    <3> HIDE DEF over
    <3>2. Progress(over, filtered, disk, store')
      BY <3>1 DEF Progress, Alone
    <3> QED
      BY <3>2 DEF over
  <2>7. \/ StoreFile(r, d) /\ import' = [import EXCEPT ![r] = next]
        \/ import' = [import EXCEPT ![r] = [next EXCEPT !.alone = FALSE]]
    BY <1>4 DEF StoreFile, PassOver, FileDone, Goes, next
  <2> QED
    BY <2>1, <2>5, <2>6, <2>7, ProgressGoes
<1> QED
  BY <1>1, <1>2, <1>3, <1>4

LEMMA ProgressDies == ASSUME TypeOK, ProgressInv, Dies PROVE ProgressInv'
  BY ProgressIdle DEF Dies, ProgressInv

LEMMA ProgressStep == TypeOK /\ ProgressInv /\ [Next]_vars => ProgressInv'
<1> SUFFICES ASSUME TypeOK, ProgressInv, [Next]_vars PROVE ProgressInv'
  OBVIOUS
<1>1. CASE \/ UNCHANGED vars \/ HearDone \/ Leave \/ OpenListing \/ ReadFails
           \/ \E e \in Exports : ReadListing(e)
  <2>1. UNCHANGED <<disk, filtered, import, store>>
    BY <1>1 DEF vars, server, files, HearDone, Leave, OpenListing, ReadFails, ReadListing
  <2> QED
    BY <2>1 DEF ProgressInv
<1>2. ASSUME NEW e \in Exports, Unzip(e) \/ UnzipFails(e) PROVE ProgressInv'
  BY <1>2, ProgressUploads
<1>3. ASSUME NEW r \in Requests, Save(r) \/ Handler(r) PROVE ProgressInv'
  BY <1>3, ProgressSave, ProgressMerge, ProgressBegin, ProgressLoops DEF Handler
<1>4. CASE Dies
  BY <1>4, ProgressDies
<1> QED
  BY <1>1, <1>2, <1>3, <1>4 DEF Next, UpsertFails, MapRace, Crash

\* Only the end of a loop sends on_done, and it ends that run alone.
LEMMA DoneSends ==
    ASSUME TypeOK, Next, doneSent' > doneSent
    PROVE  \E r \in Requests : Done(r)
<1>1. doneSent \in Nat /\ doneSent' # doneSent
  BY DEF TypeOK, RestType
<1>2. ~HearDone
  BY <1>1 DEF HearDone
<1>3. ~Dies
  BY <1>1 DEF Dies
<1>4. ASSUME NEW e \in Exports PROVE ~Unzip(e) /\ ~UnzipFails(e) /\ ~ReadListing(e)
  BY <1>1 DEF Unzip, UnzipFails, ReadListing
<1>5. ~OpenListing /\ ~ReadFails /\ ~Leave
  BY <1>1 DEF OpenListing, ReadFails, Leave, page
<1>6. ASSUME NEW r \in Requests, Save(r) \/ Handler(r) PROVE Done(r)
  <2>1. ~Save(r) /\ ~Merge(r) /\ ~HasChannels(r) /\ ~Begin(r) /\ ~BeginFails(r) /\ ~Decodes(r)
    BY <1>1 DEF Save, Merge, HasChannels, Begin, BeginFails, Checking, Decodes
  <2>2. \A c \in Channels : ~Visiting(r, c)
    BY <1>1 DEF Visiting
  <2>3. \A d \in Days : ~StoreFile(r, d) /\ ~PassOver(r, d)
    BY <1>1 DEF StoreFile, PassOver
  <2> QED
    BY <1>6, <2>1, <2>2, <2>3 DEF Handler, Abandon, Refuse, Skip, Enter
<1> QED
  BY <1>2, <1>3, <1>4, <1>5, <1>6 DEF Next, UpsertFails, MapRace, Crash

LEMMA DoneOwes ==
    ASSUME TypeOK, ProgressInv, Next, NEW r \in Requests,
           doneSent' > doneSent, import'[r] # import[r], import[r].alone
    PROVE  Owed(r) \subseteq store
<1>1. PICK q \in Requests : Done(q)
  BY DoneSends
<1>2. Done(r)
  BY <1>1 DEF Done, Answer, TypeOK, ImportsType
<1>3. /\ import[r].pc = "channels" /\ Alone(import[r])
      /\ Progress(import[r], filtered, disk, store)
  BY <1>2 DEF Done, Alone, ProgressInv
<1>4. DOMAIN import[r].body \subseteq import[r].seen /\ Left(import[r], disk, store)
  BY <1>2, <1>3 DEF Done, Progress
<1> QED
  BY <1>3, <1>4 DEF Owed, Left, Asked

\* When on_done is sent, the collection holds every file on the disk that can be
\* decoded, of the channels and times the request gave, if no upload and no
\* request with other choices came in while it ran and no file could not be
\* opened or read: handleUploadStoreSlackData tells of no import it cut short,
\* whatever the order of the channels and whatever the requests before it left
\* in the shared map.
THEOREM DoneIsStored == Spec => DoneMeansStored
<1> DEFINE Told == \A r \in Requests :
                     doneSent' > doneSent /\ import'[r] # import[r] /\ import[r].alone
                        => Owed(r) \subseteq store
<1>1. Init => ProgressInv
  BY ProgressInit
<1>2. TypeOK /\ ProgressInv /\ [Next]_vars => ProgressInv'
  BY ProgressStep
<1>3. TypeOK /\ ProgressInv /\ [Next]_vars => [Told]_vars
  BY DoneOwes
<1>4. Spec => [][Told]_vars
  BY <1>1, <1>2, <1>3, TypeCorrect, PTL DEF Spec
<1> QED
  BY <1>4 DEF DoneMeansStored

-----------------------------------------------------------------------------
\* The only upload

\* The channels its listing names, if there is one.
Listing == IF listed \in Exports THEN ListedIn[listed] ELSE {}

\* Until a second upload there is one listing: no other is decoded, the page
\* and the memory hold some of its channels, requests name no others; and once
\* nobody decodes it, and no two handlers did at the same time, the memory
\* holds all of them or none.
OneListing ==
    /\ uploads = 0 => listed = NoListing
    /\ Decoded \subseteq {listed}
    /\ known \subseteq Listing /\ shown \subseteq Listing
    /\ Decoded = {} /\ ~muddled => known \in {{}, Listing}
    /\ \A r \in Requests : DOMAIN import[r].body \subseteq Listing

\* A loop over the channels started because there were some.
Started == \A r \in Requests :
              import[r].pc \in {"channels", "files"} => known # {} \/ Decoded # {}

OneUploadInv == Started /\ (uploads <= 1 => OneListing)

LEMMA DecodedIs ==
    \A e : e \in Decoded <=>
        \/ e \in Exports /\ reading[e] > 0
        \/ \E q \in Requests : import[q].pc = "decoding" /\ import[q].export = e
  BY DEF Decoded

LEMMA DecodedIsNext ==
    \A e : e \in Decoded' <=>
        \/ e \in Exports /\ reading'[e] > 0
        \/ \E q \in Requests : import'[q].pc = "decoding" /\ import'[q].export = e
  BY DEF Decoded

\* The decodes under way stay the same.
LEMMA DecodedStays ==
    ASSUME UNCHANGED reading,
           \A q \in Requests : /\ import'[q].pc = "decoding" <=> import[q].pc = "decoding"
                               /\ import'[q].export = import[q].export
                                    \/ import[q].pc # "decoding"
    PROVE  Decoded' = Decoded
<1>1. \A e : e \in Decoded' <=> e \in Decoded
  BY DecodedIs, DecodedIsNext
<1>2. \A e \in Decoded' : e \in Decoded
  BY <1>1
<1>3. \A e \in Decoded : e \in Decoded'
  BY <1>1
<1> QED
  BY <1>2, <1>3 DEF Decoded

\* One more begins.
LEMMA DecodedGrows ==
    ASSUME TypeOK, listed \in Exports,
           \/ UNCHANGED import /\ reading' = [reading EXCEPT ![listed] = @ + 1]
           \/ \E r \in Requests :
                /\ UNCHANGED reading /\ import[r].pc # "decoding"
                /\ Goes(r, [import[r] EXCEPT !.pc = "decoding", !.export = listed])
    PROVE  listed \in Decoded' /\ Decoded' \subseteq Decoded \cup {listed}
<1>1. CASE UNCHANGED import /\ reading' = [reading EXCEPT ![listed] = @ + 1]
  <2>1. reading'[listed] > 0 /\ \A e \in Exports : e # listed => reading'[e] = reading[e]
    BY <1>1 DEF TypeOK, RestType
  <2>2. \A e : e \in Decoded' => e \in Decoded \/ e = listed
    BY <1>1, <2>1, DecodedIs, DecodedIsNext
  <2> QED
    BY <2>1, <2>2, DecodedIsNext
<1>2. ASSUME NEW r \in Requests, UNCHANGED reading,
             Goes(r, [import[r] EXCEPT !.pc = "decoding", !.export = listed])
      PROVE  listed \in Decoded' /\ Decoded' \subseteq Decoded \cup {listed}
  <2>0. import[r] \in ImportType
    BY DEF TypeOK, ImportsType
  <2>1. import'[r].pc = "decoding" /\ import'[r].export = listed
    <3> DEFINE next == [import[r] EXCEPT !.pc = "decoding", !.export = listed]
    <3>1. next.pc = "decoding" /\ next.export = listed
      BY <2>0 DEF ImportType
    <3>2. import'[r] = next
      BY <1>2 DEF Goes, TypeOK, ImportsType
    <3> QED
      BY <3>1, <3>2
  <2>2. \A q \in Requests : q # r => import'[q] = import[q]
    BY <1>2 DEF Goes, TypeOK, ImportsType
  <2>3. \A e : e \in Decoded' => e \in Decoded \/ e = listed
    BY <1>2, <2>1, <2>2, DecodedIs, DecodedIsNext
  <2> QED
    BY <2>1, <2>3, DecodedIsNext
<1> QED
  BY <1>1, <1>2

\* What a decode leaves is some of the one listing, and all of it when it was
\* the only one.
LEMMA OneDecoded ==
    ASSUME TypeOK, OneListing, NEW e \in Decoded, EndsDecode(e)
    PROVE  known' \subseteq Listing /\ known' # {} /\ (~muddled => known' = Listing)
<1>1. e = listed /\ e \in Exports /\ Listing = ListedIn[e] /\ Listing # {}
  BY MixableType, ImportAssumption DEF OneListing, Listing
<1>2. UNION {ListedIn[x] : x \in Decoded} \subseteq Listing
  BY <1>1 DEF OneListing
<1>3. Mixable \subseteq Listing
  BY <1>2 DEF Mixable, OneListing
<1> QED
  BY <1>1, <1>3 DEF EndsDecode

LEMMA OneInit == Init => OneUploadInv
<1> SUFFICES ASSUME Init PROVE OneUploadInv
  OBVIOUS
<1>1. \A q \in Requests : import[q].pc = "idle" /\ DOMAIN import[q].body = {}
  BY DEF Init, Idle, Nothing
<1>2. \A e : e \notin Decoded
  BY <1>1, DecodedIs DEF Init
<1>3. Decoded = {}
  BY <1>2
<1> QED
  BY <1>1, <1>3 DEF Init, OneUploadInv, OneListing, Started

\* The first upload finds no listing, nothing read, and no request that names
\* a channel.
LEMMA OneUpload ==
    ASSUME TypeOK, OneUploadInv, NEW e \in Exports, Unzip(e) \/ UnzipFails(e)
    PROVE  OneUploadInv'
<1>1. /\ uploads \in Nat /\ uploads' = uploads + 1
      /\ UNCHANGED <<known, shown, muddled, reading>>
  BY BoundsAssumption DEF TypeOK, RestType, Unzip, UnzipFails, page
<1>2. ASSUME NEW q \in Requests
      PROVE  /\ import'[q].pc = import[q].pc /\ import'[q].body = import[q].body
             /\ import'[q].export = import[q].export
  <2>1. import[q] \in ImportType
    BY DEF TypeOK, ImportsType
  <2>2. import'[q] = IF Running(q) THEN [import[q] EXCEPT !.alone = FALSE] ELSE import[q]
    BY DEF Unzip, UnzipFails, Extracted
  <2> QED
    BY <2>1, <2>2, SpoiledIs
<1>3. Decoded' = Decoded
  BY <1>1, <1>2, DecodedStays
<1>4. Started'
  BY <1>1, <1>2, <1>3 DEF OneUploadInv, Started
<1>5. ASSUME uploads' <= 1 PROVE OneListing'
  <2>1. uploads = 0 /\ OneListing /\ listed = NoListing
    BY <1>1, <1>5 DEF OneUploadInv, OneListing
  <2>2. Listing = {} /\ Decoded = {}
    BY <2>1, MixableType, ImportAssumption DEF OneListing, Listing
  <2>3. known = {} /\ shown = {} /\ \A q \in Requests : DOMAIN import[q].body = {}
    BY <2>1, <2>2 DEF OneListing
  <2> QED
    BY <1>1, <1>2, <1>3, <2>1, <2>2, <2>3 DEF OneListing
<1> QED
  BY <1>4, <1>5 DEF OneUploadInv

\* A decode begins: what is in memory is not looked at until it ends.
LEMMA OneOpens ==
    ASSUME TypeOK, OneUploadInv,
           \/ OpenListing
           \/ \E r \in Requests : Begin(r)
    PROVE  OneUploadInv'
<1>1. UNCHANGED <<known, shown, listed, uploads>> /\ listed \in Exports
  BY DEF OpenListing, Begin, Checking, files, page
<1>2. listed \in Decoded' /\ Decoded' \subseteq Decoded \cup {listed}
  BY DecodedGrows DEF OpenListing, Begin, Checking
<1>3. ASSUME NEW q \in Requests PROVE import'[q].body = import[q].body
  <2>1. CASE OpenListing
    BY <2>1 DEF OpenListing
  <2>2. ASSUME NEW r \in Requests, Begin(r) PROVE import'[q].body = import[q].body
    <3>1. [import[r] EXCEPT !.pc = "decoding", !.export = listed].body = import[r].body
      BY DEF TypeOK, ImportsType, ImportType
    <3> QED
      BY <2>2, <3>1 DEF Begin, Goes, TypeOK, ImportsType
  <2> QED
    BY <2>1, <2>2
<1>4. Started'
  BY <1>2 DEF Started
<1>5. ASSUME uploads <= 1 PROVE OneListing'
  <2>1. OneListing /\ Listing' = Listing /\ Decoded' # {}
    BY <1>1, <1>2, <1>5 DEF OneUploadInv, Listing
  <2> QED
    BY <1>1, <1>2, <1>3, <2>1 DEF OneListing
<1> QED
  BY <1>1, <1>4, <1>5 DEF OneUploadInv

\* A decode ends.
LEMMA OneEnds ==
    ASSUME TypeOK, OneUploadInv, NEW e \in Exports, EndsDecode(e), e \in Decoded,
           UNCHANGED <<listed, muddled, uploads>>, shown' \in {shown, known'},
           Decoded' \subseteq Decoded,
           \A q \in Requests : import'[q].body = import[q].body
    PROVE  OneUploadInv'
<1>1. known' # {}
  BY EndsDecodeType
<1>2. Started'
  BY <1>1 DEF Started
<1>3. ASSUME uploads <= 1 PROVE OneListing'
  <2>1. OneListing /\ Listing' = Listing
    BY <1>3 DEF OneUploadInv, Listing
  <2>2. known' \subseteq Listing /\ (~muddled => known' = Listing)
    BY <2>1, OneDecoded
  <2> QED
    BY <2>1, <2>2 DEF OneListing
<1> QED
  BY <1>2, <1>3 DEF OneUploadInv

LEMMA OneReads ==
    ASSUME TypeOK, OneUploadInv, NEW e \in Exports, ReadListing(e)
    PROVE  OneUploadInv'
<1>1. /\ e \in Decoded /\ EndsDecode(e) /\ UNCHANGED <<listed, muddled, uploads, import>>
      /\ shown' \in {shown, known'}
  BY DecodedIs DEF ReadListing, files
<1>2. \A x \in Exports : reading'[x] > 0 => reading[x] > 0
  BY DEF ReadListing, TypeOK, RestType
<1>3. \A x : x \in Decoded' => x \in Decoded
  BY <1>1, <1>2, DecodedIs, DecodedIsNext
<1> QED
  BY <1>1, <1>3, OneEnds

LEMMA OneDecodes ==
    ASSUME TypeOK, OneUploadInv, NEW r \in Requests, Decodes(r)
    PROVE  OneUploadInv'
<1>1. import[r].pc = "decoding" /\ EndsDecode(import[r].export)
      /\ UNCHANGED <<listed, muddled, uploads, shown, reading>> /\ Loops(r)
  BY DEF Decodes, files, page
<1>2. import[r].export \in Decoded /\ import[r].export \in Exports
  BY <1>1, DecodedIs DEF TypeOK, ImportsType
<1>3. import'[r].pc = "channels" /\ \A q \in Requests : import'[q].body = import[q].body
  BY <1>1 DEF Loops, Goes, TypeOK, ImportsType, ImportType
<1>4. \A q \in Requests : q # r => import'[q] = import[q]
  BY <1>1 DEF Loops, Goes, TypeOK, ImportsType
<1>5. \A x : x \in Decoded' => x \in Decoded
  BY <1>1, <1>3, <1>4, DecodedIs, DecodedIsNext
<1> QED
  BY <1>1, <1>2, <1>3, <1>5, OneEnds

\* The steps of one run that decodes nothing.
LEMMA OneGoes ==
    ASSUME TypeOK, OneUploadInv, NEW r \in Requests, NEW next,
           import' = [import EXCEPT ![r] = next],
           import[r].pc # "decoding", next.pc # "decoding",
           UNCHANGED <<known, reading, muddled, listed, shown, uploads>>,
           next.body = import[r].body \/ DOMAIN next.body \subseteq shown,
           next.pc \in {"channels", "files"} => known # {} \/ Decoded # {}
    PROVE  OneUploadInv'
<1>1. \A q \in Requests : import'[q] = IF q = r THEN next ELSE import[q]
  BY DEF TypeOK, ImportsType
<1>2. Decoded' = Decoded
  BY <1>1, DecodedStays
<1>3. Started'
  BY <1>1, <1>2 DEF OneUploadInv, Started
<1>4. ASSUME uploads <= 1 PROVE OneListing'
  <2>1. OneListing /\ Listing' = Listing
    BY <1>4 DEF OneUploadInv, Listing
  <2>2. DOMAIN next.body \subseteq Listing
    BY <2>1 DEF OneListing
  <2> QED
    BY <1>1, <1>2, <2>1, <2>2 DEF OneListing
<1> QED
  BY <1>3, <1>4 DEF OneUploadInv

\* A handler ends.
LEMMA OneAnswer ==
    ASSUME TypeOK, OneUploadInv, NEW r \in Requests, Answer(r),
           import[r].pc # "decoding",
           UNCHANGED <<known, reading, muddled, listed, shown, uploads>>
    PROVE  OneUploadInv'
<1>1. Idle.pc = "idle" /\ DOMAIN Idle.body = {}
  BY DEF Idle, Nothing
<1> QED
  BY <1>1, OneGoes DEF Answer

LEMMA OneSave ==
    ASSUME TypeOK, OneUploadInv, NEW r \in Requests, Save(r)
    PROVE  OneUploadInv'
<1>1. PICK body : import' = [import EXCEPT ![r] = [Idle EXCEPT !.pc = "sent", !.body = body]]
                  /\ DOMAIN body = shown
  <2>1. PICK choice \in [shown -> Choices \cup {NoChoice}], whole \in SUBSET shown :
                import' = [import EXCEPT ![r] = [Idle EXCEPT !.pc = "sent",
                  !.body = [c \in DOMAIN choice |-> SpecOf(c, choice[c], c \in whole)]]]
    BY DEF Save
  <2> DEFINE sent == [c \in DOMAIN choice |-> SpecOf(c, choice[c], c \in whole)]
  <2>2. DOMAIN sent = shown
    OBVIOUS
  <2> HIDE DEF sent
  <2>3. import' = [import EXCEPT ![r] = [Idle EXCEPT !.pc = "sent", !.body = sent]]
    BY <2>1 DEF sent
  <2> QED
    BY <2>2, <2>3
<1> DEFINE next == [Idle EXCEPT !.pc = "sent", !.body = body]
<1>2. next.pc = "sent" /\ next.body = body
  BY DEF Idle
<1>3. import[r].pc = "idle"
  BY DEF Save, Idle
<1>4. UNCHANGED <<known, reading, muddled, listed, shown, uploads>>
  BY DEF Save, files, page
<1> HIDE DEF next
<1>5. import' = [import EXCEPT ![r] = next]
  BY <1>1 DEF next
<1> QED
  BY <1>1, <1>2, <1>3, <1>4, <1>5, OneGoes

LEMMA OneMerge ==
    ASSUME TypeOK, OneUploadInv, NEW r \in Requests, Merge(r)
    PROVE  OneUploadInv'
<1>1. UNCHANGED <<known, reading, muddled, listed, shown, uploads>>
  BY DEF Merge, files, page
<1>2. ASSUME NEW q \in Requests
      PROVE  /\ import'[q].body = import[q].body /\ import'[q].export = import[q].export
             /\ import'[q].pc = (IF q = r THEN "merged" ELSE import[q].pc)
  <2>1. import[q] \in ImportType
    BY DEF TypeOK, ImportsType
  <2>2. CASE q = r
    BY <2>1, <2>2 DEF Merge, ImportType
  <2>3. CASE q # r
    BY <2>1, <2>3, SpoiledIs DEF Merge
  <2> QED
    BY <2>2, <2>3
<1>3. import[r].pc = "sent"
  BY DEF Merge
<1>4. Decoded' = Decoded
  BY <1>1, <1>2, <1>3, DecodedStays
<1>5. Started'
  BY <1>1, <1>2, <1>4 DEF OneUploadInv, Started
<1>6. ASSUME uploads <= 1 PROVE OneListing'
  BY <1>1, <1>2, <1>4, <1>6 DEF OneUploadInv, OneListing, Listing
<1> QED
  BY <1>1, <1>5, <1>6 DEF OneUploadInv

LEMMA OneChecks ==
    ASSUME TypeOK, OneUploadInv, NEW r \in Requests, HasChannels(r) \/ BeginFails(r)
    PROVE  OneUploadInv'
<1>1. UNCHANGED <<known, reading, muddled, listed, shown, uploads>>
      /\ import[r].pc # "decoding"
  BY DEF HasChannels, BeginFails, Checking, files, page
<1>2. CASE BeginFails(r)
  BY <1>1, <1>2, OneAnswer DEF BeginFails
<1>3. CASE HasChannels(r)
  <2> DEFINE next == [import[r] EXCEPT !.pc = "channels", !.export = NoListing,
                                       !.keys = DOMAIN filtered]
  <2>1. next.pc = "channels" /\ next.body = import[r].body
    BY DEF TypeOK, ImportsType, ImportType
  <2>2. import' = [import EXCEPT ![r] = next] /\ (known # {} \/ Decoded # {})
    BY <1>3 DEF HasChannels, ReadsListing, Loops, Goes
  <2> HIDE DEF next
  <2> QED
    BY <1>1, <2>1, <2>2, OneGoes
<1> QED
  BY <1>2, <1>3

LEMMA OneLoops ==
    ASSUME TypeOK, OneUploadInv, NEW r \in Requests,
           \/ Done(r)
           \/ \E c \in Channels : Abandon(r, c) \/ Refuse(r, c) \/ Skip(r, c) \/ Enter(r, c)
           \/ \E d \in Days : StoreFile(r, d) \/ PassOver(r, d)
    PROVE  OneUploadInv'
<1>0. import[r] \in ImportType
  BY DEF TypeOK, ImportsType
<1>1. /\ UNCHANGED <<known, reading, muddled, listed, shown, uploads>>
      /\ import[r].pc \in {"channels", "files"}
  BY DEF Done, Abandon, Refuse, Skip, Enter, Visiting, StoreFile, PassOver, files, page
<1>2. CASE Answer(r)
  BY <1>1, <1>2, OneAnswer
<1>3. ASSUME NEW next, import' = [import EXCEPT ![r] = next], next.body = import[r].body,
             next.pc \in {"channels", "files"}
      PROVE  OneUploadInv'
  BY <1>1, <1>3, OneGoes DEF OneUploadInv, Started
<1>4. ASSUME NEW c \in Channels, Skip(r, c) PROVE OneUploadInv'
  <2> DEFINE next == [import[r] EXCEPT !.seen = @ \cup {c}]
  <2>1. import' = [import EXCEPT ![r] = next] /\ next.body = import[r].body
        /\ next.pc = import[r].pc
    BY <1>0, <1>4 DEF Skip, Goes, ImportType
  <2> QED
    BY <1>1, <1>3, <2>1
<1>5. ASSUME NEW c \in Channels, Enter(r, c) PROVE OneUploadInv'
  <2> DEFINE next == [import[r] EXCEPT !.pc = "files", !.seen = @ \cup {c},
                                       !.channel = c, !.days = FolderDays(c),
                                       !.spec = filtered[c]]
  <2>1. import' = [import EXCEPT ![r] = next] /\ next.body = import[r].body
        /\ next.pc = "files"
    BY <1>0, <1>5 DEF Enter, Goes, ImportType
  <2> QED
    BY <1>3, <2>1
<1>6. ASSUME NEW d \in Days, StoreFile(r, d) \/ PassOver(r, d) PROVE OneUploadInv'
  <2> DEFINE next == AfterFile(import[r], d)
             over == [next EXCEPT !.alone = FALSE]
  <2>1. next \in ImportType /\ next.body = import[r].body /\ next.pc \in {"channels", "files"}
    BY <1>0, <1>6, AfterFileIs DEF StoreFile, PassOver
  <2>2. over.body = next.body /\ over.pc = next.pc
    BY <2>1, SpoiledIs
  <2>3. \/ import' = [import EXCEPT ![r] = next]
        \/ import' = [import EXCEPT ![r] = over]
    BY <1>6 DEF StoreFile, PassOver, FileDone, Goes
  <2> HIDE DEF next, over
  <2> QED
    BY <1>3, <2>1, <2>2, <2>3
<1> QED
  BY <1>2, <1>4, <1>5, <1>6 DEF Done, Abandon, Refuse

LEMMA OneDies == ASSUME TypeOK, OneUploadInv, Dies PROVE OneUploadInv'
<1>1. /\ UNCHANGED <<listed, shown, uploads>> /\ known' = {} /\ ~muddled'
      /\ reading' = [e \in Exports |-> 0]
  BY DEF Dies, files, page
<1>2. \A q \in Requests : import'[q].pc = "idle" /\ DOMAIN import'[q].body = {}
  BY DEF Dies, Idle, Nothing
<1>3. \A e : e \notin Decoded'
  BY <1>1, <1>2, DecodedIsNext
<1>4. Started'
  BY <1>2 DEF Started
<1>5. ASSUME uploads <= 1 PROVE OneListing'
  <2>1. OneListing /\ Listing' = Listing
    BY <1>1, <1>5 DEF OneUploadInv, Listing
  <2> QED
    BY <1>1, <1>2, <1>3, <2>1 DEF OneListing
<1> QED
  BY <1>1, <1>4, <1>5 DEF OneUploadInv

LEMMA OneStep == TypeOK /\ OneUploadInv /\ [Next]_vars => OneUploadInv'
<1> SUFFICES ASSUME TypeOK, OneUploadInv, [Next]_vars PROVE OneUploadInv'
  OBVIOUS
<1>1. CASE UNCHANGED vars \/ ReadFails \/ HearDone \/ Leave
  <2>1. UNCHANGED <<listed, uploads, import, known, reading, muddled>>
        /\ shown' \in {shown, {}}
    BY <1>1 DEF vars, server, files, page, ReadFails, HearDone, Leave
  <2>2. Decoded' = Decoded /\ Listing' = Listing
    BY <2>1, DecodedStays DEF Listing
  <2> QED
    BY <2>1, <2>2 DEF OneUploadInv, OneListing, Started
<1>2. ASSUME NEW e \in Exports, Unzip(e) \/ UnzipFails(e) PROVE OneUploadInv'
  BY <1>2, OneUpload
<1>3. ASSUME NEW e \in Exports, ReadListing(e) PROVE OneUploadInv'
  BY <1>3, OneReads
<1>4. CASE OpenListing
  BY <1>4, OneOpens
<1>5. ASSUME NEW r \in Requests, Save(r) \/ Handler(r) PROVE OneUploadInv'
  BY <1>5, OneSave, OneMerge, OneChecks, OneOpens, OneDecodes, OneLoops DEF Handler
<1>6. CASE Dies
  BY <1>6, OneDies
<1> QED
  BY <1>1, <1>2, <1>3, <1>4, <1>5, <1>6 DEF Next, UpsertFails, MapRace, Crash

\* Until a second upload, handleUploadStoreSlackData drops a request without
\* a word over a channel the request itself names only when handlers meet that
\* find nothing in memory: while one decodes the listing into it, or after two
\* did so at the same time.  A restart alone, which empties the memory, does
\* not do it: the handler then reads the listing from the disk.
THEOREM OwnChannelsFound == Spec => DroppedOverOthers
<1> DEFINE Foreign == \A r \in Requests, c \in Channels :
                        Abandon(r, c) /\ uploads <= 1 /\ Decoded = {} /\ ~muddled
                           => c \notin DOMAIN import[r].body
<1>1. Init => OneUploadInv
  BY OneInit
<1>2. TypeOK /\ OneUploadInv /\ [Next]_vars => OneUploadInv'
  BY OneStep
<1>3. OneUploadInv => Foreign
  <2> SUFFICES ASSUME OneUploadInv, NEW r \in Requests, NEW c \in Channels,
                      Abandon(r, c), uploads <= 1, Decoded = {}, ~muddled,
                      c \in DOMAIN import[r].body
               PROVE  FALSE
    OBVIOUS
  <2>1. import[r].pc = "channels" /\ c \notin known
    BY DEF Abandon, Visiting
  <2>2. known # {} /\ OneListing
    BY <2>1 DEF OneUploadInv, Started
  <2> QED
    BY <2>1, <2>2 DEF OneListing
<1>4. OneUploadInv => [Foreign]_vars
  BY <1>3
<1>5. Spec => [][Foreign]_vars
  BY <1>1, <1>2, <1>4, TypeCorrect, PTL DEF Spec
<1> QED
  BY <1>5 DEF DroppedOverOthers
=============================================================================
