-------------------------- MODULE UserFilesProofs --------------------------
(***************************************************************************)
(* Proofs about the files that programs share.  First SharedFile by itself:  *)
(* whoever loads, changes and saves, a part is lost only where an outdated    *)
(* copy is saved, or two write together.  Then ConfigFiles and EnvTokens, whose steps are steps of   *)
(* SharedFile, and what rests on it: a saved port is not asked for again.     *)
(***************************************************************************)
EXTENDS ConfigFiles, EnvTokens, TLAPS

\* What a copy says of a part that its holder has not changed is what was saved
\* last, unless the copy is outdated.
CopiesAgree ==
    \A a \in Actors :
        of[a] # NoFile /\ a \notin outdated /\ of[a] \notin careless =>
            \A p \in PartsOf[of[a]] \ own[a] : copy[a][p] = intended[of[a]][p]

\* The inductive invariant.
FileInv == FileTypeOK /\ CopiesAgree /\ EditsSurvive

LEMMA ContentFacts ==
    ASSUME NEW f \in Files
    PROVE  /\ Blank(f) \in Content(f)
           /\ \A c \in Content(f), P \in SUBSET PartsOf[f] : \A changes \in [P -> Values] :
                  /\ WithParts(c, changes) \in Content(f)
                  /\ \A p \in PartsOf[f] \ P : WithParts(c, changes)[p] = c[p]
                  /\ DOMAIN changes = P
           /\ Torn \notin Content(f)
<1>1. Blank(f) \in Content(f)
    BY FilesAssumption DEF Blank, Content
<1>2. ASSUME NEW c \in Content(f), NEW P \in SUBSET PartsOf[f], NEW changes \in [P -> Values]
      PROVE  /\ WithParts(c, changes) \in Content(f)
             /\ \A p \in PartsOf[f] \ P : WithParts(c, changes)[p] = c[p]
             /\ DOMAIN changes = P
    BY <1>2 DEF Content, WithParts
<1>3. Torn \notin Content(f)
    BY FilesAssumption
<1> QED
    BY <1>1, <1>2, <1>3

LEMMA FileInitially == FileInit => FileInv
<1> SUFFICES ASSUME FileInit PROVE FileInv
    OBVIOUS
<1> USE FilesAssumption DEF FileInit
<1>1. \A f \in Files : file[f] \in Content(f)
    OBVIOUS
<1>2. FileTypeOK
    BY <1>1, ContentFacts DEF FileTypeOK, Readable
<1>3. CopiesAgree
    BY DEF CopiesAgree
<1>4. EditsSurvive
    BY DEF EditsSurvive
<1> QED
    BY <1>2, <1>3, <1>4 DEF FileInv

LEMMA LoadKeepsInv ==
    ASSUME FileInv, NEW a \in Actors, NEW f \in Files,
           NEW P \in SUBSET PartsOf[f], NEW changes \in [P -> Values], Load(a, f, changes)
    PROVE  FileInv'
<1> DEFINE content == IF Readable(f) THEN file[f] ELSE Blank(f)
<1> USE FilesAssumption DEF FileInv, FileTypeOK, Load
<1>1. content \in Content(f)
    BY ContentFacts
<1>2. /\ copy'[a] \in Content(f)
      /\ own'[a] \subseteq PartsOf[f]
      /\ \A p \in PartsOf[f] \ own'[a] : copy'[a][p] = content[p]
    <2>1. copy'[a] = WithParts(content, changes) /\ own'[a] = DOMAIN changes
        OBVIOUS
    <2> HIDE DEF content, Load, FileInv, FileTypeOK
    <2> QED
        BY <2>1, <1>1, ContentFacts
<1>3. FileTypeOK'
    BY <1>2, ContentFacts DEF Readable
<1>4. CopiesAgree'
    <2> SUFFICES ASSUME NEW b \in Actors, of'[b] # NoFile, b \notin outdated', of'[b] \notin careless',
                        NEW p \in PartsOf[of'[b]] \ own'[b]
                 PROVE  copy'[b][p] = intended'[of'[b]][p]
        BY DEF CopiesAgree
    <2>1. CASE b = a
        <3>1. Readable(f) /\ f \notin careless /\ of'[a] = f
            BY <2>1 DEF Loadable
        <3>2. file[f] = intended[f]
            BY <3>1 DEF EditsSurvive
        <3> QED
            BY <2>1, <3>1, <3>2, <1>2
    <2>2. CASE b # a
        BY <2>2 DEF CopiesAgree
    <2> QED
        BY <2>1, <2>2
<1>5. EditsSurvive'
    BY DEF EditsSurvive, Readable
<1> QED
    BY <1>3, <1>4, <1>5

LEMMA ChangeKeepsInv ==
    ASSUME FileInv, NEW a \in Actors, of[a] # NoFile, NEW P \in SUBSET PartsOf[of[a]],
           NEW changes \in [P -> Values], Change(a, changes)
    PROVE  FileInv'
<1> USE FilesAssumption DEF FileInv, FileTypeOK, Change
<1>1. of[a] \in Files /\ copy[a] \in Content(of[a])
    OBVIOUS
<1>2. /\ copy'[a] \in Content(of[a])
      /\ own'[a] = own[a] \cup P
      /\ \A p \in PartsOf[of[a]] \ P : copy'[a][p] = copy[a][p]
    <2>1. copy'[a] = WithParts(copy[a], changes) /\ own'[a] = own[a] \cup DOMAIN changes
        OBVIOUS
    <2> HIDE DEF Change, FileInv, FileTypeOK
    <2> QED
        BY <2>1, <1>1, ContentFacts
<1>3. FileTypeOK'
    BY <1>2, ContentFacts DEF Readable
<1>4. CopiesAgree'
    BY <1>2 DEF CopiesAgree
<1>5. EditsSurvive'
    BY DEF EditsSurvive, Readable
<1> QED
    BY <1>3, <1>4, <1>5

LEMMA OpenKeepsInv ==
    ASSUME FileInv, NEW a \in Actors, Open(a)
    PROVE  FileInv'
<1> USE FilesAssumption DEF FileInv, FileTypeOK, Open
<1>0. /\ DOMAIN file' = Files
      /\ \A g \in Files : Readable(g)' => file'[g] \in Content(g) /\ file'[g] = file[g]
    BY DEF Readable
<1>1. FileTypeOK'
    <2>1. careless' \subseteq Files /\ mixing' \subseteq handles'
        BY DEF Writers
    <2> QED
        BY <1>0, <2>1
<1>2. CopiesAgree'
    BY DEF CopiesAgree
<1>3. EditsSurvive'
    BY DEF EditsSurvive, Readable
<1> QED
    BY <1>1, <1>2, <1>3

LEMMA WriteSomeKeepsInv ==
    ASSUME FileInv, NEW a \in Actors, WriteSome(a)
    PROVE  FileInv'
<1> USE FilesAssumption DEF FileInv, FileTypeOK, WriteSome
<1>0. /\ DOMAIN file' = Files
      /\ \A g \in Files : Readable(g)' => file'[g] \in Content(g) /\ file'[g] = file[g]
    BY DEF Readable
<1>1. FileTypeOK'
    BY <1>0
<1>2. CopiesAgree'
    BY DEF CopiesAgree
<1>3. EditsSurvive'
    BY DEF EditsSurvive, Readable
<1> QED
    BY <1>1, <1>2, <1>3

\* After a save all of the copy is intended, if it was not outdated.
LEMMA WriteKeepsInv ==
    ASSUME FileInv, NEW a \in Actors, Write(a), Keep(a) \/ Close(a)
    PROVE  FileInv'
<1> DEFINE f == of[a]
<1> USE FilesAssumption DEF FileInv, FileTypeOK
<1>1. f \in Files /\ f # NoFile /\ copy[a] \in Content(f) /\ a \in handles
    BY DEF Write
<1>2. PICK w \in Written(a) : file' = [file EXCEPT ![f] = w]
    BY DEF Write
<1>3. w = copy[a] \/ w = Torn
    BY <1>2 DEF Written
<1>4. intended' = [intended EXCEPT ![f] =
                      [p \in PartsOf[f] |-> IF p \in own[a] THEN copy[a][p] ELSE @[p]]]
    BY DEF Write
<1>5. intended'[f] \in Content(f)
    BY <1>1, <1>4 DEF Content
<1>6. /\ of' \in [Actors -> Files \cup {NoFile}]
      /\ DOMAIN copy' = Actors /\ DOMAIN own' = Actors
      /\ \A b \in Actors \ {a} : of'[b] = of[b] /\ copy'[b] = copy[b] /\ own'[b] = own[b]
      /\ of'[a] # NoFile => of'[a] = f /\ copy'[a] = copy[a] /\ own'[a] = own[a]
    BY DEF Keep, Close
<1>7. handles' = handles \ {a} /\ mixing' = mixing \ {a} /\ outdated' = outdated \cup (Holders(f) \ {a})
    BY DEF Write
<1>8. careless' = IF a \in outdated THEN careless \cup {f} ELSE careless
    BY DEF Write
<1>9. FileTypeOK'
    <2>1. /\ DOMAIN file' = Files
          /\ \A g \in Files : Readable(g)' => file'[g] \in Content(g)
        <3>1. DOMAIN file' = Files
            BY <1>2
        <3>2. ASSUME NEW g \in Files, file'[g] # Torn PROVE file'[g] \in Content(g)
            BY <3>2, <1>1, <1>2, <1>3 DEF Readable
        <3> QED
            BY <3>1, <3>2 DEF Readable
    <2>2. DOMAIN intended' = Files /\ \A g \in Files : intended'[g] \in Content(g)
        BY <1>1, <1>4, <1>5
    <2>3. \A b \in Actors :
              of'[b] # NoFile => copy'[b] \in Content(of'[b]) /\ own'[b] \subseteq PartsOf[of'[b]]
        BY <1>1, <1>6
    <2>4. handles' \subseteq {b \in Actors : of'[b] # NoFile} /\ mixing' \subseteq handles'
        BY <1>6, <1>7
    <2>5. outdated' \subseteq Actors /\ careless' \subseteq Files
        BY <1>1, <1>7, <1>8 DEF Holders
    <2> QED
        BY <2>1, <2>2, <2>3, <2>4, <2>5, <1>6
<1>10. ASSUME f \notin careless' PROVE intended'[f] = copy[a]
    <2>1. \A p \in PartsOf[f] \ own[a] : copy[a][p] = intended[f][p]
        BY <1>1, <1>8, <1>10 DEF CopiesAgree
    <2> QED
        BY <2>1, <1>1, <1>4 DEF Content
<1>11. CopiesAgree'
    <2> SUFFICES ASSUME NEW b \in Actors, of'[b] # NoFile, b \notin outdated', of'[b] \notin careless',
                        NEW p \in PartsOf[of'[b]] \ own'[b]
                 PROVE  copy'[b][p] = intended'[of'[b]][p]
        BY DEF CopiesAgree
    <2>1. CASE b = a
        BY <2>1, <1>6, <1>10
    <2>2. CASE b # a
        <3>1. of[b] # f
            BY <2>2, <1>6, <1>7 DEF Holders
        <3>2. intended'[of[b]] = intended[of[b]] /\ of[b] \notin careless /\ b \notin outdated
            BY <2>2, <3>1, <1>4, <1>6, <1>7, <1>8
        <3> QED
            BY <2>2, <3>2, <1>6 DEF CopiesAgree
    <2> QED
        BY <2>1, <2>2
<1>12. EditsSurvive'
    <2> SUFFICES ASSUME NEW g \in Files, g \notin careless', file'[g] # Torn
                 PROVE  file'[g] = intended'[g]
        BY DEF EditsSurvive, Readable
    <2>1. CASE g = f
        BY <2>1, <1>1, <1>2, <1>3, <1>10
    <2>2. CASE g # f
        BY <2>2, <1>2, <1>4, <1>8 DEF EditsSurvive, Readable
    <2> QED
        BY <2>1, <2>2
<1> QED
    BY <1>9, <1>11, <1>12

LEMMA WriteBreaksKeepsInv ==
    ASSUME FileInv, NEW a \in Actors, WriteBreaks(a), Keep(a) \/ Close(a)
    PROVE  FileInv'
<1> USE FilesAssumption DEF FileInv, FileTypeOK, WriteBreaks
<1>1. /\ of' \in [Actors -> Files \cup {NoFile}]
      /\ DOMAIN copy' = Actors /\ DOMAIN own' = Actors
      /\ \A b \in Actors : of'[b] # NoFile => of'[b] = of[b] /\ copy'[b] = copy[b] /\ own'[b] = own[b]
      /\ \A b \in Actors \ {a} : of'[b] = of[b]
    BY DEF Keep, Close
<1>0. /\ DOMAIN file' = Files
      /\ \A g \in Files : Readable(g)' => file'[g] \in Content(g) /\ file'[g] = file[g]
    BY DEF Readable
<1>2. FileTypeOK'
    BY <1>0, <1>1
<1>3. CopiesAgree'
    BY <1>1 DEF CopiesAgree
<1>4. EditsSurvive'
    BY DEF EditsSurvive, Readable
<1> QED
    BY <1>2, <1>3, <1>4

LEMMA ForgetKeepsInv ==
    ASSUME FileInv, NEW S \in SUBSET Actors, Forget(S)
    PROVE  FileInv'
<1> USE FilesAssumption DEF FileInv, FileTypeOK, Forget
<1>1. FileTypeOK'
    BY DEF Readable
<1>2. CopiesAgree'
    BY DEF CopiesAgree
<1>3. EditsSurvive'
    BY DEF EditsSurvive, Readable
<1> QED
    BY <1>1, <1>2, <1>3

LEMMA FileStep == FileInv /\ [FileNext]_fileVars => FileInv'
<1> SUFFICES ASSUME FileInv, [FileNext]_fileVars PROVE FileInv'
    OBVIOUS
<1>1. ASSUME NEW a \in Actors, NEW f \in Files, NEW P \in SUBSET PartsOf[f],
             NEW changes \in [P -> Values], Load(a, f, changes)
      PROVE  FileInv'
    BY <1>1, LoadKeepsInv
<1>2. ASSUME NEW a \in Actors, of[a] # NoFile, NEW P \in SUBSET PartsOf[of[a]],
             NEW changes \in [P -> Values], Change(a, changes)
      PROVE  FileInv'
    BY <1>2, ChangeKeepsInv
<1>3. ASSUME NEW a \in Actors, Open(a) \/ WriteSome(a) PROVE FileInv'
    BY <1>3, OpenKeepsInv, WriteSomeKeepsInv
<1>4. ASSUME NEW a \in Actors, Write(a) \/ WriteBreaks(a), Keep(a) \/ Close(a) PROVE FileInv'
    BY <1>4, WriteKeepsInv, WriteBreaksKeepsInv
<1>5. ASSUME NEW S \in SUBSET Actors, Forget(S) PROVE FileInv'
    BY <1>5, ForgetKeepsInv
<1>6. CASE UNCHANGED fileVars
    BY <1>6 DEF fileVars, FileInv, FileTypeOK, CopiesAgree, EditsSurvive, Readable
<1> QED
    BY <1>1, <1>2, <1>3, <1>4, <1>5, <1>6 DEF FileNext

\* Whoever shares a file, and however they are scheduled, killed and interrupted,
\* a file that can be read holds the last value saved of every part, unless an
\* outdated copy was saved, or two had it open for writing together.
THEOREM SharedFilesKeepEverything == FileSpec => []EditsSurvive
<1>1. FileInv => EditsSurvive
    BY DEF FileInv
<1> QED
    BY <1>1, FileInitially, FileStep, PTL DEF FileSpec
-----------------------------------------------------------------------------
(* ConfigFiles.                                                            *)

\* A page holds the file it shows, a program the settings, and what a program has
\* changed in its copy is a port, which is not 0.
ConfigInv ==
    /\ \A p \in Pages : of[p] \in {NoFile, PageFile[p]}
    /\ phase \in [Programs -> {"off", "resolve", "prompt", "persist", "running"}]
    /\ DOMAIN port = Programs
    /\ sending \subseteq Pages
    /\ \A p \in Programs :
           /\ phase[p] # "off" => of[p] = "settings"
           /\ p \in handles => phase[p] = "persist"
           /\ phase[p] \in {"resolve", "prompt", "persist"} => port[p] \in DOMAIN Asks[p]
           /\ phase[p] = "prompt" => copy[p][Asked(p)] = 0
           /\ \A q \in own[p] : copy[p][q] # 0

LEMMA OneFacts ==
    ASSUME NEW f \in Files, NEW p \in PartsOf[f], NEW v \in Values
    PROVE  One(p, v) \in [{p} -> Values] /\ {p} \in SUBSET PartsOf[f]
BY DEF One

LEMMA NoCopyFacts ==
    ASSUME NEW f \in Files
    PROVE  NoCopy \in [{} -> Values] /\ {} \in SUBSET PartsOf[f]
BY DEF NoCopy

LEMMA AskedIsPort ==
    ASSUME NEW p \in Programs, port[p] \in DOMAIN Asks[p]
    PROVE  Asked(p) \in Ports /\ Asked(p) \in PartsOf["settings"]
BY ConfigAssumption DEF Asked

\* What the Config UI, its pages and the programs do to the files.
LEMMA ConfigStepIsFileStep == FileTypeOK /\ ConfigInv /\ ConfigNext => [FileNext]_fileVars
<1> SUFFICES ASSUME FileTypeOK, ConfigInv, ConfigNext PROVE [FileNext]_fileVars
    OBVIOUS
<1> USE ConfigAssumption, FilesAssumption
<1> "settings" \in Files /\ "pet" \in Files
    OBVIOUS
<1> ConfigActors \subseteq Actors /\ Choices \subseteq Values
    OBVIOUS
<1>L. ASSUME NEW a \in Actors, NEW f \in Files, NEW P \in SUBSET PartsOf[f],
             NEW changes \in [P -> Values], Load(a, f, changes)
      PROVE  FileNext
    BY <1>L DEF FileNext
<1>C. ASSUME NEW a \in Actors, of[a] # NoFile, NEW P \in SUBSET PartsOf[of[a]],
             NEW changes \in [P -> Values], Change(a, changes)
      PROVE  FileNext
    BY <1>C DEF FileNext
<1>O. ASSUME NEW a \in Actors, \/ Open(a) \/ WriteSome(a)
                               \/ (Write(a) \/ WriteBreaks(a)) /\ (Keep(a) \/ Close(a))
      PROVE  FileNext
    BY <1>O DEF FileNext
<1>F. ASSUME NEW S \in SUBSET Actors, Forget(S) PROVE FileNext
    BY <1>F DEF FileNext
<1>1. ASSUME NEW h \in Handlers, NEW f \in Files, NEW q \in PartsOf[f], Merge(h, f, q)
      PROVE  FileNext
    <2>1. PICK v \in Choices : Load(h, f, One(q, v))
        BY <1>1 DEF Merge
    <2>2. h \in Actors
        BY DEF ConfigActors
    <2>3. One(q, v) \in [{q} -> Values] /\ {q} \in SUBSET PartsOf[f]
        BY OneFacts
    <2> QED
        BY <2>1, <2>2, <2>3, <1>L
<1>2. ASSUME NEW h \in Handlers, Request(h) PROVE FileNext
    <2>0. h \in Actors /\ {h} \in SUBSET Actors
        BY DEF ConfigActors
    <2>4. CASE Resave(h)
        BY <2>0, <2>4, <1>L, NoCopyFacts DEF Resave
    <2>1. CASE SaveCommands(h) \/ SaveFeatures(h) \/ SavePort(h) \/ SaveStreamPet(h) \/ SaveAndExit(h)
        BY <2>1, <2>4, <1>1 DEF SaveCommands, SaveFeatures, SavePort, SaveStreamPet, SaveAndExit
    <2>2. CASE HandlerOpens(h) \/ HandlerWrites(h)
        BY <2>0, <2>2, <1>O DEF HandlerOpens, HandlerWrites
    <2>3. CASE CannotOpen(h)
        BY <2>0, <2>3, <1>F DEF CannotOpen
    <2> QED
        BY <1>2, <2>1, <2>2, <2>3 DEF Request
<1>3. ASSUME NEW p \in Pages, Browse(p) PROVE FileNext
    <2>0. p \in Actors /\ PageFile[p] \in Files /\ PageParts[p] \subseteq PartsOf[PageFile[p]]
        BY DEF ConfigActors
    <2>1. CASE Show(p)
        BY <2>0, <2>1, <1>L, NoCopyFacts DEF Show
    <2>2. CASE Send(p)
        <3>1. PICK q \in PageParts[p], v \in Choices : Change(p, One(q, v))
            BY <2>2 DEF Send
        <3>2. of[p] # NoFile /\ of[p] = PageFile[p]
            BY <3>1 DEF Change, ConfigInv
        <3>3. One(q, v) \in [{q} -> Values] /\ {q} \in SUBSET PartsOf[of[p]]
            BY <2>0, <3>1, <3>2, OneFacts
        <3> QED
            BY <2>0, <3>1, <3>2, <3>3, <1>C
    <2>3. CASE PageOpens(p) \/ PageWrites(p)
        BY <2>0, <2>3, <1>O DEF PageOpens, PageWrites
    <2> QED
        BY <1>3, <2>1, <2>2, <2>3 DEF Browse
<1>4. ASSUME NEW p \in Programs, Program(p) PROVE FileNext \/ UNCHANGED fileVars
    <2>0. p \in Actors
        BY DEF ConfigActors
    <2>1. CASE Start(p)
        BY <2>0, <2>1, <1>L, NoCopyFacts DEF Start
    <2>2. CASE UsePort(p) \/ Prompt(p) \/ PersistCannotOpen(p)
        BY <2>2 DEF UsePort, Prompt, PersistCannotOpen
    <2>3. CASE AnswerPrompt(p)
        <3>1. PICK v \in Choices : Change(p, One(Asked(p), v))
            BY <2>3 DEF AnswerPrompt
        <3>2. of[p] = "settings" /\ of[p] # NoFile /\ port[p] \in DOMAIN Asks[p]
            BY <2>3 DEF AnswerPrompt, ConfigInv
        <3>3. Asked(p) \in PartsOf[of[p]]
            BY <3>2, AskedIsPort
        <3>4. One(Asked(p), v) \in [{Asked(p)} -> Values] /\ {Asked(p)} \in SUBSET PartsOf[of[p]]
            BY <3>2, <3>3, OneFacts
        <3> QED
            BY <2>0, <3>1, <3>2, <3>4, <1>C
    <2>4. CASE PersistOpens(p) \/ PersistWrites(p)
        BY <2>0, <2>4, <1>O DEF PersistOpens, PersistWrites
    <2>5. CASE Quit(p)
        <3>1. ConfigUIThreads \in SUBSET Actors /\ {p} \in SUBSET Actors
            BY <2>0 DEF ConfigUIThreads, ConfigInv, ConfigActors
        <3> QED
            BY <3>1, <2>5, <1>F DEF Quit
    <2> QED
        BY <1>4, <2>1, <2>2, <2>3, <2>4, <2>5 DEF Program
<1>5. ASSUME Exits PROVE FileNext
    <2>1. ConfigUIThreads \in SUBSET Actors
        BY DEF ConfigUIThreads, ConfigInv, ConfigActors
    <2> QED
        BY <1>5, <2>1, <1>F DEF Exits
<1>6. ASSUME NEW a \in ConfigActors, WritesBeside(a) PROVE FileNext
    BY <1>6, <1>O DEF WritesBeside
<1> QED
    BY <1>2, <1>3, <1>4, <1>5, <1>6 DEF ConfigNext

\* A step of one actor leaves what the others hold alone.
SameFor(b) ==
    /\ of'[b] = of[b] /\ copy'[b] = copy[b] /\ own'[b] = own[b]
    /\ b \in handles' <=> b \in handles

LEMMA OthersAreLeftAlone ==
    ASSUME FileTypeOK, NEW a \in Actors,
           \/ \E f, changes : Load(a, f, changes)
           \/ \E changes : Change(a, changes)
           \/ Open(a) \/ WriteSome(a)
           \/ (Write(a) \/ WriteBreaks(a)) /\ (Keep(a) \/ Close(a))
    PROVE  \A b \in Actors \ {a} : SameFor(b)
BY DEF FileTypeOK, SameFor, Load, Change, Open, WriteSome, Write, WriteBreaks, Keep, Close

LEMMA ConfigInitially == FileInit /\ ConfigInit => ConfigInv
BY ConfigAssumption DEF FileInit, ConfigInit, ConfigInv, ConfigActors

\* Programs that a step leaves alone keep their part of the invariant.
LEMMA OtherProgramsKeepInv ==
    ASSUME ConfigInv, NEW p \in Programs, SameFor(p), phase'[p] = phase[p], port'[p] = port[p]
    PROVE  /\ phase'[p] # "off" => of'[p] = "settings"
           /\ p \in handles' => phase'[p] = "persist"
           /\ phase'[p] \in {"resolve", "prompt", "persist"} => port'[p] \in DOMAIN Asks[p]
           /\ phase'[p] = "prompt" => copy'[p][Asked(p)'] = 0
           /\ \A q \in own'[p] : copy'[p][q] # 0
BY DEF ConfigInv, SameFor, Asked

LEMMA RequestKeepsConfigInv ==
    ASSUME FileTypeOK, ConfigInv, NEW h \in Handlers, Request(h)
    PROVE  ConfigInv'
<1> USE ConfigAssumption
<1>1. h \in Actors /\ h \notin Programs /\ h \notin Pages
    BY DEF ConfigActors
<1>2. phase' = phase /\ port' = port /\ sending' = sending
    BY DEF Request, SaveCommands, SaveFeatures, SavePort, SaveStreamPet, SaveAndExit, Merge, Resave,
           HandlerOpens, HandlerWrites, CannotOpen, configVars
<1>3. \A b \in Actors \ {h} : SameFor(b)
    <2>1. CASE CannotOpen(h)
        BY <2>1 DEF CannotOpen, Forget, SameFor
    <2>2. CASE ~CannotOpen(h)
        BY <1>1, <2>2, OthersAreLeftAlone
           DEF Request, SaveCommands, SaveFeatures, SavePort, SaveStreamPet, SaveAndExit, Merge, Resave,
               HandlerOpens, HandlerWrites
    <2> QED
        BY <2>1, <2>2
<1>4. \A p \in Pages \cup Programs : SameFor(p)
    BY <1>1, <1>3 DEF ConfigActors
<1> QED
    BY <1>2, <1>4, OtherProgramsKeepInv DEF ConfigInv, SameFor

LEMMA BrowseKeepsConfigInv ==
    ASSUME FileTypeOK, ConfigInv, NEW p \in Pages, Browse(p)
    PROVE  ConfigInv'
<1> USE ConfigAssumption
<1>1. p \in Actors /\ p \notin Programs
    BY DEF ConfigActors
<1>2. phase' = phase /\ port' = port /\ sending' \subseteq Pages
    BY DEF Browse, Show, Send, PageOpens, PageWrites, configVars, ConfigInv
<1>3. \A b \in Actors \ {p} : SameFor(b)
    BY <1>1, OthersAreLeftAlone DEF Browse, Show, Send, PageOpens, PageWrites
<1>4. \A q \in (Pages \cup Programs) \ {p} : SameFor(q)
    BY <1>3 DEF ConfigActors
<1>5. of'[p] \in {NoFile, PageFile[p]}
    BY <1>1 DEF Browse, Show, Send, PageOpens, PageWrites, Load, Change, Open, Keep, ConfigInv, FileTypeOK
<1> QED
    BY <1>1, <1>2, <1>4, <1>5, OtherProgramsKeepInv DEF ConfigInv, SameFor

LEMMA ProgramKeepsConfigInv ==
    ASSUME FileTypeOK, ConfigInv, NEW p \in Programs, Program(p), ~Quit(p)
    PROVE  ConfigInv'
<1> USE ConfigAssumption, FilesAssumption
<1>1. p \in Actors /\ "settings" \in Files /\ "settings" # NoFile
    BY DEF ConfigActors
<1>2. \A b \in Actors \ {p} : SameFor(b)
    <2>1. CASE UsePort(p) \/ Prompt(p) \/ PersistCannotOpen(p)
        BY <2>1 DEF UsePort, Prompt, PersistCannotOpen, fileVars, SameFor
    <2>2. CASE ~(UsePort(p) \/ Prompt(p) \/ PersistCannotOpen(p))
        BY <1>1, <2>2, OthersAreLeftAlone
           DEF Program, Start, AnswerPrompt, PersistOpens, PersistWrites
    <2> QED
        BY <2>1, <2>2
<1>3. /\ sending' = sending
      /\ \A q \in Programs \ {p} : phase'[q] = phase[q] /\ port'[q] = port[q]
    BY DEF ConfigInv, Program, Start, UsePort, Prompt, AnswerPrompt, PersistOpens, PersistWrites,
           PersistCannotOpen, NextPort, After, configVars
<1>4. \A q \in (Pages \cup Programs) \ {p} : SameFor(q)
    BY <1>2 DEF ConfigActors
<1>5. DOMAIN Asks[p] = 1 .. Len(Asks[p]) /\ Len(Asks[p]) \in Nat /\ Len(Asks[p]) > 0
    <2>1. Asks[p] \in Seq(Ports) /\ Asks[p] # <<>>
        OBVIOUS
    <2> QED
        BY <2>1
<1>6. ASSUME NextPort(p), port[p] \in DOMAIN Asks[p], phase \in [Programs -> STRING], DOMAIN port = Programs
      PROVE  /\ DOMAIN port' = Programs
             /\ phase'[p] \in {"resolve", "running"}
             /\ phase'[p] = "resolve" => port'[p] \in DOMAIN Asks[p]
    BY <1>5, <1>6 DEF NextPort, After
<1> DEFINE Phases == {"off", "resolve", "prompt", "persist", "running"}
<1> DEFINE Part(q) ==
      /\ phase'[q] # "off" => of'[q] = "settings"
      /\ q \in handles' => phase'[q] = "persist"
      /\ phase'[q] \in {"resolve", "prompt", "persist"} => port'[q] \in DOMAIN Asks[q]
      /\ phase'[q] = "prompt" => copy'[q][Asked(q)'] = 0
      /\ \A part \in own'[q] : copy'[q][part] # 0
<1>7. /\ phase' \in [Programs -> Phases] /\ DOMAIN port' = Programs
      /\ Part(p)
    <2> USE <1>1 DEF ConfigInv, FileTypeOK
    <2>1. CASE Start(p)
        BY <2>1, <1>5 DEF Start, Load, NoCopy
    <2>2. CASE UsePort(p)
        BY <2>2, <1>6 DEF UsePort, fileVars, NextPort, After
    <2>3. CASE Prompt(p)
        BY <2>3 DEF Prompt, After, fileVars, Asked
    <2>4. CASE AnswerPrompt(p)
        <3>1. PICK v \in Choices : Change(p, One(Asked(p), v))
            BY <2>4 DEF AnswerPrompt
        <3>2. /\ phase' = [phase EXCEPT ![p] = "persist"] /\ port' = port
              /\ of'[p] = "settings" /\ handles' = handles /\ p \notin handles
              /\ copy'[p] = WithParts(copy[p], One(Asked(p), v))
              /\ own'[p] = own[p] \cup {Asked(p)}
            BY <2>4, <3>1 DEF AnswerPrompt, After, Change, One
        <3>3. /\ Asked(p) \in PartsOf["settings"] /\ v # 0
              /\ copy[p] \in Content("settings") /\ own[p] \subseteq PartsOf["settings"]
            BY <2>4, AskedIsPort DEF AnswerPrompt
        <3>4. \A part \in own'[p] : copy'[p][part] # 0
            BY <3>2, <3>3 DEF WithParts, One, Content
        <3> QED
            BY <2>4, <3>2, <3>4 DEF AnswerPrompt
    <2>5. CASE PersistOpens(p)
        BY <2>5 DEF PersistOpens, Open, configVars
    <2>6. CASE PersistWrites(p)
        <3>1. p \in handles /\ handles' = handles \ {p} /\ Keep(p)
            BY <2>6 DEF PersistWrites, Write, WriteBreaks
        <3> QED
            BY <2>6, <3>1, <1>6 DEF PersistWrites, Keep, NextPort, After
    <2>7. CASE PersistCannotOpen(p)
        BY <2>7, <1>6 DEF PersistCannotOpen, fileVars, NextPort, After
    <2> QED
        BY <2>1, <2>2, <2>3, <2>4, <2>5, <2>6, <2>7 DEF Program
<1>8. \A q \in Programs : Part(q)
    <2> SUFFICES ASSUME NEW q \in Programs \ {p} PROVE Part(q)
        BY <1>7
    <2> QED
        BY <1>3, <1>4, OtherProgramsKeepInv
<1>9. \A q \in Pages : of'[q] \in {NoFile, PageFile[q]}
    BY <1>4 DEF ConfigInv, SameFor
<1> QED
    BY <1>3, <1>7, <1>8, <1>9 DEF ConfigInv

LEMMA ConfigStep == FileTypeOK /\ ConfigInv /\ [ConfigNext]_<<fileVars, configVars>> => ConfigInv'
<1> SUFFICES ASSUME FileTypeOK, ConfigInv, [ConfigNext]_<<fileVars, configVars>> PROVE ConfigInv'
    OBVIOUS
<1>1. ASSUME NEW S \in SUBSET Actors, NEW p \in Programs, Forget(S), S \cap Programs = {p},
             phase' = [phase EXCEPT ![p] = "off"], port' = port, sending' \subseteq Pages
      PROVE  ConfigInv'
    <2>1. \A q \in Programs \ {p} : SameFor(q)
        BY <1>1, ConfigAssumption DEF Forget, SameFor, ConfigActors
    <2>2. p \in Actors /\ of'[p] = NoFile /\ own'[p] = {} /\ p \notin handles'
        BY <1>1, ConfigAssumption DEF Forget, ConfigActors
    <2>3. \A q \in Pages : of'[q] \in {NoFile, PageFile[q]}
        BY <1>1, ConfigAssumption DEF ConfigInv, Forget, ConfigActors
    <2>4. phase' \in [Programs -> {"off", "resolve", "prompt", "persist", "running"}]
          /\ phase'[p] = "off" /\ DOMAIN port' = Programs
        BY <1>1 DEF ConfigInv
    <2>5. \A q \in Programs \ {p} : phase'[q] = phase[q] /\ port'[q] = port[q]
        BY <1>1 DEF ConfigInv
    <2> QED
        BY <1>1, <2>1, <2>2, <2>3, <2>4, <2>5, OtherProgramsKeepInv DEF ConfigInv
<1>2. /\ ConfigUIThreads \in SUBSET Actors /\ ConfigUIThreads \cap Programs = {WebUI}
      /\ sending \ ConfigUIThreads \subseteq Pages
    BY ConfigAssumption DEF ConfigUIThreads, ConfigInv, ConfigActors
<1>3. CASE Exits
    BY <1>1, <1>2, <1>3, ConfigAssumption DEF Exits
<1>4. ASSUME NEW p \in Programs, Quit(p) PROVE ConfigInv'
    <2>1. {p} \in SUBSET Actors /\ {p} \cap Programs = {p} /\ sending \subseteq Pages
        BY ConfigAssumption DEF ConfigActors, ConfigInv
    <2>2. phase' = [phase EXCEPT ![p] = "off"] /\ port' = port
        BY <1>4 DEF Quit, After
    <2>3. CASE p = WebUI
        BY <1>1, <1>2, <1>4, <2>2, <2>3 DEF Quit
    <2>4. CASE p # WebUI
        BY <1>1, <1>4, <2>1, <2>2, <2>4 DEF Quit
    <2> QED
        BY <2>3, <2>4
<1>5. CASE UNCHANGED <<fileVars, configVars>>
    BY <1>5 DEF fileVars, configVars, ConfigInv, Asked
<1>6. ASSUME NEW a \in ConfigActors, WritesBeside(a) PROVE ConfigInv'
    BY <1>6 DEF WritesBeside, WriteSome, configVars, ConfigInv, Asked
<1> QED
    BY <1>3, <1>4, <1>5, <1>6, RequestKeepsConfigInv, BrowseKeepsConfigInv, ProgramKeepsConfigInv
       DEF ConfigNext

LEMMA ConfigInvariant == ConfigSpec => [](FileInv /\ ConfigInv)
<1>1. FileInit /\ ConfigInit => FileInv /\ ConfigInv
    BY FileInitially, ConfigInitially
<1>2. FileInv /\ ConfigInv /\ [ConfigNext]_<<fileVars, configVars>> => (FileInv /\ ConfigInv)'
    <2>1. UNCHANGED <<fileVars, configVars>> => UNCHANGED fileVars
        OBVIOUS
    <2> QED
        BY <2>1, ConfigStepIsFileStep, FileStep, ConfigStep DEF FileInv
<1> QED
    BY <1>1, <1>2, PTL DEF ConfigSpec

\* No request, page or program loses what another has saved, unless it saves an
\* outdated copy, or another writes together with it.
THEOREM ConfigFilesKeepEverything == ConfigSpec => []EditsSurvive
BY ConfigInvariant, PTL DEF FileInv

\* No program asks for a port that has been saved.
THEOREM PortsAreAskedOnce == ConfigSpec => []AskedOnce
<1>1. FileInv /\ ConfigInv => AskedOnce
    <2> SUFFICES ASSUME FileInv, ConfigInv,
                        NEW p \in Programs \ outdated, phase[p] = "prompt", "settings" \notin careless
                 PROVE  intended["settings"][Asked(p)] = 0
        BY DEF AskedOnce
    <2>1. /\ p \in Actors /\ of[p] = "settings" /\ "settings" # NoFile
          /\ Asked(p) \in PartsOf["settings"]
          /\ copy[p][Asked(p)] = 0 /\ Asked(p) \notin own[p]
        BY AskedIsPort, ConfigAssumption, FilesAssumption DEF ConfigInv, ConfigActors
    <2> QED
        BY <2>1 DEF FileInv, CopiesAgree
<1> QED
    BY <1>1, ConfigInvariant, PTL
-----------------------------------------------------------------------------
(* EnvTokens.                                                              *)

Labels == {"off", "validate", "refresh", "reload", "fetch", "done", "authorise",
           "save", "open", "write"}
Saving(x) == label[x] \in {"open", "write"}

TokensTypeOK ==
    /\ label \in [Renewers -> Labels]
    /\ stage \in [Renewers -> Accounts \cup {"id"}]
    /\ stage[Script] \in Accounts
    /\ label[Bot] \in {"off", "validate", "refresh"} => stage[Bot] \in Accounts
    /\ DOMAIN news = Renewers
    /\ \A x \in Renewers :
           /\ DOMAIN news[x] \in SUBSET PartsOf["env"]
           /\ news[x] \in [DOMAIN news[x] -> Values]
           /\ label[x] # "off" => of[x] = "env"
           /\ label[x] \notin {"save", "open", "write"} => Held(x) = {}
    /\ issued \in [Accounts -> Nat]
    /\ DOMAIN refreshable = Accounts
    /\ excused \subseteq Accounts

\* The newest pair of an account can be refreshed.
NewestIsRefreshable == \A a \in Accounts : issued[a] # 0 => issued[a] \in refreshable[a]

\* Programs do not save at the same time, unless everything is excused.
SavesApart == Saving(Bot) /\ Saving(Script) => excused = Accounts

\* Where the newest pair of an account is: with the one program that has still to
\* save it, or in .env and in what is about to be written there.
HeldIsNewest(a) == \A x \in Renewers : a \in Held(x) => news[x][a] = issued[a]
OneHolder(a)    == ~(a \in Held(Bot) /\ a \in Held(Script))
SavedIsNewest(a) ==
    \A x \in Renewers :
        Saving(x) => (\E y \in Renewers \ {x} : a \in Held(y)) \/ copy[x][a] = issued[a]
FileIsNewest(a) ==
    file["env"] # Torn /\ a \notin Held(Bot) \cup Held(Script) => file["env"][a] = issued[a]

KeptFor(a) == HeldIsNewest(a) /\ OneHolder(a) /\ SavedIsNewest(a) /\ FileIsNewest(a)
NewestIsKept == \A a \in Accounts \ excused : KeptFor(a)

TokensInv == TokensTypeOK /\ NewestIsRefreshable /\ SavesApart /\ NewestIsKept

LEMMA EnvFacts ==
    /\ "env" \in Files /\ "env" # NoFile /\ Bot \in Actors /\ Script \in Actors /\ Bot # Script
    /\ Accounts \subseteq PartsOf["env"]
    /\ \A a \in Accounts : IdOf[a] \in PartsOf["env"] /\ IdOf[a] \notin Accounts
    /\ "CHANNEL id" \in PartsOf["env"] /\ "CHANNEL id" \notin Accounts
    /\ 0 \in Values /\ 1 \in Values
    /\ Renewers = {Bot, Script}
<1>1. "env" \in Files /\ "env" # NoFile /\ Bot \in Actors /\ Script \in Actors /\ Bot # Script
    BY TokensAssumption, FilesAssumption DEF Renewers
<1>2. IdOf["BOT"] = "BOT id" /\ IdOf["CHANNEL"] = "CHANNEL id"
    BY DEF IdOf
<1>3. MaxIssued \in Nat \ {0} /\ 0 .. MaxIssued \subseteq Values
    BY TokensAssumption
<1>4. 0 \in Values /\ 1 \in Values
    BY <1>3
<1> QED
    BY <1>1, <1>2, <1>4, TokensAssumption DEF Accounts, Renewers

LEMMA TokensInitially == FileInit /\ TokensInit => TokensInv
<1> SUFFICES ASSUME FileInit, TokensInit PROVE TokensInv
    OBVIOUS
<1> USE EnvFacts DEF TokensInit, FileInit
<1>1. file["env"] \in [PartsOf["env"] -> Values] /\ Values \subseteq Nat
    BY FilesAssumption, TokensAssumption DEF Content
<1>2. \A x \in Renewers : Held(x) = {} /\ news[x] = Nothing /\ label[x] = "off"
    BY DEF Held, Nothing
<1>3. TokensTypeOK
    BY <1>1, <1>2 DEF TokensTypeOK, Labels, Nothing, Accounts
<1>4. NewestIsRefreshable
    BY <1>1 DEF NewestIsRefreshable
<1>5. SavesApart /\ NewestIsKept
    BY <1>2 DEF SavesApart, NewestIsKept, Saving, KeptFor, HeldIsNewest, OneHolder, SavedIsNewest,
                FileIsNewest
<1> QED
    BY <1>3, <1>4, <1>5 DEF TokensInv

LEMMA TokensStepIsFileStep ==
    FileTypeOK /\ TokensTypeOK /\ TokensNext => [FileNext]_fileVars
<1> SUFFICES ASSUME FileTypeOK, TokensTypeOK, TokensNext PROVE FileNext \/ UNCHANGED fileVars
    OBVIOUS
<1> USE EnvFacts
<1>L. ASSUME NEW a \in Actors, NEW P \in SUBSET PartsOf["env"],
             NEW changes \in [P -> Values], Load(a, "env", changes)
      PROVE  FileNext
    BY <1>L DEF FileNext
<1>N. Nothing \in [{} -> Values] /\ {} \in SUBSET PartsOf["env"]
    BY DEF Nothing
<1>1. ASSUME NEW x \in Renewers, WriteEnv(x) PROVE FileNext
    BY <1>1, <1>L DEF WriteEnv, TokensTypeOK
<1>2. ASSUME NEW x \in Renewers, OpenEnv(x) \/ EnvWritesBeside(x) \/ EnvWritten(x) PROVE FileNext
    BY <1>2 DEF OpenEnv, EnvWritesBeside, EnvWritten, FileNext
<1>3. ASSUME NEW x \in Renewers, EnvNotWritten(x) PROVE FileNext \/ UNCHANGED fileVars
    <2>1. x \in Actors /\ {x} \in SUBSET Actors
        OBVIOUS
    <2> QED
        BY <1>3, <2>1 DEF EnvNotWritten, FileNext
<1>4. ASSUME NEW x \in Renewers, End(x) PROVE FileNext
    <2>1. {x} \in SUBSET Actors
        OBVIOUS
    <2> QED
        BY <1>4, <2>1 DEF End, FileNext
<1>5. CASE StartBot \/ Reload \/ StartScript
    BY <1>5, <1>L, <1>N DEF StartBot, Reload, StartScript
<1>6. CASE \/ Validated \/ NotValidated \/ Refreshed \/ RefreshFails \/ FetchId
           \/ Authorised \/ NotAuthorised \/ ExchangeRaises
    BY <1>6 DEF Validated, NotValidated, Refreshed, RefreshFails, FetchId, Authorised,
                NotAuthorised, ExchangeRaises
<1> QED
    BY <1>1, <1>2, <1>3, <1>4, <1>5, <1>6 DEF TokensNext

\* Steps that neither begin nor end a save, nor receive a pair.
LEMMA NewestStays ==
    ASSUME TokensInv, excused \subseteq excused', excused' \subseteq Accounts,
           \A a \in Accounts \ excused' :
               /\ issued'[a] = issued[a]
               /\ \A x \in Renewers : /\ a \in Held(x)' <=> a \in Held(x)
                                      /\ a \in Held(x) => news'[x][a] = news[x][a],
           \A x \in Renewers :
               Saving(x)' => Saving(x) /\ \A a \in Accounts : copy'[x][a] = copy[x][a],
           file'["env"] = file["env"] \/ file'["env"] = Torn
    PROVE  SavesApart' /\ NewestIsKept'
<1> USE EnvFacts
<1>1. SavesApart'
    BY DEF SavesApart, TokensInv
<1>2. ASSUME NEW a \in Accounts \ excused' PROVE KeptFor(a)'
    <2>0. KeptFor(a)
        BY <1>2 DEF TokensInv, NewestIsKept
    <2>1. /\ issued'[a] = issued[a]
          /\ \A x \in Renewers : /\ a \in Held(x)' <=> a \in Held(x)
                                 /\ a \in Held(x) => news'[x][a] = news[x][a]
                                 /\ Saving(x)' => Saving(x) /\ copy'[x][a] = copy[x][a]
        BY <1>2
    <2>2. HeldIsNewest(a)' /\ OneHolder(a)'
        BY <2>0, <2>1 DEF KeptFor, HeldIsNewest, OneHolder
    <2>3. SavedIsNewest(a)'
        BY <2>0, <2>1 DEF KeptFor, SavedIsNewest
    <2>4. FileIsNewest(a)'
        BY <2>0, <2>1 DEF KeptFor, FileIsNewest
    <2> QED
        BY <2>2, <2>3, <2>4 DEF KeptFor
<1> QED
    BY <1>1, <1>2 DEF NewestIsKept

LEMMA ReceiveKeepsNewest ==
    ASSUME TokensInv, NEW x \in Renewers, NEW a \in Accounts, ~Saving(x), Held(x) = {},
           Receive(x, a), UNCHANGED <<file, copy>>
    PROVE  NewestIsRefreshable' /\ SavesApart' /\ NewestIsKept'
<1> USE EnvFacts
<1>0. /\ DOMAIN issued = Accounts /\ DOMAIN refreshable = Accounts /\ excused \subseteq Accounts
      /\ DOMAIN label = Renewers /\ DOMAIN news = Renewers
    BY DEF TokensInv, TokensTypeOK
<1>1. /\ issued' = [issued EXCEPT ![a] = issued[a] + 1]
      /\ issued[a] + 1 \in refreshable'[a]
      /\ \A b \in Accounts \ {a} : refreshable'[b] = refreshable[b]
    <2>1. /\ issued' = [issued EXCEPT ![a] = issued[a] + 1]
          /\ \E kept : refreshable' = [refreshable EXCEPT ![a] = kept \cup {issued[a] + 1}]
        BY DEF Receive, Issue
    <2> QED
        BY <1>0, <2>1
<1>2. /\ news' = [news EXCEPT ![x] = Fact(a, issued[a] + 1)]
      /\ label' = [label EXCEPT ![x] = "save"]
      /\ excused' = IF \E y \in Renewers \ {x} : a \in Held(y) THEN excused \cup {a} ELSE excused
    BY DEF Receive, Got, GoOn
<1>3. /\ Held(x)' = {a} /\ news'[x][a] = issued[a] + 1 /\ ~Saving(x)'
      /\ \A y \in Renewers \ {x} : /\ Held(y)' = Held(y) /\ news'[y] = news[y]
                                   /\ Saving(y)' <=> Saving(y)
    <2>1. news'[x] = Fact(a, issued[a] + 1) /\ label'[x] = "save"
        BY <1>0, <1>2
    <2>2. Held(x)' = {a} /\ news'[x][a] = issued[a] + 1 /\ ~Saving(x)'
        BY <2>1 DEF Held, Fact, Saving
    <2>3. \A y \in Renewers \ {x} : news'[y] = news[y] /\ label'[y] = label[y]
        BY <1>0, <1>2
    <2> QED
        BY <2>2, <2>3 DEF Held, Saving
<1>4. NewestIsRefreshable'
    BY <1>0, <1>1 DEF NewestIsRefreshable, TokensInv
<1>5. SavesApart'
    BY <1>3 DEF SavesApart
<1>6. ASSUME NEW b \in Accounts \ excused', b # a PROVE KeptFor(b)'
    <2>1. issued'[b] = issued[b] /\ b \in Accounts \ excused /\ b \notin Held(x)'
        BY <1>0, <1>1, <1>2, <1>3, <1>6
    <2>2. KeptFor(b)
        BY <2>1 DEF TokensInv, NewestIsKept
    <2>3. HeldIsNewest(b)' /\ OneHolder(b)'
        BY <1>3, <2>1, <2>2 DEF KeptFor, HeldIsNewest, OneHolder
    <2>4. SavedIsNewest(b)'
        BY <1>3, <2>1, <2>2 DEF KeptFor, SavedIsNewest
    <2>5. FileIsNewest(b)'
        BY <1>3, <2>1, <2>2 DEF KeptFor, FileIsNewest
    <2> QED
        BY <2>3, <2>4, <2>5 DEF KeptFor
<1>7. ASSUME a \notin excused' PROVE KeptFor(a)'
    <2>1. \A y \in Renewers \ {x} : a \notin Held(y)'
        BY <1>2, <1>3, <1>7
    <2>2. issued'[a] = issued[a] + 1
        BY <1>0, <1>1
    <2>3. HeldIsNewest(a)' /\ OneHolder(a)'
        BY <1>3, <2>1, <2>2 DEF HeldIsNewest, OneHolder
    <2>4. SavedIsNewest(a)' /\ FileIsNewest(a)'
        BY <1>3, <2>1 DEF SavedIsNewest, FileIsNewest
    <2> QED
        BY <2>3, <2>4 DEF KeptFor
<1> QED
    BY <1>4, <1>5, <1>6, <1>7 DEF NewestIsKept

LEMMA WriteEnvKeepsNewest ==
    ASSUME FileTypeOK, TokensInv, NEW x \in Renewers, WriteEnv(x)
    PROVE  SavesApart' /\ NewestIsKept'
<1> USE EnvFacts
<1>1. /\ label' = [label EXCEPT ![x] = "open"] /\ news' = news /\ issued' = issued /\ file' = file
      /\ \A y \in Renewers : Held(y)' = Held(y)
    BY DEF WriteEnv, GoOn, Load, twitch, Held
<1>2. excused' = IF Readable("env") /\ \A y \in Renewers : ~Saving(y) THEN excused ELSE Accounts
    BY DEF WriteEnv, Saving
<1>3. CASE excused' = Accounts
    BY <1>3 DEF SavesApart, NewestIsKept
<1>4. CASE excused' # Accounts
    <2>1. Readable("env") /\ excused' = excused /\ \A y \in Renewers : ~Saving(y)
        BY <1>2, <1>4
    <2>2. \A y \in Renewers \ {x} : ~Saving(y)'
        BY <1>1, <2>1 DEF Saving, TokensInv, TokensTypeOK
    <2>3. copy'[x] = WithParts(file["env"], news[x]) /\ file["env"] \in Content("env")
        BY <2>1 DEF WriteEnv, Load, FileTypeOK
    <2>4. \A a \in Accounts :
              copy'[x][a] = IF a \in Held(x) THEN news[x][a] ELSE file["env"][a]
        BY <2>3 DEF WithParts, Content, Held
    <2>5. ASSUME NEW a \in Accounts \ excused PROVE KeptFor(a)'
        <3>1. KeptFor(a)
            BY DEF TokensInv, NewestIsKept
        <3>2. HeldIsNewest(a)' /\ OneHolder(a)' /\ FileIsNewest(a)'
            BY <1>1, <3>1 DEF KeptFor, HeldIsNewest, OneHolder, FileIsNewest
        <3>3. (\E y \in Renewers \ {x} : a \in Held(y)) \/ copy'[x][a] = issued[a]
            BY <2>1, <2>4, <3>1 DEF KeptFor, HeldIsNewest, FileIsNewest, Readable
        <3>4. SavedIsNewest(a)'
            BY <1>1, <2>2, <3>3 DEF SavedIsNewest
        <3> QED
            BY <3>2, <3>4 DEF KeptFor
    <2> QED
        BY <2>1, <2>2, <2>5 DEF SavesApart, NewestIsKept
<1> QED
    BY <1>3, <1>4

LEMMA EnvWrittenKeepsNewest ==
    ASSUME FileTypeOK, TokensInv, NEW x \in Renewers, EnvWritten(x), of[x] = "env"
    PROVE  SavesApart' /\ NewestIsKept'
<1> USE EnvFacts
<1>0. DOMAIN news = Renewers /\ DOMAIN label = Renewers
    BY DEF TokensInv, TokensTypeOK
<1>1. /\ Saving(x) /\ ~Saving(x)'
      /\ \A y \in Renewers \ {x} : Saving(y)' <=> Saving(y)
    <2>1. label[x] = "write" /\ (x = Bot \/ x = Script)
        BY DEF EnvWritten, Has
    <2>2. PICK l \in {"reload", "authorise", "done"} : label' = [label EXCEPT ![x] = l]
        BY <2>1 DEF EnvWritten, NextAccount, GoOn
    <2>3. label'[x] \notin {"open", "write"} /\ \A y \in Renewers \ {x} : label'[y] = label[y]
        BY <1>0, <2>2
    <2> QED
        BY <2>1, <2>3 DEF Saving
<1>2. /\ copy' = copy /\ issued' = issued /\ excused' = excused
      /\ file'["env"] = copy[x] \/ file'["env"] = Torn
    BY DEF EnvWritten, Write, Keep, Written, twitch, FileTypeOK
<1>3. /\ Held(x)' = {}
      /\ \A y \in Renewers \ {x} : Held(y)' = Held(y) /\ news'[y] = news[y]
    BY <1>0 DEF EnvWritten, Held, Nothing
<1>4. SavesApart'
    BY <1>1 DEF SavesApart
<1>5. ASSUME NEW a \in Accounts \ excused' PROVE KeptFor(a)'
    <2>1. KeptFor(a) /\ \A y \in Renewers \ {x} : ~Saving(y)'
        BY <1>1, <1>2, <1>5 DEF TokensInv, SavesApart, NewestIsKept
    <2>2. HeldIsNewest(a)' /\ OneHolder(a)'
        BY <1>2, <1>3, <2>1 DEF KeptFor, HeldIsNewest, OneHolder
    <2>3. SavedIsNewest(a)'
        BY <1>1, <2>1 DEF SavedIsNewest
    <2>4. FileIsNewest(a)'
        BY <1>1, <1>2, <1>3, <2>1 DEF KeptFor, SavedIsNewest, FileIsNewest
    <2> QED
        BY <2>2, <2>3, <2>4 DEF KeptFor
<1> QED
    BY <1>4, <1>5 DEF NewestIsKept

LEMMA SaveStep ==
    ASSUME FileTypeOK, TokensInv, NEW x \in Renewers,
           WriteEnv(x) \/ OpenEnv(x) \/ EnvWritten(x)
    PROVE  TokensInv'
<1> USE EnvFacts
<1>0. of[x] = "env"
    BY DEF TokensInv, TokensTypeOK, WriteEnv, OpenEnv, EnvWritten, Has
<1>1. UNCHANGED twitch /\ NewestIsRefreshable'
    BY DEF WriteEnv, OpenEnv, EnvWritten, twitch, TokensInv, NewestIsRefreshable
<1>2. CASE WriteEnv(x)
    <2>1. TokensTypeOK'
        <3>1. /\ label[x] = "save" /\ label' = [label EXCEPT ![x] = "open"]
              /\ stage' = stage /\ news' = news /\ UNCHANGED twitch
              /\ excused' = excused \/ excused' = Accounts
              /\ of' = [of EXCEPT ![x] = "env"] /\ DOMAIN of = Actors
            BY <1>2 DEF WriteEnv, Load, Has, GoOn, FileTypeOK
        <3>2. label' \in [Renewers -> Labels]
            BY <3>1 DEF TokensInv, TokensTypeOK, Labels
        <3>3. \A y \in Renewers : /\ label'[y] # "off" => of'[y] = "env"
                                  /\ label'[y] \notin {"save", "open", "write"} => Held(y)' = {}
            BY <3>1 DEF TokensInv, TokensTypeOK, Held
        <3>4. label'[Bot] \in {"off", "validate", "refresh"} => stage'[Bot] \in Accounts
            BY <3>1 DEF TokensInv, TokensTypeOK
        <3> QED
            BY <3>1, <3>2, <3>3, <3>4 DEF TokensInv, TokensTypeOK, twitch
    <2> QED
        BY <1>1, <1>2, <2>1, WriteEnvKeepsNewest DEF TokensInv
<1>3. CASE OpenEnv(x)
    <2>1. TokensTypeOK'
        BY <1>3 DEF TokensInv, TokensTypeOK, FileTypeOK, Labels, OpenEnv, Open, Has, GoOn, Held, twitch
    <2>2. SavesApart' /\ NewestIsKept'
        <3>1. /\ \A y \in Renewers : Saving(y)' => Saving(y)
              /\ copy' = copy /\ news' = news /\ excused' = excused /\ issued' = issued
              /\ \A y \in Renewers : Held(y)' = Held(y)
              /\ file'["env"] = file["env"] \/ file'["env"] = Torn
            BY <1>0, <1>3 DEF TokensInv, TokensTypeOK, FileTypeOK, OpenEnv, Open, Has, GoOn, Held,
                              Saving, twitch
        <3>2. excused' \subseteq Accounts
            BY <3>1 DEF TokensInv, TokensTypeOK
        <3> QED
            BY <3>1, <3>2, NewestStays
    <2> QED
        BY <1>1, <2>1, <2>2 DEF TokensInv
<1>4. CASE EnvWritten(x)
    <2>1. TokensTypeOK'
        <3>1. /\ of' = of /\ excused' = excused /\ issued' = issued /\ refreshable' = refreshable
              /\ news' = [news EXCEPT ![x] = Nothing]
            BY <1>4 DEF EnvWritten, Keep, twitch
        <3>2. /\ stage' \in [Renewers -> Accounts \cup {"id"}]
              /\ stage'[Script] \in Accounts
              /\ stage'[Bot] = stage[Bot]
              /\ \E l \in {"reload", "authorise", "done"} : label' = [label EXCEPT ![x] = l]
            BY <1>4 DEF EnvWritten, NextAccount, GoOn, TokensInv, TokensTypeOK, Accounts
        <3>3. PICK l \in {"reload", "authorise", "done"} : label' = [label EXCEPT ![x] = l]
            BY <3>2
        <3>4. label' \in [Renewers -> Labels] /\ DOMAIN news' = Renewers
            BY <3>1, <3>3 DEF TokensInv, TokensTypeOK, Labels
        <3>5. ASSUME NEW y \in Renewers
              PROVE  /\ DOMAIN news'[y] \in SUBSET PartsOf["env"]
                     /\ news'[y] \in [DOMAIN news'[y] -> Values]
                     /\ label'[y] # "off" => of'[y] = "env"
                     /\ label'[y] \notin {"save", "open", "write"} => Held(y)' = {}
            <4>1. CASE y = x
                BY <4>1, <1>0, <3>1, <3>3 DEF TokensInv, TokensTypeOK, Nothing, Held
            <4>2. CASE y # x
                BY <4>2, <3>1, <3>3 DEF TokensInv, TokensTypeOK, Held
            <4> QED
                BY <4>1, <4>2
        <3>6. label'[Bot] \in {"off", "validate", "refresh"} => stage'[Bot] \in Accounts
            BY <3>2, <3>3 DEF TokensInv, TokensTypeOK
        <3> QED
            BY <3>1, <3>2, <3>4, <3>5, <3>6 DEF TokensInv, TokensTypeOK
    <2> QED
        BY <1>0, <1>1, <1>4, <2>1, EnvWrittenKeepsNewest DEF TokensInv
<1> QED
    BY <1>2, <1>3, <1>4

\* A program that fails to save, or ends, keeps what is excused apart.
LEMMA LossStep ==
    ASSUME FileTypeOK, TokensInv, NEW x \in Renewers, EnvNotWritten(x) \/ End(x)
    PROVE  TokensInv'
<1> USE EnvFacts
<1>0. of[x] = "env"
    BY DEF EnvNotWritten, End, Has, TokensInv, TokensTypeOK
<1>1. /\ news' = [news EXCEPT ![x] = Nothing] /\ excused' = excused \cup Held(x)
      /\ UNCHANGED twitch
      /\ \E l \in {"reload", "off"} :
             /\ label' = [label EXCEPT ![x] = l]
             /\ l = "reload" => of' = of
             /\ l = "off" => stage' = [stage EXCEPT ![x] = "BOT"]
      /\ stage' = stage \/ stage' = [stage EXCEPT ![x] = "BOT"]
    BY DEF EnvNotWritten, End, GoOn, Keep, fileVars
<1>2. /\ \A y \in Renewers \ {x} : of'[y] = of[y] /\ copy'[y] = copy[y]
      /\ file'["env"] = file["env"] \/ file'["env"] = Torn
    <2>1. CASE End(x)
        BY <2>1 DEF End, Forget
    <2>2. CASE EnvNotWritten(x) /\ UNCHANGED fileVars
        BY <2>2 DEF fileVars
    <2>3. CASE Forget({x})
        BY <2>3 DEF Forget
    <2>4. CASE WriteBreaks(x) /\ (Keep(x) \/ Close(x))
        <3>1. file'["env"] = Torn
            BY <1>0, <2>4 DEF WriteBreaks, FileTypeOK
        <3>2. \A y \in Renewers \ {x} : of'[y] = of[y] /\ copy'[y] = copy[y]
            <4>1. x \in Actors /\ \A y \in Renewers : y \in Actors
                OBVIOUS
            <4> QED
                BY <2>4, <4>1, OthersAreLeftAlone DEF SameFor
        <3> QED
            BY <3>1, <3>2
    <2> QED
        BY <2>1, <2>2, <2>3, <2>4 DEF EnvNotWritten
<1>3. NewestIsRefreshable'
    BY <1>1 DEF NewestIsRefreshable, twitch, TokensInv
<1>4. TokensTypeOK'
    <2>1. label[x] # "off" /\ Held(x)' = {} /\ news'[x] = Nothing
        BY <1>1 DEF EnvNotWritten, End, Has, Held, Nothing, TokensInv, TokensTypeOK
    <2>2. PICK l \in {"reload", "off"} :
              /\ label' = [label EXCEPT ![x] = l] /\ (l = "reload" => of' = of)
              /\ l = "off" => stage' = [stage EXCEPT ![x] = "BOT"]
        BY <1>1
    <2>3. label' \in [Renewers -> Labels] /\ DOMAIN news' = Renewers
        BY <1>1, <2>2 DEF TokensInv, TokensTypeOK, Labels
    <2>4. ASSUME NEW y \in Renewers
          PROVE  /\ DOMAIN news'[y] \in SUBSET PartsOf["env"]
                 /\ news'[y] \in [DOMAIN news'[y] -> Values]
                 /\ label'[y] # "off" => of'[y] = "env"
                 /\ label'[y] \notin {"save", "open", "write"} => Held(y)' = {}
        <3>1. CASE y = x
            BY <3>1, <2>1, <2>2 DEF TokensInv, TokensTypeOK, Nothing
        <3>2. CASE y # x
            BY <3>2, <1>1, <1>2, <2>2 DEF TokensInv, TokensTypeOK, Held
        <3> QED
            BY <3>1, <3>2
    <2>5. /\ stage' \in [Renewers -> Accounts \cup {"id"}] /\ stage'[Script] \in Accounts
          /\ label'[Bot] \in {"off", "validate", "refresh"} => stage'[Bot] \in Accounts
        <3>1. "BOT" \in Accounts
            BY DEF Accounts
        <3>2. CASE stage' = stage /\ l = "reload"
            BY <2>2, <3>2 DEF TokensInv, TokensTypeOK
        <3>3. CASE stage' = [stage EXCEPT ![x] = "BOT"]
            BY <2>2, <3>1, <3>3 DEF TokensInv, TokensTypeOK
        <3> QED
            BY <1>1, <2>2, <3>2, <3>3
    <2>6. excused' \subseteq Accounts /\ issued' = issued /\ refreshable' = refreshable
        BY <1>1 DEF TokensInv, TokensTypeOK, Held, twitch
    <2> QED
        BY <2>3, <2>4, <2>5, <2>6 DEF TokensInv, TokensTypeOK
<1>5. SavesApart' /\ NewestIsKept'
    <2>1. DOMAIN news = Renewers /\ DOMAIN label = Renewers /\ excused' \subseteq Accounts
        BY <1>1 DEF TokensInv, TokensTypeOK, Held
    <2>2. /\ \A y \in Renewers \ {x} : news'[y] = news[y] /\ label'[y] = label[y]
          /\ news'[x] = Nothing /\ label'[x] \in {"reload", "off"}
        BY <1>1, <2>1
    <2>3. \A a \in Accounts \ excused' :
              \A y \in Renewers : /\ a \in Held(y)' <=> a \in Held(y)
                                  /\ a \in Held(y) => news'[y][a] = news[y][a]
        <3>1. ASSUME NEW a \in Accounts \ excused' PROVE a \notin Held(x)
            BY <1>1, <3>1
        <3>2. Held(x)' = {} /\ \A y \in Renewers \ {x} : Held(y)' = Held(y)
            BY <2>2 DEF Held, Nothing
        <3> QED
            BY <2>2, <3>1, <3>2
    <2>4. \A y \in Renewers :
              Saving(y)' => Saving(y) /\ \A a \in Accounts : copy'[y][a] = copy[y][a]
        BY <1>2, <2>2 DEF Saving
    <2>5. issued' = issued /\ excused \subseteq excused'
        BY <1>1 DEF twitch
    <2> QED
        BY <1>2, <2>1, <2>3, <2>4, <2>5, NewestStays
<1> QED
    BY <1>3, <1>4, <1>5 DEF TokensInv

LEMMA NextPairIsValue ==
    ASSUME NEW a \in Accounts, issued \in [Accounts -> Nat], Issue(a)
    PROVE  issued[a] + 1 \in Values /\ issued[a] + 1 \in Nat
<1>1. issued["BOT"] \in Nat /\ issued["CHANNEL"] \in Nat /\ (a = "BOT" \/ a = "CHANNEL")
    BY DEF Accounts
<1>2. MaxIssued \in Nat /\ 0 .. MaxIssued \subseteq Values
    BY TokensAssumption
<1>3. issued["BOT"] + issued["CHANNEL"] < MaxIssued
    BY DEF Issue
<1>4. issued[a] + 1 \in 0 .. MaxIssued
    BY <1>1, <1>2, <1>3
<1> QED
    BY <1>1, <1>2, <1>4

LEMMA IssueFacts ==
    ASSUME NEW a \in Accounts, issued \in [Accounts -> Nat], DOMAIN refreshable = Accounts, Issue(a)
    PROVE  /\ issued' \in [Accounts -> Nat] /\ DOMAIN refreshable' = Accounts
           /\ issued' = [issued EXCEPT ![a] = issued[a] + 1]
           /\ issued[a] + 1 \in refreshable'[a]
           /\ \A b \in Accounts \ {a} : refreshable'[b] = refreshable[b]
<1>1. issued[a] + 1 \in Nat
    BY NextPairIsValue
<1> QED
    BY <1>1 DEF Issue

\* All other steps: programs look, start, ask Twitch, read .env.
LEMMA ReceiveStep ==
    ASSUME FileTypeOK, TokensInv, Refreshed \/ Authorised
    PROVE  TokensInv'
<1> USE EnvFacts
<1>1. PICK x \in Renewers, a \in Accounts :
          /\ label[x] \in {"refresh", "authorise"} /\ Receive(x, a)
          /\ UNCHANGED <<fileVars, stage>>
    BY DEF Refreshed, Authorised, Has, TokensInv, TokensTypeOK
<1>2. ~Saving(x) /\ Held(x) = {} /\ UNCHANGED <<file, copy>>
    BY <1>1 DEF Saving, TokensInv, TokensTypeOK, fileVars
<1>3. NewestIsRefreshable' /\ SavesApart' /\ NewestIsKept'
    BY <1>1, <1>2, ReceiveKeepsNewest
<1>4. TokensTypeOK'
    <2>1. /\ issued["BOT"] + issued["CHANNEL"] < MaxIssued
          /\ issued' = [issued EXCEPT ![a] = @ + 1]
          /\ \E kept : refreshable' = [refreshable EXCEPT ![a] = kept]
          /\ news' = [news EXCEPT ![x] = Fact(a, issued[a] + 1)]
          /\ label' = [label EXCEPT ![x] = "save"]
          /\ excused' \subseteq excused \cup {a}
          /\ of' = of /\ stage' = stage
        BY <1>1 DEF Receive, Issue, Got, GoOn, fileVars
    <2>2. issued[a] + 1 \in Values
        BY <1>1, NextPairIsValue DEF Receive, TokensInv, TokensTypeOK
    <2>3. /\ DOMAIN Fact(a, issued[a] + 1) = {a}
          /\ Fact(a, issued[a] + 1) \in [{a} -> Values]
        BY <2>2 DEF Fact
    <2>4. ASSUME NEW y \in Renewers
          PROVE  /\ DOMAIN news'[y] \in SUBSET PartsOf["env"]
                 /\ news'[y] \in [DOMAIN news'[y] -> Values]
                 /\ label'[y] # "off" => of'[y] = "env"
                 /\ label'[y] \notin {"save", "open", "write"} => Held(y)' = {}
        <3>1. CASE y = x
            <4>0. x \in DOMAIN news /\ x \in DOMAIN label
                BY DEF TokensInv, TokensTypeOK
            <4>1. news'[y] = Fact(a, issued[a] + 1) /\ label'[y] = "save"
                BY <4>0, <3>1, <2>1
            <4>2. of'[y] = "env"
                BY <3>1, <1>1, <2>1 DEF TokensInv, TokensTypeOK
            <4>3. DOMAIN news'[y] = {a} /\ news'[y] \in [{a} -> Values]
                BY <4>1, <2>3
            <4>4. news'[y] \in [DOMAIN news'[y] -> Values] /\ {a} \in SUBSET PartsOf["env"]
                BY <4>3
            <4> QED
                BY <4>1, <4>2, <4>3, <4>4
        <3>2. CASE y # x
            BY <3>2, <2>1 DEF TokensInv, TokensTypeOK, Held
        <3> QED
            BY <3>1, <3>2
    <2>5. issued' \in [Accounts -> Nat] /\ DOMAIN refreshable' = Accounts /\ excused' \subseteq Accounts
        BY <1>1, <2>1, IssueFacts DEF Receive, TokensInv, TokensTypeOK
    <2>6. /\ label' \in [Renewers -> Labels] /\ DOMAIN news' = Renewers
          /\ label'[Bot] \in {"off", "validate", "refresh"} => stage'[Bot] \in Accounts
        BY <2>1 DEF TokensInv, TokensTypeOK, Labels
    <2> QED
        BY <2>1, <2>4, <2>5, <2>6 DEF TokensInv, TokensTypeOK
<1> QED
    BY <1>3, <1>4 DEF TokensInv

\* A lost pair changes what is known of its account only, which is excused.
LEMMA MissFacts ==
    ASSUME TokensInv, NEW a \in Accounts, Miss(a)
    PROVE  /\ issued' \in [Accounts -> Nat] /\ DOMAIN refreshable' = Accounts
           /\ excused \subseteq excused' /\ excused' \subseteq Accounts
           /\ \A b \in Accounts \ excused' : issued'[b] = issued[b]
           /\ NewestIsRefreshable'
<1>1. issued \in [Accounts -> Nat] /\ DOMAIN refreshable = Accounts /\ excused \subseteq Accounts
    BY DEF TokensInv, TokensTypeOK
<1>2. Issue(a) /\ excused' = excused \cup {a}
    BY DEF Miss
<1>3. /\ issued' \in [Accounts -> Nat] /\ DOMAIN refreshable' = Accounts
      /\ issued' = [issued EXCEPT ![a] = issued[a] + 1]
      /\ issued[a] + 1 \in refreshable'[a]
      /\ \A b \in Accounts \ {a} : refreshable'[b] = refreshable[b]
    BY <1>1, <1>2, IssueFacts
<1>4. issued'[a] = issued[a] + 1 /\ \A b \in Accounts \ {a} : issued'[b] = issued[b]
    BY <1>1, <1>3
<1>5. ASSUME NEW b \in Accounts, issued'[b] # 0 PROVE issued'[b] \in refreshable'[b]
    <2>1. CASE b = a
        BY <2>1, <1>3, <1>4
    <2>2. CASE b # a
        <3>1. issued[b] \in refreshable[b]
            BY <2>2, <1>4, <1>5 DEF TokensInv, NewestIsRefreshable
        <3> QED
            BY <3>1, <2>2, <1>3, <1>4
    <2> QED
        BY <2>1, <2>2
<1> QED
    BY <1>1, <1>2, <1>3, <1>4, <1>5 DEF NewestIsRefreshable

\* Looking, reading and missing.
LEMMA QuietStep ==
    ASSUME FileTypeOK, TokensInv, NEW x \in Renewers, NEW l \in Labels \ {"open", "write"},
           label[x] \notin {"save", "open", "write"},
           label' = [label EXCEPT ![x] = l],
           stage' \in [Renewers -> Accounts \cup {"id"}], stage'[Script] \in Accounts,
           label'[Bot] \in {"off", "validate", "refresh"} => stage'[Bot] \in Accounts,
           file' = file,
           \A y \in Renewers \ {x} : of'[y] = of[y] /\ copy'[y] = copy[y],
           of'[x] = "env",
           \/ news' = news
           \/ \E p \in PartsOf["env"] \ Accounts : news' = [news EXCEPT ![x] = Fact(p, 1)],
           \/ UNCHANGED <<twitch, excused>>
           \/ \E a \in Accounts : Miss(a)
    PROVE  TokensInv'
<1> USE EnvFacts
<1>1. /\ DOMAIN news = Renewers /\ DOMAIN label = Renewers /\ excused \subseteq Accounts
      /\ issued \in [Accounts -> Nat] /\ DOMAIN refreshable = Accounts
      /\ Held(x) = {} /\ ~Saving(x)
    BY DEF TokensInv, TokensTypeOK, Saving
<1>2. /\ issued' \in [Accounts -> Nat] /\ DOMAIN refreshable' = Accounts
      /\ excused \subseteq excused' /\ excused' \subseteq Accounts
      /\ \A a \in Accounts \ excused' : issued'[a] = issued[a]
      /\ NewestIsRefreshable'
    <2>1. CASE UNCHANGED <<twitch, excused>>
        BY <1>1, <2>1 DEF twitch, NewestIsRefreshable, TokensInv
    <2>2. CASE \E a \in Accounts : Miss(a)
        BY <2>2, MissFacts
    <2> QED
        BY <2>1, <2>2
<1>4. /\ \A y \in Renewers \ {x} : news'[y] = news[y]
      /\ news'[x] = news[x] \/ \E p \in PartsOf["env"] \ Accounts : news'[x] = Fact(p, 1)
      /\ DOMAIN news' = Renewers
    BY <1>1
<1>5. \A p \in PartsOf["env"] \ Accounts :
          /\ DOMAIN Fact(p, 1) = {p} /\ Fact(p, 1) \in [{p} -> Values]
          /\ DOMAIN Fact(p, 1) \cap Accounts = {}
    BY DEF Fact
<1>6. \A y \in Renewers : Held(y)' = Held(y) /\ (Held(y) # {} => news'[y] = news[y])
    BY <1>1, <1>4, <1>5 DEF Held
<1>7. \A y \in Renewers : Saving(y)' => Saving(y) /\ y # x
    BY <1>1 DEF Saving
<1>8. SavesApart' /\ NewestIsKept'
    BY <1>2, <1>6, <1>7, NewestStays
<1>9. TokensTypeOK'
    <2>1. ASSUME NEW y \in Renewers
          PROVE  /\ DOMAIN news'[y] \in SUBSET PartsOf["env"]
                 /\ news'[y] \in [DOMAIN news'[y] -> Values]
                 /\ label'[y] # "off" => of'[y] = "env"
                 /\ label'[y] \notin {"save", "open", "write"} => Held(y)' = {}
        <3>1. CASE y = x
            <4>1. /\ DOMAIN news'[x] \in SUBSET PartsOf["env"]
                  /\ news'[x] \in [DOMAIN news'[x] -> Values]
                <5>1. CASE news'[x] = news[x]
                    BY <5>1 DEF TokensInv, TokensTypeOK
                <5>2. CASE \E p \in PartsOf["env"] \ Accounts : news'[x] = Fact(p, 1)
                    <6>1. PICK p \in PartsOf["env"] \ Accounts : news'[x] = Fact(p, 1)
                        BY <5>2
                    <6>2. DOMAIN Fact(p, 1) = {p} /\ Fact(p, 1) \in [{p} -> Values]
                        BY <1>5
                    <6> QED
                        BY <6>1, <6>2
                <5> QED
                    BY <5>1, <5>2, <1>4
            <4>2. Held(x)' = {}
                BY <1>1, <1>6
            <4>3. of'[x] = "env"
                OBVIOUS
            <4> QED
                BY <3>1, <4>1, <4>2, <4>3
        <3>2. CASE y # x
            BY <3>2, <1>4, <1>6 DEF TokensInv, TokensTypeOK
        <3> QED
            BY <3>1, <3>2
    <2>2. label' \in [Renewers -> Labels]
        BY DEF TokensInv, TokensTypeOK
    <2> QED
        BY <1>2, <1>4, <2>1, <2>2 DEF TokensInv, TokensTypeOK
<1> QED
    BY <1>2, <1>8, <1>9 DEF TokensInv

\* The bot's step to its next check.
LEMMA BotGoesOn ==
    ASSUME TokensTypeOK, NEW l \in Labels,
           label' = [label EXCEPT ![Bot] = l],
           \/ NextStage
           \/ UNCHANGED stage /\ l \notin {"off", "validate", "refresh"}
           \/ UNCHANGED stage /\ label[Bot] \in {"off", "validate", "refresh"}
           \/ UNCHANGED stage /\ stage[Bot] \in Accounts
    PROVE  /\ stage' \in [Renewers -> Accounts \cup {"id"}]
           /\ stage'[Script] \in Accounts
           /\ label'[Bot] \in {"off", "validate", "refresh"} => stage'[Bot] \in Accounts
<1> USE EnvFacts
<1>1. stage \in [Renewers -> Accounts \cup {"id"}] /\ stage[Script] \in Accounts
      /\ DOMAIN label = Renewers
    BY DEF TokensTypeOK
<1>2. CASE NextStage
    <2>1. stage' = [stage EXCEPT ![Bot] = IF @ = "BOT" THEN "CHANNEL" ELSE "id"]
        BY <1>2 DEF NextStage
    <2>2. label'[Bot] = CASE stage[Bot] = "BOT" -> "validate"
                          [] stage[Bot] = "CHANNEL" -> "fetch"
                          [] OTHER -> "done"
        BY <1>1, <1>2 DEF NextStage, GoOn
    <2> QED
        BY <1>1, <2>1, <2>2 DEF Accounts
<1>3. CASE UNCHANGED stage
    <2>1. label'[Bot] = l
        BY <1>1
    <2>2. label[Bot] \in {"off", "validate", "refresh"} => stage[Bot] \in Accounts
        BY DEF TokensTypeOK
    <2>3. CASE NextStage
        BY <1>2, <2>3
    <2> QED
        BY <1>1, <1>3, <2>1, <2>2, <2>3
<1> QED
    BY <1>2, <1>3

\* A step of x that reads .env, or nothing.
Look(x) == (\E changes \in {Nothing} : Load(x, "env", changes)) \/ UNCHANGED fileVars

LEMMA LookFacts ==
    ASSUME FileTypeOK, NEW x \in Renewers, Look(x)
    PROVE  /\ file' = file
           /\ \A y \in Renewers \ {x} : of'[y] = of[y] /\ copy'[y] = copy[y]
           /\ label[x] # "off" /\ TokensTypeOK => of'[x] = "env"
           /\ Load(x, "env", Nothing) => of'[x] = "env"
<1> USE EnvFacts
<1>1. x \in Actors /\ of \in [Actors -> Files \cup {NoFile}] /\ DOMAIN copy = Actors
    BY DEF FileTypeOK
<1>2. CASE Load(x, "env", Nothing)
    BY <1>1, <1>2 DEF Load
<1>3. CASE UNCHANGED fileVars
    <2>1. file' = file /\ of' = of /\ copy' = copy
        BY <1>3 DEF fileVars
    <2>2. Load(x, "env", Nothing) => of'[x] = "env"
        BY <1>1 DEF Load
    <2> QED
        BY <2>1, <2>2 DEF TokensTypeOK
<1> QED
    BY <1>2, <1>3 DEF Look

LEMMA BotQuiet ==
    ASSUME FileTypeOK, TokensInv, NEW l \in Labels \ {"open", "write"},
           label[Bot] \notin {"save", "open", "write"},
           label' = [label EXCEPT ![Bot] = l],
           \/ NextStage
           \/ UNCHANGED stage /\ l \notin {"off", "validate", "refresh"}
           \/ UNCHANGED stage /\ label[Bot] \in {"off", "validate", "refresh"}
           \/ UNCHANGED stage /\ stage[Bot] \in Accounts,
           Look(Bot), label[Bot] # "off" \/ Load(Bot, "env", Nothing),
           \/ news' = news
           \/ \E p \in PartsOf["env"] \ Accounts : news' = [news EXCEPT ![Bot] = Fact(p, 1)],
           \/ UNCHANGED <<twitch, excused>>
           \/ \E a \in Accounts : Miss(a)
    PROVE  TokensInv'
<1>1. TokensTypeOK /\ Bot \in Renewers
    BY EnvFacts DEF TokensInv
<1>2. /\ stage' \in [Renewers -> Accounts \cup {"id"}]
      /\ stage'[Script] \in Accounts
      /\ label'[Bot] \in {"off", "validate", "refresh"} => stage'[Bot] \in Accounts
    BY <1>1, BotGoesOn
<1>3. /\ file' = file
      /\ \A y \in Renewers \ {Bot} : of'[y] = of[y] /\ copy'[y] = copy[y]
      /\ of'[Bot] = "env"
    BY <1>1, LookFacts
<1> QED
    BY <1>1, <1>2, <1>3, QuietStep

LEMMA ScriptQuiet ==
    ASSUME FileTypeOK, TokensInv, NEW l \in {"authorise", "done"},
           label[Script] \in {"off", "authorise"},
           label' = [label EXCEPT ![Script] = l],
           stage' = stage \/ \E a \in Accounts : stage' = [stage EXCEPT ![Script] = a],
           Look(Script), label[Script] # "off" \/ Load(Script, "env", Nothing),
           news' = news,
           \/ UNCHANGED <<twitch, excused>>
           \/ \E a \in Accounts : Miss(a)
    PROVE  TokensInv'
<1>1. TokensTypeOK /\ Script \in Renewers /\ Bot \in Renewers /\ Bot # Script
    BY EnvFacts DEF TokensInv
<1>2. stage'[Bot] = stage[Bot] /\ label'[Bot] = label[Bot]
      /\ stage' \in [Renewers -> Accounts \cup {"id"}] /\ stage'[Script] \in Accounts
    BY <1>1 DEF TokensTypeOK
<1>3. label'[Bot] \in {"off", "validate", "refresh"} => stage'[Bot] \in Accounts
    BY <1>2 DEF TokensInv, TokensTypeOK
<1>4. /\ file' = file
      /\ \A y \in Renewers \ {Script} : of'[y] = of[y] /\ copy'[y] = copy[y]
      /\ of'[Script] = "env"
    BY <1>1, LookFacts
<1>5. l \in Labels \ {"open", "write"} /\ label[Script] \notin {"save", "open", "write"}
    BY DEF Labels
<1> QED
    BY <1>1, <1>2, <1>3, <1>4, <1>5, QuietStep

LEMMA WritesBesideStep ==
    ASSUME FileTypeOK, TokensInv, NEW x \in Renewers, EnvWritesBeside(x)
    PROVE  TokensInv'
<1>1. /\ UNCHANGED tokenVars /\ copy' = copy /\ of' = of
      /\ file'["env"] = file["env"] \/ file'["env"] = Torn
    BY EnvFacts DEF EnvWritesBeside, WriteSome, FileTypeOK
<1>2. TokensTypeOK' /\ NewestIsRefreshable'
    BY <1>1 DEF tokenVars, twitch, TokensInv, TokensTypeOK, NewestIsRefreshable, Held
<1>3. SavesApart' /\ NewestIsKept'
    BY <1>1, NewestStays DEF tokenVars, twitch, TokensInv, TokensTypeOK, Saving, Held
<1> QED
    BY <1>2, <1>3 DEF TokensInv

LEMMA TokensStep ==
    FileTypeOK /\ TokensInv /\ [TokensNext]_<<fileVars, tokenVars>> => TokensInv'
<1> SUFFICES ASSUME FileTypeOK, TokensInv, [TokensNext]_<<fileVars, tokenVars>> PROVE TokensInv'
    OBVIOUS
<1>0. /\ TokensTypeOK /\ Bot \in Renewers /\ Script \in Renewers /\ Bot # Script
      /\ label \in [Renewers -> Labels]
    BY EnvFacts DEF TokensInv, TokensTypeOK
<1>S. ASSUME NextStage
      PROVE  \E l \in Labels \ {"open", "write"} : label' = [label EXCEPT ![Bot] = l]
    BY <1>S DEF NextStage, GoOn, Labels
<1>1. ASSUME NEW x \in Renewers, WriteEnv(x) \/ OpenEnv(x) \/ EnvWritten(x) PROVE TokensInv'
    BY <1>1, SaveStep
<1>2. ASSUME NEW x \in Renewers, EnvNotWritten(x) \/ End(x) PROVE TokensInv'
    BY <1>2, LossStep
<1>3. CASE Refreshed \/ Authorised
    BY <1>3, ReceiveStep
<1>4. CASE StartBot
    <2>1. /\ label[Bot] = "off" /\ stage[Bot] \in Accounts
          /\ Load(Bot, "env", Nothing) /\ Look(Bot) /\ UNCHANGED <<twitch, excused>>
          /\ UNCHANGED stage /\ news' = news
        BY <1>0, <1>4 DEF StartBot, Has, Look, twitch, TokensTypeOK
    <2>0. \/ label' = [label EXCEPT ![Bot] = "done"]
          \/ label' = [label EXCEPT ![Bot] = "validate"]
        BY <1>4 DEF StartBot, GoOn
    <2>2. PICK l \in Labels \ {"open", "write"} : label' = [label EXCEPT ![Bot] = l]
        BY <2>0 DEF Labels
    <2>3. \/ NextStage
          \/ UNCHANGED stage /\ l \notin {"off", "validate", "refresh"}
          \/ UNCHANGED stage /\ label[Bot] \in {"off", "validate", "refresh"}
          \/ UNCHANGED stage /\ stage[Bot] \in Accounts
        BY <2>1
    <2> QED
        BY <2>1, <2>2, <2>3, BotQuiet
<1>5. CASE Validated
    <2>1. /\ label[Bot] = "validate" /\ stage[Bot] \in Accounts
          /\ UNCHANGED fileVars /\ UNCHANGED <<twitch, excused>>
        BY <1>0, <1>5 DEF Validated, Has, TokensTypeOK
    <2>2. CASE NextStage /\ UNCHANGED news
        BY <1>S, <2>1, <2>2, BotQuiet DEF Look
    <2>3. CASE Got(Bot, Fact(IdOf[stage[Bot]], 1)) /\ UNCHANGED stage
        <3>1. /\ label' = [label EXCEPT ![Bot] = "save"] /\ "save" \in Labels \ {"open", "write"}
              /\ IdOf[stage[Bot]] \in PartsOf["env"] \ Accounts
              /\ news' = [news EXCEPT ![Bot] = Fact(IdOf[stage[Bot]], 1)]
            BY <2>1, <2>3, EnvFacts DEF Got, GoOn, Labels
        <3>2. \E p \in PartsOf["env"] \ Accounts : news' = [news EXCEPT ![Bot] = Fact(p, 1)]
            BY <3>1
        <3> QED
            BY <2>1, <2>3, <3>1, <3>2, BotQuiet DEF Look
    <2> QED
        BY <1>5, <2>2, <2>3 DEF Validated
<1>6. CASE NotValidated
    <2>1. /\ label[Bot] = "validate"
          /\ UNCHANGED fileVars /\ news' = news /\ UNCHANGED <<twitch, excused>>
        BY <1>6 DEF NotValidated, Has
    <2>2. CASE NextStage
        BY <1>S, <2>1, <2>2, BotQuiet DEF Look
    <2>3. CASE GoOn(Bot, "refresh") /\ UNCHANGED stage
        BY <2>1, <2>3, BotQuiet DEF Look, GoOn, Labels
    <2> QED
        BY <1>6, <2>2, <2>3 DEF NotValidated
<1>7. CASE RefreshFails
    <2>1. /\ label[Bot] = "refresh" /\ stage[Bot] \in Accounts
          /\ UNCHANGED fileVars /\ news' = news
          /\ UNCHANGED <<twitch, excused>> \/ \E a \in Accounts : Miss(a)
        BY <1>0, <1>7 DEF RefreshFails, Has, TokensTypeOK
    <2>2. CASE NextStage
        BY <1>S, <2>1, <2>2, BotQuiet DEF Look
    <2>3. CASE GoOn(Bot, "reload") /\ UNCHANGED stage
        BY <2>1, <2>3, BotQuiet DEF Look, GoOn, Labels
    <2> QED
        BY <1>7, <2>2, <2>3 DEF RefreshFails, Unrefreshed
<1>8. CASE Reload
    <2>1. /\ label[Bot] = "reload" /\ Look(Bot) /\ NextStage /\ news' = news
          /\ UNCHANGED <<twitch, excused>>
        BY <1>8 DEF Reload, Has, Look
    <2> QED
        BY <1>S, <2>1, BotQuiet
<1>9. CASE FetchId
    <2>1. label[Bot] = "fetch" /\ UNCHANGED fileVars /\ UNCHANGED <<twitch, excused>>
        BY <1>9 DEF FetchId, Has
    <2>2. CASE NextStage /\ UNCHANGED news
        BY <1>S, <2>1, <2>2, BotQuiet DEF Look
    <2>3. CASE Got(Bot, Fact("CHANNEL id", 1)) /\ UNCHANGED stage
        <3>1. /\ label' = [label EXCEPT ![Bot] = "save"] /\ "save" \in Labels \ {"open", "write"}
              /\ \E p \in PartsOf["env"] \ Accounts : news' = [news EXCEPT ![Bot] = Fact(p, 1)]
            BY <2>3, EnvFacts DEF Got, GoOn, Labels
        <3> QED
            BY <2>1, <2>3, <3>1, BotQuiet DEF Look
    <2> QED
        BY <1>9, <2>2, <2>3 DEF FetchId
<1>10. CASE StartScript
    BY <1>10, ScriptQuiet DEF StartScript, Look, Has, GoOn, twitch
<1>11. CASE NotAuthorised
    <2>1. PICK l \in {"authorise", "done"} :
              /\ label' = [label EXCEPT ![Script] = l]
              /\ stage' = stage \/ stage' = [stage EXCEPT ![Script] = "CHANNEL"]
        BY <1>11 DEF NotAuthorised, NextAccount, GoOn
    <2>2. stage' = stage \/ \E a \in Accounts : stage' = [stage EXCEPT ![Script] = a]
        BY <2>1 DEF Accounts
    <2> QED
        BY <1>11, <2>1, <2>2, ScriptQuiet DEF NotAuthorised, Look, Has
<1>12. CASE ExchangeRaises
    <2>1. /\ label[Script] = "authorise" /\ label' = [label EXCEPT ![Script] = "authorise"]
          /\ \E a \in Accounts : Miss(a)
        BY <1>0, <1>12 DEF ExchangeRaises, Has, TokensTypeOK
    <2> QED
        BY <1>12, <2>1, ScriptQuiet DEF ExchangeRaises, Look
<1>13. CASE UNCHANGED <<fileVars, tokenVars>>
    BY <1>13 DEF fileVars, tokenVars, twitch, TokensInv, TokensTypeOK, NewestIsRefreshable, SavesApart,
                 NewestIsKept, Saving, Held, KeptFor, HeldIsNewest, OneHolder, SavedIsNewest, FileIsNewest
<1>14. ASSUME NEW x \in Renewers, EnvWritesBeside(x) PROVE TokensInv'
    BY <1>14, WritesBesideStep
<1> QED
    BY <1>1, <1>2, <1>3, <1>4, <1>5, <1>6, <1>7, <1>8, <1>9, <1>10, <1>11, <1>12, <1>13, <1>14
       DEF TokensNext

LEMMA TokensInvariant == TokensSpec => [](FileInv /\ TokensInv)
<1>1. FileInit /\ TokensInit => FileInv /\ TokensInv
    BY FileInitially, TokensInitially
<1>2. FileInv /\ TokensInv /\ [TokensNext]_<<fileVars, tokenVars>> => (FileInv /\ TokensInv)'
    <2> SUFFICES ASSUME FileInv, TokensInv, [TokensNext]_<<fileVars, tokenVars>>
                 PROVE  FileInv' /\ TokensInv'
        OBVIOUS
    <2>1. FileTypeOK /\ TokensTypeOK
        BY DEF FileInv, TokensInv
    <2>2. [FileNext]_fileVars
        BY <2>1, TokensStepIsFileStep
    <2> QED
        BY <2>1, <2>2, FileStep, TokensStep
<1> QED
    BY <1>1, <1>2, PTL DEF TokensSpec

\* What the startup checks of the bot and the script do with .env
\* (TwitchSettings.write_env) loses nothing of what the other has saved there.
THEOREM TokensFileKeepsEverything == TokensSpec => []EditsSurvive
<1>1. FileInv => EditsSurvive
    BY DEF FileInv
<1> QED
    BY <1>1, TokensInvariant, PTL

\* The pair in .env can be refreshed: it is the newest one of every account that
\* is not excused.
THEOREM TokensStayRefreshable == TokensSpec => []RefreshableKept
<1>1. FileInv /\ TokensInv => RefreshableKept
    BY DEF TokensInv, NewestIsKept, KeptFor, FileIsNewest, NewestIsRefreshable, RefreshableKept, Readable
<1> QED
    BY <1>1, TokensInvariant, PTL
=============================================================================
