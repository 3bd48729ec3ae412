----------------------------- MODULE SharedFile -----------------------------
(***************************************************************************)
(* How this program changes a text file that other programs change, too:     *)
(* read all of it, change some parts of what was read, open the file for      *)
(* writing, which truncates it, and write everything back.  load_settings    *)
(* and save_settings (settings.py) do this for settings.json, the two web UIs *)
(* for Stream_Pet.json, TwitchSettings.write_env for .env.  Nobody locks.    *)
(*                                                                         *)
(* The actions are parameterised by who takes them; ConfigFiles and           *)
(* EnvTokens say which program does so when.  A file is a function from its   *)
(* parts (what is edited apart) to values, 0 where there is none.            *)
(*                                                                         *)
(* Abstraction: the texts of two who have a file open for writing together    *)
(* may mix, and a mix may even be one that parses (.env with a last line of   *)
(* the longer text).  Torn stands for that, too: no property speaks of such a *)
(* file, then or later.                                                      *)
(***************************************************************************)
EXTENDS Naturals

CONSTANTS
    Files,      \* names of the files
    PartsOf,    \* PartsOf[f]: the parts of f
    Lenient,    \* the files that read as empty if they cannot be parsed
    Actors,     \* threads, programs and pages that hold a copy of a file
    Values,     \* values of a part
    First,      \* First[f]: what f may hold at first
    WritesBreak,\* a write may fail
    NoFile,     \* of[a] where a holds nothing
    Torn        \* content that cannot be parsed, or is empty

Content(f) == [PartsOf[f] -> Values]

ASSUME FilesAssumption ==
    /\ NoFile \notin Files
    /\ Lenient \subseteq Files
    /\ 0 \in Values
    /\ \A f \in Files : Torn \notin Content(f) /\ First[f] \subseteq Content(f)
    /\ WritesBreak \in BOOLEAN

VARIABLES
    file,       \* file[f]: what is in f
    of,         \* of[a]: the file of which a holds a copy
    copy,       \* copy[a]: the parts a has read
    own,        \* own[a]: the parts a has changed in its copy
    handles,    \* actors that have their file open for writing
    mixing,     \* those of them that had it open together with another
    intended,   \* intended[f]: f if every save had changed its own parts only
    outdated,   \* actors whose copy is older than the last save of its file
    careless    \* files to which an outdated copy has been saved, or which two
                \* had open for writing together (intended, outdated, careless: for
                \* the properties only)

fileVars == <<file, of, copy, own, handles, mixing, intended, outdated, careless>>

Blank(f) == [p \in PartsOf[f] |-> 0]
NoCopy   == [p \in {} |-> 0]

Readable(f)  == file[f] # Torn
Holders(f)   == {a \in Actors : of[a] = f}
Writers(f)   == {a \in handles : of[a] = f}
WithParts(content, changes) ==
    [p \in DOMAIN content |-> IF p \in DOMAIN changes THEN changes[p] ELSE content[p]]

FileInit ==
    /\ file \in [Files -> UNION {First[f] : f \in Files}]
    /\ \A f \in Files : file[f] \in First[f]
    /\ of = [a \in Actors |-> NoFile]
    /\ copy = [a \in Actors |-> NoCopy]
    /\ own = [a \in Actors |-> {}]
    /\ handles = {}
    /\ mixing = {}
    /\ intended = file
    /\ outdated = {}
    /\ careless = {}
-----------------------------------------------------------------------------
\* Mutant (EditsSurvive): settings.json, too, reads as empty if it cannot be parsed.
LoadableAlways(f) == TRUE

\* load_settings raises what json.load raises; the readers of Stream_Pet.json
\* and .env go on with an empty mapping (of a torn .env, with those lines that
\* were written; that makes no difference here).
Loadable(f) == Readable(f) \/ f \in Lenient

\* a reads f and changes some parts of what it has read.
Load(a, f, changes) ==
    /\ a \notin handles
    /\ Loadable(f)
    /\ LET content == IF Readable(f) THEN file[f] ELSE Blank(f)
       IN  copy' = [copy EXCEPT ![a] = WithParts(content, changes)]
    /\ of' = [of EXCEPT ![a] = f]
    /\ own' = [own EXCEPT ![a] = DOMAIN changes]
    /\ outdated' = IF f \in Lenient /\ ~Readable(f) THEN outdated \cup {a} ELSE outdated \ {a}
    /\ UNCHANGED <<file, handles, mixing, intended, careless>>

\* a changes its copy some time after it has read the file.
Change(a, changes) ==
    /\ of[a] # NoFile
    /\ a \notin handles
    /\ copy' = [copy EXCEPT ![a] = WithParts(@, changes)]
    /\ own' = [own EXCEPT ![a] = @ \cup DOMAIN changes]
    /\ UNCHANGED <<file, of, handles, mixing, intended, outdated, careless>>

\* open(path, "w") truncates, also what another is writing.
Open(a) ==
    LET f == of[a]
        beside == Writers(f)
    IN  /\ f # NoFile
        /\ a \notin handles
        /\ file' = [file EXCEPT ![f] = Torn]
        /\ handles' = handles \cup {a}
        /\ IF beside = {} THEN UNCHANGED <<mixing, careless>>
                         ELSE /\ mixing' = mixing \cup beside \cup {a}
                              /\ careless' = careless \cup {f}
        /\ UNCHANGED <<of, copy, own, intended, outdated>>

\* A long text is written in chunks, each at its writer's own offset: into what
\* another, who had the file open together with a, has written, or will.
WriteSome(a) ==
    /\ a \in mixing
    /\ file' = [file EXCEPT ![of[a]] = Torn]
    /\ UNCHANGED <<of, copy, own, handles, mixing, intended, outdated, careless>>

\* What the file holds after a has written its text: perhaps with what others,
\* who may have failed or ended since, have written there.
Written(a) == IF a \in mixing THEN {copy[a], Torn} ELSE {copy[a]}

\* What a holds afterwards: its copy, or nothing.
Keep(a)  == UNCHANGED <<of, copy, own>>
Close(a) ==
    /\ of' = [of EXCEPT ![a] = NoFile]
    /\ copy' = [copy EXCEPT ![a] = NoCopy]
    /\ own' = [own EXCEPT ![a] = {}]

\* The text is written and the file closed.
Write(a) ==
    LET f == of[a]
    IN  /\ a \in handles
        /\ \E w \in Written(a) : file' = [file EXCEPT ![f] = w]
        /\ handles' = handles \ {a}
        /\ mixing' = mixing \ {a}
        /\ intended' = [intended EXCEPT ![f] =
                          [p \in PartsOf[f] |-> IF p \in own[a] THEN copy[a][p] ELSE @[p]]]
        /\ outdated' = outdated \cup (Holders(f) \ {a})
        /\ careless' = IF a \in outdated THEN careless \cup {f} ELSE careless

\* Writing fails, with some of the text written, or none.
WriteBreaks(a) ==
    /\ WritesBreak
    /\ a \in handles
    /\ file' = [file EXCEPT ![of[a]] = Torn]
    /\ handles' = handles \ {a}
    /\ mixing' = mixing \ {a}
    /\ UNCHANGED <<intended, outdated, careless>>

\* The actors of S end, perhaps while they write: what they held is gone.
Forget(S) ==
    /\ of' = [a \in Actors |-> IF a \in S THEN NoFile ELSE of[a]]
    /\ copy' = [a \in Actors |-> IF a \in S THEN NoCopy ELSE copy[a]]
    /\ own' = [a \in Actors |-> IF a \in S THEN {} ELSE own[a]]
    /\ handles' = handles \ S
    /\ mixing' = mixing \ S
    /\ outdated' = outdated \ S
    /\ UNCHANGED <<file, intended, careless>>
-----------------------------------------------------------------------------
\* Any number of actors, each free in what it does next: what ConfigFiles and
\* EnvTokens are instances of.
FileNext ==
    \/ \E a \in Actors : \/ \E f \in Files : \E P \in SUBSET PartsOf[f] :
                                \E changes \in [P -> Values] : Load(a, f, changes)
                         \/ of[a] # NoFile /\ \E P \in SUBSET PartsOf[of[a]] :
                                \E changes \in [P -> Values] : Change(a, changes)
                         \/ Open(a) \/ WriteSome(a)
                         \/ (Write(a) \/ WriteBreaks(a)) /\ (Keep(a) \/ Close(a))
    \/ \E S \in SUBSET Actors : Forget(S)

FileSpec == FileInit /\ [][FileNext]_fileVars
-----------------------------------------------------------------------------
FileTypeOK ==
    /\ DOMAIN file = Files /\ \A f \in Files : Readable(f) => file[f] \in Content(f)
    /\ of \in [Actors -> Files \cup {NoFile}]
    /\ DOMAIN copy = Actors /\ DOMAIN own = Actors
    /\ \A a \in Actors :
           of[a] # NoFile => copy[a] \in Content(of[a]) /\ own[a] \subseteq PartsOf[of[a]]
    /\ handles \subseteq {a \in Actors : of[a] # NoFile} /\ mixing \subseteq handles
    /\ DOMAIN intended = Files /\ \A f \in Files : intended[f] \in Content(f)
    /\ outdated \subseteq Actors
    /\ careless \subseteq Files

\* A save changes what it is about and keeps everything else, as the comments of
\* every handler say (UI.py:190-192, 221-226, 382-384, twitch_settings.py:143):
\* whatever programs, threads and pages change the files, however their writes
\* fail and wherever they are killed, a file that can be read holds the last
\* value saved of each part.  The exceptions, and the only ones, are that somebody
\* saved a copy that was older than the last save, or that was read from a
\* damaged file which reads as empty, and that two had it open for writing together.
EditsSurvive ==
    \A f \in Files \ careless : Readable(f) => file[f] = intended[f]
=============================================================================
