----------------------------- MODULE ConfigFiles -----------------------------
(***************************************************************************)
(* Who changes settings.json and Stream_Pet.json (SharedFile): the request   *)
(* threads of the Config UI (UI/Backend/UI.py), browser pages that read a     *)
(* whole file, keep it and send it back (GET and POST /api/settings, the Pos  *)
(* UI of overlay_pos_ui/app.py), and programs that resolve their ports on     *)
(* start (ports.py), where the user may take any time to answer.  Save-and-   *)
(* exit ends the Config UI while other requests run.                         *)
(***************************************************************************)
EXTENDS SharedFile, Sequences

CONSTANTS
    Handlers,   \* request threads of the Config UI
    Pages,      \* browser pages
    PageFile,   \* PageFile[p]: the file that page p shows
    PageParts,  \* PageParts[p]: what the user changes on it
    Programs,   \* programs that resolve ports when they start
    WebUI,      \* the one of them that is the Config UI
    Asks,       \* Asks[p]: the ports p resolves, in its order
    Ports,      \* parts of settings.json that are ports
    Choices,    \* what a user may enter
    MaxLoads    \* files read by handlers, pages and programs (model bound)

ConfigActors == Handlers \cup Pages \cup Programs

ASSUME ConfigAssumption ==
    /\ {"settings", "pet"} \subseteq Files
    /\ Lenient \cap {"settings", "pet"} = {"pet"}
    /\ Ports \cup {"triggers", "features"} \subseteq PartsOf["settings"]
    /\ PartsOf["pet"] = {"animations", "layout"}
    /\ Choices \subseteq Values \ {0}
    /\ WebUI \in Programs
    /\ Asks \in [Programs -> Seq(Ports) \ {<<>>}]
    /\ ConfigActors \subseteq Actors
    /\ Handlers \cap Pages = {} /\ Handlers \cap Programs = {} /\ Pages \cap Programs = {}
    /\ \A p \in Pages : PageFile[p] \in {"settings", "pet"} /\ PageParts[p] \subseteq PartsOf[PageFile[p]]

VARIABLES
    phase,      \* where each program is
    port,       \* port[p]: the index in Asks[p] of the port p resolves
    exiting,    \* the thread that ends the Config UI was started
    sending,    \* pages whose POST is being handled
    loads       \* files read (for the bound)

configVars == <<phase, port, exiting, sending, loads>>

ConfigInit ==
    /\ phase = [p \in Programs |-> "off"]
    /\ port = [p \in Programs |-> 1]
    /\ exiting = FALSE
    /\ sending = {}
    /\ loads = 0

CountLoad == loads < MaxLoads /\ loads' = loads + 1
Serving == phase[WebUI] = "running"
One(p, v) == [q \in {p} |-> v]
-----------------------------------------------------------------------------
(* Requests of the Config UI: load, change one part, save.  If the file cannot *)
(* be loaded the answer is 500 and nothing changes.                          *)

\* Mutant (AskedOnce): the part is put into an empty object, as "the earlier
\* destructive replace" did (UI.py:191).
MergeIntoNothing(h, f, p) ==
    /\ Serving /\ of[h] = NoFile
    /\ CountLoad
    /\ of' = [of EXCEPT ![h] = f]
    /\ \E v \in Choices : copy' = [copy EXCEPT ![h] = WithParts(Blank(f), One(p, v))]
    /\ own' = [own EXCEPT ![h] = {p}]
    /\ UNCHANGED <<file, handles, mixing, intended, outdated, careless, phase, port, sending>>

Merge(h, f, p) ==
    /\ Serving /\ of[h] = NoFile
    /\ CountLoad
    /\ \E v \in Choices : Load(h, f, One(p, v))
    /\ UNCHANGED <<phase, port, sending>>

SaveCommands(h) == Merge(h, "settings", "triggers") /\ UNCHANGED exiting
SaveFeatures(h) == Merge(h, "settings", "features") /\ UNCHANGED exiting
SavePort(h)     == \E c \in Ports : Merge(h, "settings", c) /\ UNCHANGED exiting

\* _load_streampet_config reads an unreadable file as {}.
SaveStreamPet(h) == Merge(h, "pet", "animations") /\ UNCHANGED exiting

\* What was loaded is saved as it is.
Resave(h) ==
    /\ Serving /\ of[h] = NoFile
    /\ CountLoad
    /\ Load(h, "settings", NoCopy)
    /\ UNCHANGED <<phase, port, sending>>

\* The triggers may be sent or not.  The thread that calls os._exit(0) is started
\* before the settings are saved.
SaveAndExit(h) == (Merge(h, "settings", "triggers") \/ Resave(h)) /\ exiting' = TRUE

\* A file that others write, too.
WritesBeside(a) == WriteSome(a) /\ UNCHANGED configVars

\* save_settings.  When it returns or raises the request is answered.
HandlerOpens(h)  == h \in Handlers /\ Open(h) /\ UNCHANGED configVars
HandlerWrites(h) == (Write(h) \/ WriteBreaks(h)) /\ Close(h) /\ UNCHANGED configVars
CannotOpen(h)    == of[h] # NoFile /\ h \notin handles /\ Forget({h}) /\ UNCHANGED configVars

\* What the process of the Config UI runs: POSTs of its pages, too.
ConfigUIThreads == Handlers \cup {WebUI} \cup {p \in sending : PageFile[p] = "settings"}

\* os._exit(0): no thread of the Config UI goes on, wherever it is.
Exits ==
    /\ exiting
    /\ exiting' = FALSE
    /\ phase' = [phase EXCEPT ![WebUI] = "off"]
    /\ Forget(ConfigUIThreads)
    /\ sending' = sending \ ConfigUIThreads
    /\ UNCHANGED <<port, loads>>
-----------------------------------------------------------------------------
(* Pages.                                                                  *)

\* The page is loaded, with the whole file.
Show(p) ==
    /\ PageFile[p] = "settings" => Serving
    /\ p \notin sending
    /\ CountLoad
    /\ Load(p, PageFile[p], NoCopy)
    /\ UNCHANGED <<phase, port, exiting, sending>>

\* The user changes what the page is for and saves: all of it is sent.
Send(p) ==
    /\ PageFile[p] = "settings" => Serving
    /\ p \notin sending
    /\ \E q \in PageParts[p] : \E v \in Choices : Change(p, One(q, v))
    /\ sending' = sending \cup {p}
    /\ UNCHANGED <<phase, port, exiting, loads>>

\* save_settings(data) and _save_config(data): the body as it is.  The page stays.
PageOpens(p)  == p \in sending /\ Open(p) /\ UNCHANGED configVars
PageWrites(p) ==
    /\ (Write(p) \/ WriteBreaks(p)) /\ Keep(p)
    /\ sending' = sending \ {p}
    /\ UNCHANGED <<phase, port, exiting, loads>>
-----------------------------------------------------------------------------
(* Programs and their ports.                                               *)

\* load_settings.  A program that cannot load them does not start.
Start(p) ==
    /\ phase[p] = "off"
    /\ CountLoad
    /\ Load(p, "settings", NoCopy)
    /\ phase' = [phase EXCEPT ![p] = "resolve"]
    /\ port' = [port EXCEPT ![p] = 1]
    /\ UNCHANGED <<exiting, sending>>

Asked(p) == Asks[p][port[p]]
After(p, l) == phase' = [phase EXCEPT ![p] = l]

\* The next port, or none is left.  What was loaded on start is kept.
NextPort(p) ==
    /\ port' = [port EXCEPT ![p] = @ + 1]
    /\ After(p, IF port[p] = Len(Asks[p]) THEN "running" ELSE "resolve")

\* get_port: the persisted port, if what was loaded on start has one; else the
\* default, without persisting it, if there is no terminal.
UsePort(p) ==
    /\ phase[p] = "resolve"
    /\ NextPort(p)
    /\ UNCHANGED <<fileVars, exiting, sending, loads>>

Prompt(p) ==
    /\ phase[p] = "resolve"
    /\ copy[p][Asked(p)] = 0
    /\ After(p, "prompt")
    /\ UNCHANGED <<fileVars, port, exiting, sending, loads>>

\* The user answers, at any time, and _persist_port puts the port in what was
\* loaded on start.
AnswerPrompt(p) ==
    /\ phase[p] = "prompt"
    /\ \E v \in Choices : Change(p, One(Asked(p), v))
    /\ After(p, "persist")
    /\ UNCHANGED <<port, exiting, sending, loads>>

PersistOpens(p) ==
    /\ phase[p] = "persist"
    /\ Open(p)
    /\ UNCHANGED configVars

\* save_settings; its exception is logged, and the port is used all the same.
PersistWrites(p) ==
    /\ (Write(p) \/ WriteBreaks(p)) /\ Keep(p)
    /\ NextPort(p)
    /\ UNCHANGED <<exiting, sending, loads>>

PersistCannotOpen(p) ==
    /\ phase[p] = "persist"
    /\ p \notin handles
    /\ NextPort(p)
    /\ UNCHANGED <<fileVars, exiting, sending, loads>>

\* The port is in use, or the user ends the program, wherever it is.
Quit(p) ==
    /\ phase[p] # "off"
    /\ After(p, "off")
    /\ IF p = WebUI
         THEN /\ Forget(ConfigUIThreads)
              /\ exiting' = FALSE
              /\ sending' = sending \ ConfigUIThreads
         ELSE /\ Forget({p})
              /\ UNCHANGED <<exiting, sending>>
    /\ UNCHANGED <<port, loads>>
-----------------------------------------------------------------------------
Request(h) ==
    \/ SaveCommands(h) \/ SaveFeatures(h) \/ SavePort(h) \/ SaveStreamPet(h) \/ SaveAndExit(h)
    \/ HandlerOpens(h) \/ HandlerWrites(h) \/ CannotOpen(h)
Browse(p)  == Show(p) \/ Send(p) \/ PageOpens(p) \/ PageWrites(p)
Program(p) ==
    \/ Start(p) \/ UsePort(p) \/ Prompt(p) \/ AnswerPrompt(p)
    \/ PersistOpens(p) \/ PersistWrites(p) \/ PersistCannotOpen(p) \/ Quit(p)

ConfigNext ==
    \/ \E h \in Handlers : Request(h)
    \/ \E p \in Pages : Browse(p)
    \/ \E p \in Programs : Program(p)
    \/ \E a \in ConfigActors : WritesBeside(a)
    \/ Exits

ConfigSpec == FileInit /\ ConfigInit /\ [][ConfigNext]_<<fileVars, configVars>>
-----------------------------------------------------------------------------
\* "Re-runs never prompt again" (ports.py:10): a port that was saved once, by a
\* prompt or by the Config UI, is not asked for again, whoever saved what in
\* between and whatever was killed.  Not if the program has read the settings
\* before that port was saved, nor after an outdated copy was saved.
AskedOnce ==
    \A p \in Programs \ outdated :
        phase[p] = "prompt" /\ "settings" \notin careless => intended["settings"][Asked(p)] = 0
=============================================================================
