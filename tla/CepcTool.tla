------------------------------ MODULE CepcTool ------------------------------
(***************************************************************************)
(* loadcepc's file commands -g, -r and -u (ppfstool.c: GetFile,            *)
(* GetOneFile): files of the host that match a pattern are copied to the   *)
(* local disk, all of them, or those that are newer there.  Every run is a *)
(* program of its own; the files stay.  The calls to the host are those of *)
(* PpfsLink: each may fail, and after a lost host all do.                  *)
(*                                                                         *)
(* The content of a file is the time the host wrote it.  A file changes on *)
(* the host at any moment; while it is copied the tool is taken to get the *)
(* version it opened.                                                      *)
(***************************************************************************)
EXTENDS Integers, FiniteSets

CONSTANTS
  Files,      \* files the host has
  Single,     \* name of a destination that is no directory
  MaxTime     \* bound: the host's last write

Times == 2 .. MaxTime
Even(t) == t - (t % 2)    \* FATFS keeps times to two seconds
None == 0                 \* content of a file that does not exist
Cut == 1                  \* content of a file that was not written whole

ASSUME ToolAssumption ==
  Single \notin Files /\ Files # {} /\ MaxTime \in Nat \ {0, 1, 2}

VARIABLES
  tpc,       \* "dos" or the place in GetFile or GetOneFile
  flag,      \* "g", "r" or "u"
  toDir,     \* bDestinationIsDir
  todo,      \* what the host's search has still to return
  cur, time, \* fdSource: name and time_write
  got, whole,\* the version that is read; every _write so far succeeded
  lost,      \* NoPPFS
  search,    \* the host keeps a search open for the tool
  host,      \* time of each file on the host
  local,     \* [content, time] of each local file
  failed,    \* history of this run: what went wrong: "nothing", a "file", or
             \*   the "search" (a call for it failed, or Ctrl-C ended it)
  wanted     \* history: pattern and times when this run began, of a get
             \*   or an update into a directory

toolVars == <<tpc, flag, toDir, todo, cur, time, got, whole, lost, search,
              host, local, failed, wanted>>
command == <<flag, toDir, wanted>>
found == <<cur, time>>
copied == <<got, whole>>

Absent == [content |-> None, time |-> 2]
Names == Files \cup {Single}

ToolInit ==
  /\ tpc = "dos" /\ flag = "g" /\ toDir = TRUE /\ wanted = << >> /\ todo = {}
  /\ cur = (CHOOSE f \in Files : TRUE) /\ time = 2 /\ got = None
  /\ whole = TRUE /\ lost = FALSE /\ search = FALSE /\ failed = "nothing"
  /\ host = [f \in Files |-> 2] /\ local = [n \in Names |-> Absent]

(* Back at the DOS prompt: the program's variables are gone.               *)
Stop ==
  /\ tpc' = "dos" /\ flag' = "g" /\ toDir' = TRUE /\ wanted' = << >> /\ todo' = {}
  /\ cur' = (CHOOSE f \in Files : TRUE) /\ time' = 2 /\ got' = None
  /\ whole' = TRUE /\ lost' = FALSE

HostUpdates ==
  /\ \E f \in Files : host[f] < MaxTime /\ host' = [host EXCEPT ![f] = @ + 1]
  /\ UNCHANGED <<tpc, command, todo, found, copied, lost, search, local, failed>>

(* A new program; what an earlier one left open on the host is its own.    *)
StartTool ==
  /\ tpc = "dos" /\ tpc' = "find"
  /\ flag' \in {"g", "r", "u"} /\ toDir' \in BOOLEAN
  /\ todo' \in SUBSET Files \ {{}}
  /\ wanted' = [f \in (IF toDir' /\ flag' # "r" THEN todo' ELSE {}) |-> host[f]]
  /\ search' = FALSE /\ failed' = "nothing"
  /\ UNCHANGED <<found, copied, lost, host, local>>

(* A call to the host that returns -1, with the host lost for good or not. *)
CallFails == lost' \in {lost, TRUE} /\ failed' = "file"
CallWorks == ~lost /\ UNCHANGED <<lost, failed>>
SearchFails == Stop /\ failed' = "search"

Finds(f) ==
  /\ f \in todo /\ todo' = todo \ {f}
  /\ cur' = f /\ time' = host[f]

FindFirst ==
  /\ tpc = "find"
  /\ \/ /\ CallWorks /\ tpc' = "check" /\ search' = TRUE
        /\ \E f \in Files : Finds(f)
        /\ UNCHANGED <<command, copied>>
     \/ SearchFails /\ search' \in BOOLEAN
  /\ UNCHANGED <<host, local>>

-----------------------------------------------------------------------------
(* One file                                                                *)
Destination == IF toDir THEN cur ELSE Single
Exists == local[Destination].content # None

(* bDoCopy                                                                 *)
UpToDate == flag # "g" /\ Exists /\ Even(local[Destination].time) >= Even(time)
Skipped == flag = "r" /\ ~Exists

Check ==
  /\ tpc = "check"
  /\ tpc' = IF UpToDate \/ Skipped THEN "next" ELSE "create"
  /\ UNCHANGED <<command, todo, found, copied, lost, search, host, local, failed>>

(* Times at which a file may be stored, in two seconds.                    *)
EvenTimes == {Even(t) : t \in Times}

Create ==
  /\ tpc = "create"
  /\ \/ /\ tpc' = "ropen" /\ whole' = TRUE /\ UNCHANGED failed
        /\ \E now \in EvenTimes :
             local' = [local EXCEPT ![Destination] = [content |-> Cut, time |-> now]]
     \/ tpc' = "close" /\ failed' = "file" /\ UNCHANGED <<whole, local>>
  /\ UNCHANGED <<command, todo, found, got, lost, search, host>>

(* When the host refuses the file the empty local one stays.               *)
ROpen ==
  /\ tpc = "ropen"
  /\ \/ CallWorks /\ tpc' = "read" /\ got' = host[cur]
     \/ CallFails /\ tpc' = "close" /\ got' = got
  /\ UNCHANGED <<command, todo, found, whole, search, host, local>>

(* Whether _write wrote is not looked at.                                  *)
Read ==
  /\ tpc = "read" /\ ~lost
  /\ whole' \in {whole, FALSE}
  /\ UNCHANGED <<tpc, command, todo, found, got, lost, search, host, local, failed>>

StampNow == EvenTimes         \* bug: the copy keeps the time it was made
Stamp == {Even(time)}

(* rread returned 0: rclose, whose result nobody looks at, and _utime.     *)
ReadEnd ==
  /\ tpc = "read" /\ ~lost /\ tpc' = "next"
  /\ \E t \in Stamp :
       local' = [local EXCEPT ![Destination] =
                   [content |-> IF whole THEN got ELSE Cut, time |-> t]]
  /\ lost' \in BOOLEAN /\ got' = None /\ whole' = TRUE
  /\ UNCHANGED <<command, todo, found, search, host, failed>>

CopyFails ==
  /\ tpc = "read" /\ CallFails /\ tpc' = "close"
  /\ local' = [local EXCEPT ![Destination] = Absent]
  /\ got' = None /\ whole' = TRUE
  /\ UNCHANGED <<command, todo, found, search, host>>

-----------------------------------------------------------------------------
(* The next one.  More than one file for a name that is no directory is an *)
(* error.  A search that ends is closed by the host.                       *)
FindNext ==
  /\ tpc = "next" /\ ~lost
  /\ tpc' = IF toDir THEN "check" ELSE "close"
  /\ \E f \in Files : Finds(f)
  /\ UNCHANGED <<command, copied, lost, search, host, local, failed>>

FindNoMore ==
  /\ tpc = "next" /\ ~lost /\ todo = {}
  /\ Stop /\ search' = FALSE
  /\ UNCHANGED <<host, local, failed>>

FindNextFails ==
  /\ tpc = "next" /\ SearchFails
  /\ UNCHANGED <<search, host, local>>

CloseSearchNever ==           \* bug: the search is abandoned
  /\ tpc = "close" /\ Stop
  /\ UNCHANGED <<search, host, local, failed>>

CloseSearch ==
  /\ tpc = "close"
  /\ \/ ~lost /\ Stop /\ search' = FALSE /\ failed' = failed
     \/ SearchFails /\ UNCHANGED search
  /\ UNCHANGED <<host, local>>

CtrlC ==
  /\ tpc # "dos" /\ SearchFails
  /\ UNCHANGED <<search, host, local>>

ToolNext ==
  \/ HostUpdates \/ StartTool \/ FindFirst \/ Check \/ Create \/ ROpen
  \/ Read \/ ReadEnd \/ CopyFails
  \/ FindNext \/ FindNoMore \/ FindNextFails \/ CloseSearch \/ CtrlC

ToolSpec == ToolInit /\ [][ToolNext]_toolVars

-----------------------------------------------------------------------------
(* Properties                                                              *)
ToolTypeOK ==
  /\ tpc \in {"dos", "find", "check", "create", "ropen", "read", "next", "close"}
  /\ flag \in {"g", "r", "u"} /\ toDir \in BOOLEAN
  /\ todo \subseteq Files /\ cur \in Files /\ time \in Times
  /\ got \in Times \cup {None} /\ whole \in BOOLEAN /\ lost \in BOOLEAN
  /\ search \in BOOLEAN /\ failed \in {"nothing", "file", "search"}
  /\ host \in [Files -> Times]
  /\ local \in [Names -> [content : Times \cup {None, Cut}, time : EvenTimes]]
  /\ DOMAIN wanted \subseteq Files

(* After a get or an update into a directory that met no failure, none of  *)
(* the files asked for is missing or older than the host's was when the    *)
(* command began, to two seconds - unless a copy was cut off by the local  *)
(* disk, or had been before.                                               *)
UpdateDelivers ==
  [][tpc # "dos" /\ tpc' = "dos" /\ failed' = "nothing" /\ toDir /\ flag # "r" =>
       \A f \in DOMAIN wanted :
         \/ local[f].content = Cut
         \/ Even(local[f].content) >= Even(wanted[f])]_toolVars

(* Whatever went wrong with a file, a command leaves no search open on the *)
(* host, unless it was interrupted or a call of the search itself failed.  *)
(* And every variable has its type.                                        *)
SearchClosed ==
  /\ ToolTypeOK
  /\ tpc = "dos" /\ search => failed = "search"

(* -r and -u fetch the "files ... that have a timestamp newer than those   *)
(* in <destination>" (main.c:733) and call the others "Up to date": a file *)
(* they say so of is a whole one.                                          *)
UpToDateIsWhole ==
  [][tpc = "check" /\ UpToDate => local[Destination].content # Cut]_toolVars
=============================================================================
