----------------------------- MODULE InstallScript -----------------------------
(***************************************************************************)
(* script/download_lib.js: the coroutine that asks for each library in     *)
(* turn, the downloads it leaves running behind it, and the ways the       *)
(* process ends.  npm builds the addon next if the process exits with 0.   *)
(***************************************************************************)
EXTENDS DistroRoute, FiniteSets

CONSTANT AbortedEnds   \* does a response cut short end like a whole one (Node.js 10)?

ASSUME InstallAssumption == AbortedEnds \in BOOLEAN

VARIABLES
  platform,   \* os.platform()
  distro,     \* what getos reports on Linux: [dist, major]
  step,       \* where the coroutine is
  next,       \* number of the url it asks for
  route,      \* the route of the url on Linux
  file,       \* state of each library on disk
  writeTimes, \* downloads finished
  exitCode    \* of the process, or Running

vars == <<platform, distro, step, next, route, file, writeTimes, exitCode>>

Running == -1

Platforms == {"win32", "darwin", "linux", "other"}

UrlCount == IF platform = "win32" THEN 2 ELSE 1
Urls == 1..UrlCount

Init ==
  /\ platform \in Platforms
  /\ distro \in IF platform = "linux"
                  THEN [dist : Dists, major : Majors] ELSE {[dist |-> "unknown", major |-> NoMajor]}
  /\ step = "urls"
  /\ next = 1
  /\ route = Unsupported
  /\ file = [u \in 1..2 |-> "absent"]
  /\ writeTimes = 0
  /\ exitCode = Running

Goes(from, to) ==
  /\ exitCode = Running
  /\ step = from
  /\ step' = to

Exit(code) == exitCode' = code
GoesOn == UNCHANGED exitCode

-----------------------------------------------------------------------------
(* The coroutine. *)

(* getUrlArray(): the platform and the distribution decide; any error, of   *)
(* getos too, is caught.                                                    *)
GetUrls ==
  /\ \/ /\ Goes("urls", "mkdir")
        /\ platform # "other"
        /\ IF platform = "linux"
             THEN route' = DistroRoute(distro.dist, distro.major) /\ route' # Unsupported
             ELSE UNCHANGED route
        /\ GoesOn
     \/ /\ Goes("urls", "ended")
        /\ \/ platform = "other"
           \/ platform = "linux"
        /\ UNCHANGED route
        /\ Exit(4)
  /\ UNCHANGED <<platform, distro, next, file, writeTimes>>

(* An error that nobody catches: co() returns a rejected promise, which      *)
(* fails the process from Node.js 15 on and goes unnoticed before.           *)
Uncaught(from) ==
  /\ Goes(from, "rejected")
  /\ Exit(1) \/ GoesOn
  /\ UNCHANGED <<platform, distro, next, route, file, writeTimes>>

Mkdirp ==
  /\ Goes("mkdir", "request")
  /\ GoesOn
  /\ UNCHANGED <<platform, distro, next, route, file, writeTimes>>

BadStatus ==
  /\ Goes("request", "ended")
  /\ Exit(4)
  /\ UNCHANGED <<platform, distro, next, route, file, writeTimes>>

(* Status 200: pipe the response to a new file and ask for the next one     *)
(* without waiting.                                                         *)
GoodResponse ==
  /\ Goes("request", IF next = UrlCount THEN "ended" ELSE "request")
  /\ file' = [file EXCEPT ![next] = "writing"]
  /\ next' = next + 1
  /\ GoesOn
  /\ UNCHANGED <<platform, distro, route, writeTimes>>

-----------------------------------------------------------------------------
(* The streams. *)

(* Mutant: the first download that finishes ends the process. *)
FirstWritten == TRUE

AllWritten == writeTimes' = UrlCount

(* Mutant: a download that finishes is not counted. *)
NotCounted == writeTimes

Counted == writeTimes + 1

(* `finish` of the write stream; what it wrote is whole, or the beginning   *)
(* of the library if the response was cut short.                            *)
Finish(u) ==
  /\ exitCode = Running
  /\ file[u] = "writing"
  /\ \E content \in {"whole"} \cup (IF AbortedEnds THEN {"partial"} ELSE {}) :
       file' = [file EXCEPT ![u] = content]
  /\ writeTimes' = Counted
  /\ IF AllWritten THEN Exit(0) ELSE GoesOn
  /\ UNCHANGED <<platform, distro, step, next, route>>

(* `error` of either stream. *)
StreamError(u) ==
  /\ exitCode = Running
  /\ file[u] = "writing"
  /\ file' = [file EXCEPT ![u] = "partial"]
  /\ Exit(4)
  /\ UNCHANGED <<platform, distro, step, next, route, writeTimes>>

(* Nothing is left to do: Node.js ends the process, without an error. *)
LoopEmpty ==
  /\ exitCode = Running
  /\ step \in {"ended", "rejected"}
  /\ \A u \in Urls : file[u] # "writing"
  /\ Exit(0)
  /\ UNCHANGED <<platform, distro, step, next, route, file, writeTimes>>

-----------------------------------------------------------------------------
Next ==
  \/ GetUrls \/ Mkdirp \/ BadStatus \/ GoodResponse
  \/ Uncaught("mkdir") \/ Uncaught("request")
  \/ \E u \in Urls : Finish(u) \/ StreamError(u)
  \/ LoopEmpty

Spec == Init /\ [][Next]_vars

-----------------------------------------------------------------------------
(* A process that does not fail has counted the downloads that ended, whole *)
(* or not.                                                                  *)
TypeOK ==
  /\ step \in {"urls", "mkdir", "request", "ended", "rejected"}
  /\ next \in 1..3
  /\ file \in [1..2 -> {"absent", "writing", "partial", "whole"}]
  /\ writeTimes \in 0..2
  /\ exitCode \in {Running, 0, 1, 4}
  /\ exitCode # 4 => writeTimes = Cardinality({u \in 1..2 : file[u] \in {"partial", "whole"}})

(* Unless the coroutine ended in a rejection that goes unnoticed, exit code  *)
(* 0 means that every library is whole and on disk: whichever download       *)
(* finishes last, no other one is left behind or has failed.                 *)
SuccessMeansLibraries ==
  exitCode = 0 /\ step # "rejected" => \A u \in Urls : file[u] = "whole"

(* package.json runs the build after a successful download only: exit code   *)
(* 0 means the same in every case.                                           *)
BuildHasLibraries == exitCode = 0 => \A u \in Urls : file[u] = "whole"
=============================================================================
