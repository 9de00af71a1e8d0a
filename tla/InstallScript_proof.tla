--------------------------- MODULE InstallScript_proof --------------------------
(***************************************************************************)
(* What exit code 0 of the installation promises, for every platform,      *)
(* distribution and release.  The invariant is that of every Node.js; its  *)
(* last part says something where a response cut short is an error.        *)
(***************************************************************************)
EXTENDS InstallScript, FiniteSetTheorems, TLAPS

Over(u) == IF file[u] \in {"partial", "whole"} THEN 1 ELSE 0

Typed ==
  /\ platform \in Platforms
  /\ step \in {"urls", "mkdir", "request", "ended", "rejected"}
  /\ next \in 1..3
  /\ file \in [1..2 -> {"absent", "writing", "partial", "whole"}]
  /\ writeTimes \in 0..2 /\ writeTimes <= Over(1) + Over(2)
  /\ exitCode \in {Running, 0, 1, 4}
  /\ exitCode # 4 => writeTimes = Over(1) + Over(2)

(* The coroutine has asked for the urls before next and for no other. *)
Asked ==
  /\ next <= UrlCount + 1
  /\ step \in {"urls", "mkdir"} => next = 1
  /\ step = "request" => next <= UrlCount
  /\ \A u \in 1..2 : file[u] = "absent" <=> u >= next

(* A coroutine that has ended with the process still running has asked for  *)
(* every url.                                                               *)
AskedAll == exitCode = Running /\ step = "ended" => next = UrlCount + 1

(* Where a response cut short is an error, a running process has lost no    *)
(* library.                                                                 *)
Lossless ==
  ~AbortedEnds =>
    /\ exitCode = Running => \A u \in 1..2 : file[u] # "partial"
    /\ SuccessMeansLibraries

InstallInv == Typed /\ Asked /\ AskedAll /\ Lossless

-----------------------------------------------------------------------------
(* The number of files that are over is what the counter holds. *)
LEMMA OverCount ==
  ASSUME file \in [1..2 -> {"absent", "writing", "partial", "whole"}]
  PROVE  Cardinality({u \in 1..2 : file[u] \in {"partial", "whole"}}) = Over(1) + Over(2)
<1> DEFINE isOver(u) == file[u] \in {"partial", "whole"}
           W == {u \in 1..2 : isOver(u)}
<1>1. /\ Over(1) = IF isOver(1) THEN 1 ELSE 0
      /\ Over(2) = IF isOver(2) THEN 1 ELSE 0
  BY DEF Over
<1>2. Cardinality({}) = 0 /\ Cardinality({1}) = 1 /\ Cardinality({2}) = 1
  BY FS_EmptySet, FS_Singleton
<1>3. Cardinality({1} \cup {2}) = 2
  <2>1. IsFiniteSet({1})
    BY FS_Singleton
  <2>2. Cardinality({1} \cup {2}) = Cardinality({1}) + 1
    BY <2>1, FS_AddElement
  <2> QED BY <1>2, <2>2
<1>4. 1..2 = {1, 2}
  OBVIOUS
<1>5. W = {u \in {1, 2} : isOver(u)}
  BY <1>4
<1> HIDE DEF isOver, W
<1>6. CASE isOver(1) /\ isOver(2)
  <2>1. W = {1} \cup {2}
    BY <1>5, <1>6
  <2> QED BY <2>1, <1>1, <1>3, <1>6 DEF W, isOver
<1>7. CASE isOver(1) /\ ~isOver(2)
  <2>1. W = {1}
    BY <1>5, <1>7
  <2> QED BY <2>1, <1>1, <1>2, <1>7 DEF W, isOver
<1>8. CASE ~isOver(1) /\ isOver(2)
  <2>1. W = {2}
    BY <1>5, <1>8
  <2> QED BY <2>1, <1>1, <1>2, <1>8 DEF W, isOver
<1>9. CASE ~isOver(1) /\ ~isOver(2)
  <2>1. W = {}
    BY <1>5, <1>9
  <2> QED BY <2>1, <1>1, <1>2, <1>9 DEF W, isOver
<1> QED BY <1>6, <1>7, <1>8, <1>9

LEMMA InstallInit == Init => InstallInv
BY DEF Init, InstallInv, Typed, Asked, AskedAll, Lossless, SuccessMeansLibraries, Over, UrlCount,
       Platforms, Running

(* A step of the coroutine leaves the files and the counter alone, but for  *)
(* the file it opens.                                                       *)
LEMMA CoroutineStep ==
  ASSUME InstallInv, GetUrls \/ Mkdirp \/ BadStatus \/ Uncaught("mkdir") \/ Uncaught("request")
  PROVE  InstallInv'
<1>1. UNCHANGED <<platform, next, file, writeTimes>> /\ exitCode = Running
  BY DEF GetUrls, Mkdirp, BadStatus, Uncaught, Goes
<1>2. /\ step' \in {"mkdir", "request", "ended", "rejected"}
      /\ exitCode' \in {Running, 1, 4}
      /\ step' = "ended" => exitCode' = 4
      /\ step' = "mkdir" => step = "urls"
      /\ step' = "request" => step = "mkdir"
  BY <1>1 DEF GetUrls, Mkdirp, BadStatus, Uncaught, Goes, Exit, GoesOn, Running
<1>3. Typed'
  BY <1>1, <1>2 DEF InstallInv, Typed, Over, Running
<1>4. Asked'
  BY <1>1, <1>2 DEF InstallInv, Asked, UrlCount
<1>5. AskedAll' /\ Lossless'
  BY <1>1, <1>2 DEF InstallInv, AskedAll, Lossless, SuccessMeansLibraries, Running
<1> QED BY <1>3, <1>4, <1>5 DEF InstallInv

LEMMA ResponseStep ==
  ASSUME InstallInv, GoodResponse
  PROVE  InstallInv'
<1>1. /\ next \in 1..2 /\ next <= UrlCount /\ UrlCount \in 1..2
      /\ next' = next + 1 /\ exitCode = Running /\ exitCode' = Running
      /\ file' = [file EXCEPT ![next] = "writing"]
      /\ file[next] = "absent"
  BY DEF InstallInv, Typed, Asked, GoodResponse, Goes, GoesOn, UrlCount
<1>2. Typed'
  BY <1>1 DEF InstallInv, Typed, Over, GoodResponse, Goes
<1>3. Asked'
  BY <1>1 DEF InstallInv, Typed, Asked, GoodResponse, Goes, UrlCount
<1>4. AskedAll'
  <2>1. step' = IF next = UrlCount THEN "ended" ELSE "request"
    BY DEF GoodResponse, Goes
  <2>2. UrlCount' = UrlCount
    BY DEF GoodResponse, UrlCount
  <2> QED BY <1>1, <2>1, <2>2 DEF AskedAll
<1>5. Lossless'
  BY <1>1 DEF InstallInv, Typed, Lossless, SuccessMeansLibraries, Running
<1> QED BY <1>2, <1>3, <1>4, <1>5 DEF InstallInv

LEMMA FinishStep ==
  ASSUME InstallInv, NEW u \in Urls, Finish(u)
  PROVE  InstallInv'
<1>1. PICK content \in {"whole", "partial"} :
        /\ u \in 1..2 /\ exitCode = Running /\ file[u] = "writing"
        /\ file' = [file EXCEPT ![u] = content]
        /\ ~AbortedEnds => content = "whole"
        /\ writeTimes' = writeTimes + 1
        /\ UNCHANGED <<platform, step, next>>
  <2>1. PICK content \in {"whole"} \cup (IF AbortedEnds THEN {"partial"} ELSE {}) :
          file' = [file EXCEPT ![u] = content]
    BY DEF Finish
  <2>2. content \in {"whole", "partial"} /\ (~AbortedEnds => content = "whole")
    BY InstallAssumption
  <2>3. /\ u \in 1..2 /\ exitCode = Running /\ file[u] = "writing"
        /\ writeTimes' = writeTimes + 1
        /\ UNCHANGED <<platform, step, next>>
    BY DEF Finish, Urls, UrlCount, Counted
  <2> QED BY <2>1, <2>2, <2>3
<1>2. exitCode' = IF writeTimes' = UrlCount THEN 0 ELSE Running
  BY <1>1 DEF Finish, AllWritten, Exit, GoesOn
<1>3. Typed'
  <2>1. Over(u) = 0 /\ Over(u)' = 1 /\ \A v \in 1..2 : v # u => Over(v)' = Over(v)
    BY <1>1 DEF InstallInv, Typed, Over
  <2>2. Over(1) \in 0..1 /\ Over(2) \in 0..1
    BY DEF Over
  <2>3. Over(1)' + Over(2)' = Over(1) + Over(2) + 1 /\ Over(1) + Over(2) <= 1
    BY <1>1, <2>1, <2>2
  <2>4. exitCode # 4 /\ exitCode' \in {Running, 0}
    BY <1>1, <1>2 DEF Running
  <2>5. writeTimes' = Over(1)' + Over(2)' /\ writeTimes' \in 0..2
    BY <1>1, <2>2, <2>3, <2>4 DEF InstallInv, Typed
  <2>6. file' \in [1..2 -> {"absent", "writing", "partial", "whole"}]
    BY <1>1 DEF InstallInv, Typed
  <2>7. (Over(1) + Over(2))' = Over(1)' + Over(2)'
    OBVIOUS
  <2> QED BY <1>1, <2>4, <2>5, <2>6, <2>7 DEF InstallInv, Typed
<1>4. Asked'
  BY <1>1 DEF InstallInv, Typed, Asked, UrlCount
<1>5. AskedAll'
  BY <1>1 DEF InstallInv, AskedAll, UrlCount
<1>6. Lossless'
  <2> SUFFICES ASSUME ~AbortedEnds
               PROVE  /\ exitCode' = Running => \A v \in 1..2 : file'[v] # "partial"
                      /\ SuccessMeansLibraries'
    BY DEF Lossless
  <2>1. \A v \in 1..2 : file'[v] # "partial"
    BY <1>1 DEF InstallInv, Typed, Lossless
  <2>2. CASE writeTimes' = UrlCount
    <3>1. exitCode' # 4
      BY <1>2 DEF Running
    <3>2. (\A v \in Urls : file[v] = "whole")'
      BY <2>1, <2>2, <3>1, <1>1, <1>3, <1>4 DEF Typed, Asked, Over, UrlCount, Urls
    <3> QED BY <2>1, <3>2 DEF SuccessMeansLibraries
  <2>3. CASE writeTimes' # UrlCount
    BY <2>1, <2>3, <1>2 DEF SuccessMeansLibraries, Running
  <2> QED BY <2>2, <2>3
<1> QED BY <1>3, <1>4, <1>5, <1>6 DEF InstallInv

LEMMA ErrorStep ==
  ASSUME InstallInv, NEW u \in Urls, StreamError(u)
  PROVE  InstallInv'
BY DEF InstallInv, Typed, Asked, AskedAll, Lossless, SuccessMeansLibraries, Over, UrlCount, Urls, Running,
       StreamError, Exit

(* Nothing is left to do: the coroutine has ended, every file it has opened *)
(* is closed, and none of them is cut short.                                *)
LEMMA EmptyStep ==
  ASSUME InstallInv, LoopEmpty
  PROVE  InstallInv'
<1>1. /\ UNCHANGED <<platform, step, next, file, writeTimes>>
      /\ exitCode = Running /\ exitCode' = 0
      /\ step \in {"ended", "rejected"}
      /\ \A u \in Urls : file[u] # "writing"
  BY DEF LoopEmpty, Exit
<1>2. Lossless'
  <2> SUFFICES ASSUME ~AbortedEnds, step = "ended", NEW u \in Urls PROVE file[u] = "whole"
    BY <1>1 DEF Lossless, SuccessMeansLibraries, Urls, UrlCount, Running
  <2>1. u \in 1..2 /\ u < next
    BY <1>1 DEF InstallInv, AskedAll, Urls, UrlCount
  <2> QED BY <1>1, <2>1 DEF InstallInv, Typed, Asked, Lossless
<1>3. Typed' /\ Asked' /\ AskedAll'
  BY <1>1 DEF InstallInv, Typed, Asked, AskedAll, Over, UrlCount, Running
<1> QED BY <1>2, <1>3 DEF InstallInv

-----------------------------------------------------------------------------
(* The files, the counter and the place of the coroutine fit together       *)
(* whatever fails, in whatever order downloads and requests go on.          *)
THEOREM InstallInvariant == Spec => []InstallInv
<1>1. ASSUME InstallInv, [Next]_vars
      PROVE  InstallInv'
  <2>1. CASE GetUrls \/ Mkdirp \/ BadStatus \/ Uncaught("mkdir") \/ Uncaught("request")
    BY <1>1, <2>1, CoroutineStep
  <2>2. CASE GoodResponse
    BY <1>1, <2>2, ResponseStep
  <2>3. CASE \E u \in Urls : Finish(u)
    BY <1>1, <2>3, FinishStep
  <2>4. CASE \E u \in Urls : StreamError(u)
    BY <1>1, <2>4, ErrorStep
  <2>5. CASE LoopEmpty
    BY <1>1, <2>5, EmptyStep
  <2>6. CASE UNCHANGED vars
    BY <1>1, <2>6 DEF vars, InstallInv, Typed, Asked, AskedAll, Lossless, SuccessMeansLibraries,
                         Over, UrlCount, Urls
  <2> QED BY <1>1, <2>1, <2>2, <2>3, <2>4, <2>5, <2>6 DEF Next
<1> QED BY InstallInit, <1>1, PTL DEF Spec

(* download_lib.js: every variable keeps its range, and writeTimes is the   *)
(* number of downloads that have ended, on every version of Node.js.        *)
THEOREM InstallTypeCorrect == Spec => []TypeOK
<1>1. InstallInv => TypeOK
  BY OverCount DEF InstallInv, Typed, TypeOK
<1> QED BY InstallInvariant, <1>1, PTL

(* download_lib.js: where a response cut short is an error, exit code 0 of  *)
(* a process whose coroutine was not rejected means that every library is   *)
(* whole and on disk.                                                       *)
THEOREM InstallSuccess ==
  ASSUME ~AbortedEnds
  PROVE  Spec => []SuccessMeansLibraries
<1>1. InstallInv => SuccessMeansLibraries
  BY DEF InstallInv, Lossless
<1> QED BY InstallInvariant, <1>1, PTL

=============================================================================
