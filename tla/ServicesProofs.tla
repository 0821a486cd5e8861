---------------------------- MODULE ServicesProofs ----------------------------
(***************************************************************************)
(* For every value of the constants: the services that share no row, and   *)
(* the run that checks them side by side.                                  *)
(***************************************************************************)
EXTENDS MCServices, MerchantsProofs, MessagingProofs, FiniteSetTheorems,
        FunctionTheorems, WellFoundedInduction, TLAPS

-----------------------------------------------------------------------------
(* Media: of every upload that ended the disk and the rows agree.  Where an *)
(* upload is says what there may be of it.                                  *)

\* What there is of an upload, by where it is.
Traces(u) ==
    /\ u \in temps => progress[u] \in {"streaming", "checked", "cleanup", "unclosed", "dead"}
    /\ u \in files =>
         progress[u] \in {"placed", "committed", "closing", "cleanup", "created", "unclosed",
                           "dead"}
    /\ u \in assets => u \in files \/ progress[u] = "refused"
    /\ progress[u] = "placed" => u \in files
    /\ progress[u] \in {"committed", "closing", "created"} => u \in files /\ u \in assets

MediaInv == MediaTypes /\ \A u \in Uploads : Traces(u)

LEMMA MediaStarts == MediaInit => MediaInv
  BY DEF MediaInit, MediaInv, MediaTypes, Traces, Progress

\* A step of one upload leaves the traces of the others.
LEMMA MediaSteps == MediaInv /\ [MediaNext]_mediaVars => MediaInv'
<1> SUFFICES ASSUME MediaInv, [MediaNext]_mediaVars PROVE MediaInv'
  OBVIOUS
<1> USE DEF MediaInv, MediaTypes, Traces
<1>1. CASE UNCHANGED mediaVars
  BY <1>1 DEF mediaVars
<1>2. ASSUME NEW u \in Uploads, Refuse(u) PROVE MediaInv'
  BY <1>2 DEF Refuse, Moves, Progress
<1>3. ASSUME NEW u \in Uploads, OpenTemp(u) PROVE MediaInv'
  BY <1>3 DEF OpenTemp, Moves, Progress
<1>4. ASSUME NEW u \in Uploads, Streamed(u) PROVE MediaInv'
  BY <1>4 DEF Streamed, Moves, Progress
<1>5. ASSUME NEW u \in Uploads, Place(u) PROVE MediaInv'
  BY <1>5 DEF Place, Moves, Progress
<1>6. ASSUME NEW u \in Uploads, Record(u) PROVE MediaInv'
  BY <1>6 DEF Record, Moves, Progress
<1>7. ASSUME NEW u \in Uploads, Reread(u) PROVE MediaInv'
  BY <1>7 DEF Reread, Moves, Progress
<1>8. ASSUME NEW u \in Uploads, Fail(u) PROVE MediaInv'
  BY <1>8 DEF Fail, Progress
<1>9. ASSUME NEW u \in Uploads, Cleanup(u) PROVE MediaInv'
  BY <1>9 DEF Cleanup, Cleaned, Moves, Progress
<1>10. ASSUME NEW u \in Uploads, CloseAndAnswer(u) PROVE MediaInv'
  BY <1>10 DEF CloseAndAnswer, Moves, Progress
<1>11. ASSUME NEW u \in Uploads, CloseFails(u) PROVE MediaInv'
  BY <1>11 DEF CloseFails, Progress
<1>12. ASSUME NEW u \in Uploads, Crash(u) PROVE MediaInv'
  BY <1>12 DEF Crash, Progress
<1>13. QED
  BY <1>1, <1>2, <1>3, <1>4, <1>5, <1>6, <1>7, <1>8, <1>9, <1>10, <1>11, <1>12 DEF MediaNext

LEMMA TracesSuffice == MediaInv => MediaTypes /\ UploadsEndClean
  BY DEF MediaInv, MediaTypes, Traces, UploadsEndClean, AnsweredUploadsAreStored,
         LeftoversComeFromCrashes

\* Whichever statement of upload_media fails, and wherever the process dies: an
\* answered upload has its file and its row, and one that was refused left
\* nothing on disk, unless its file.close() failed (media.py:222, :248).
THEOREM EveryUploadEndsClean == MediaSpec => []UploadsEndClean
<1>1. MediaInit => MediaInv
  BY MediaStarts
<1>2. MediaInv /\ [MediaNext]_mediaVars => MediaInv'
  BY MediaSteps
<1>3. MediaInv => UploadsEndClean
  BY TracesSuffice
<1>4. QED
  BY <1>1, <1>2, <1>3, PTL DEF MediaSpec

\* Every variable of the uploads keeps its declared shape.
THEOREM MediaTypeCorrect == MediaSpec => []MediaTypes
<1>1. MediaInit => MediaInv
  BY MediaStarts
<1>2. MediaInv /\ [MediaNext]_mediaVars => MediaInv'
  BY MediaSteps
<1>3. MediaInv => MediaTypes
  BY TracesSuffice
<1>4. QED
  BY <1>1, <1>2, <1>3, PTL DEF MediaSpec

-----------------------------------------------------------------------------
(* Opening hours: a patch that lands on the row it read leaves the row it   *)
(* names, whole.                                                            *)

HoursInv ==
    /\ hours = {} \/ (\E row : hours = {row})
    /\ editing = [e \in Screens |-> editing[e]]
    /\ \A e \in Screens : \A q \in editing[e] : q.patch \in Patches
    /\ raced \in BOOLEAN
    /\ HoursAreOnePatchUnlessRaced

\* The columns that differ are written, the others are as the patch has them.
LEMMA PatchedIsThePatch ==
  ASSUME NEW row, NEW patch \in Patches
  PROVE  Patched(row, row, patch) = patch
<1>1. Patched(row, row, patch) = [c \in Columns |-> patch[c]]
  BY DEF Patched
<1>2. QED
  BY <1>1, PatchesAreRows

LEMMA HoursStart == HoursInit => HoursInv
  BY DEF HoursInit, HoursInv, HoursAreOnePatchUnlessRaced

LEMMA HoursSteps == HoursInv /\ [HoursNext]_hoursVars => HoursInv'
<1> SUFFICES ASSUME HoursInv, [HoursNext]_hoursVars PROVE HoursInv'
  OBVIOUS
<1>1. CASE UNCHANGED hoursVars
  BY <1>1 DEF hoursVars, HoursInv, HoursAreOnePatchUnlessRaced
<1>2. ASSUME NEW e \in Screens, NEW p \in Patches, HoursRead(e, p) PROVE HoursInv'
  <2>1. editing' = [editing EXCEPT ![e] = {[read |-> hours, patch |-> p]}]
        /\ UNCHANGED <<hours, raced>>
    BY <1>2 DEF HoursRead
  <2>2. ASSUME NEW f \in Screens, NEW q \in editing'[f] PROVE q.patch \in Patches
    <3>1. CASE f = e
      <4>1. q = [read |-> hours, patch |-> p]
        BY <2>1, <2>2, <3>1 DEF HoursInv
      <4>2. QED
        BY <4>1
    <3>2. CASE f # e
      BY <2>1, <2>2, <3>2 DEF HoursInv
    <3>3. QED
      BY <3>1, <3>2
  <2>3. editing' = [f \in Screens |-> editing'[f]]
    BY <2>1 DEF HoursInv
  <2>4. QED
    BY <2>1, <2>2, <2>3 DEF HoursInv, HoursAreOnePatchUnlessRaced
<1>3. ASSUME NEW e \in Screens, HoursCommit(e) PROVE HoursInv'
  <2>1. PICK q \in editing[e] :
          /\ \/ q.read = {} /\ Inserted(q.patch)
             \/ \E old \in q.read : hours' = {Patched(row, old, q.patch) : row \in hours}
          /\ raced' = (raced \/ q.read # hours)
          /\ editing' = [editing EXCEPT ![e] = {}]
    BY <1>3 DEF HoursCommit
  <2>2. q.patch \in Patches
    BY <2>1 DEF HoursInv
  <2>3. editing' = [f \in Screens |-> editing'[f]]
        /\ \A f \in Screens : \A r \in editing'[f] : r.patch \in Patches
    BY <2>1 DEF HoursInv
  <2>4. CASE q.read = {} /\ Inserted(q.patch)
    BY <2>1, <2>2, <2>3, <2>4 DEF Inserted, HoursInv, HoursAreOnePatchUnlessRaced
  <2>5. ASSUME NEW old \in q.read, hours' = {Patched(row, old, q.patch) : row \in hours}
        PROVE  HoursInv'
    <3>1. hours' = {} \/ (\E row : hours' = {row})
      BY <2>5 DEF HoursInv
    <3>2. ASSUME ~raced' PROVE hours' \subseteq Patches
      <4>1. q.read = hours
        BY <2>1, <3>2
      <4>2. hours = {old}
        BY <2>5, <4>1 DEF HoursInv
      <4>3. hours' = {q.patch}
        BY <2>2, <2>5, <4>2, PatchedIsThePatch
      <4>4. QED
        BY <2>2, <4>3
    <3>3. raced' \in BOOLEAN
      BY <2>1
    <3>4. QED
      BY <2>3, <3>1, <3>2, <3>3 DEF HoursInv, HoursAreOnePatchUnlessRaced
  <2>6. QED
    BY <2>1, <2>4, <2>5
<1>4. ASSUME NEW e \in Screens, HoursAbort(e) PROVE HoursInv'
  BY <1>4 DEF HoursAbort, HoursInv, HoursAreOnePatchUnlessRaced
<1>5. QED
  BY <1>1, <1>2, <1>3, <1>4 DEF HoursNext

\* The hours of a day mix two patches only when one landed on hours it had not
\* read (owner.py:471).
THEOREM HoursMixOnlyInARace == HoursSpec => []HoursAreOnePatchUnlessRaced
<1>1. HoursInit => HoursInv
  BY HoursStart
<1>2. HoursInv /\ [HoursNext]_hoursVars => HoursInv'
  BY HoursSteps
<1>3. HoursInv => HoursAreOnePatchUnlessRaced
  BY DEF HoursInv
<1>4. QED
  BY <1>1, <1>2, <1>3, PTL DEF HoursSpec

\* What is written of a patch is a value that some patch has for the column.
LEMMA PatchedIsARow ==
  ASSUME NEW row \in HoursRows, NEW read, NEW patch \in Patches
  PROVE  Patched(row, read, patch) \in HoursRows /\ patch \in HoursRows
<1>1. \A c \in Columns : patch[c] \in UNION {{p[d] : d \in Columns} : p \in Patches}
  OBVIOUS
<1>2. Patched(row, read, patch) \in HoursRows
  BY <1>1 DEF Patched, HoursRows
<1>3. [c \in Columns |-> patch[c]] \in HoursRows
  BY <1>1 DEF HoursRows
<1>4. QED
  BY <1>2, <1>3, PatchesAreRows

\* Every variable of the hours keeps its declared shape: one row at most.
LEMMA HoursTypesHold == HoursSpec => []HoursTypes
<1> DEFINE Rows == /\ hours \subseteq HoursRows
                   /\ \A e \in Screens : \A q \in editing[e] : q.read \subseteq HoursRows
<1>1. HoursInit => Rows
  BY DEF HoursInit
<1>2. HoursInv /\ Rows /\ [HoursNext]_hoursVars => Rows'
  <2> SUFFICES ASSUME HoursInv, Rows, [HoursNext]_hoursVars PROVE Rows'
    OBVIOUS
  <2>0. editing = [f \in Screens |-> editing[f]]
    BY DEF HoursInv
  <2>1. CASE UNCHANGED hoursVars
    BY <2>1 DEF hoursVars
  <2>2. ASSUME NEW e \in Screens, NEW p \in Patches, HoursRead(e, p) PROVE Rows'
    BY <2>0, <2>2 DEF HoursRead
  <2>3. ASSUME NEW e \in Screens, HoursCommit(e) PROVE Rows'
    <3>1. PICK q \in editing[e] :
            /\ \/ q.read = {} /\ Inserted(q.patch)
               \/ \E old \in q.read : hours' = {Patched(row, old, q.patch) : row \in hours}
            /\ editing' = [editing EXCEPT ![e] = {}]
      BY <2>3 DEF HoursCommit
    <3>2. q.patch \in Patches
      BY DEF HoursInv
    <3>3. hours' \subseteq HoursRows
      <4>1. ASSUME Inserted(q.patch) PROVE q.patch \in HoursRows
        <5>1. [c \in Columns |-> q.patch[c]] \in HoursRows
          BY <3>2 DEF HoursRows
        <5>2. QED
          BY <3>2, <5>1, PatchesAreRows
      <4>2. QED
        BY <3>1, <3>2, <4>1, PatchedIsARow DEF Inserted
    <3>4. QED
      BY <2>0, <3>1, <3>3
  <2>4. ASSUME NEW e \in Screens, HoursAbort(e) PROVE Rows'
    BY <2>0, <2>4 DEF HoursAbort
  <2>5. QED
    BY <2>1, <2>2, <2>3, <2>4 DEF HoursNext
<1>3. HoursInv /\ Rows => HoursTypes
  <2> SUFFICES ASSUME HoursInv, Rows PROVE HoursTypes
    OBVIOUS
  <2>1. Cardinality(hours) <= 1
    <3>1. Cardinality({}) = 0 /\ \A row : Cardinality({row}) = 1
      BY FS_EmptySet, FS_Singleton
    <3>2. CASE hours = {}
      BY <3>1, <3>2
    <3>3. CASE \E row : hours = {row}
      BY <3>1, <3>3
    <3>4. QED
      BY <3>2, <3>3 DEF HoursInv
  <2>2. QED
    BY <2>1 DEF HoursInv, HoursTypes
<1>4. QED
  BY <1>1, <1>2, <1>3, HoursStart, HoursSteps, PTL DEF HoursSpec

-----------------------------------------------------------------------------
(* The provider token: two are signed at least MinAge apart.                *)

\* Steps is a set of naturals, and the clock never goes back behind a token.
TokenInv ==
    /\ TokenTypes
    /\ \A k \in 1 .. Len(signed) : signed[k] <= minute
    /\ UpdatesAreApart

LEMMA TokenStarts == TokenInit => TokenInv
  BY TokenAssumptions DEF TokenInit, TokenInv, TokenTypes, UpdatesAreApart, Cached

\* A token is signed now, after one that is MinAge old at least.
LEMMA SignedApart ==
  ASSUME TokenInv, minute - signed[Cached] >= MinAge, signed' = Append(signed, minute),
         minute' = minute
  PROVE  /\ signed' \in Seq(0 .. LastMinute) /\ signed' # << >>
         /\ Len(signed') = Len(signed) + 1
         /\ \A k \in 1 .. Len(signed') : signed'[k] <= minute'
         /\ UpdatesAreApart'
<1> USE TokenAssumptions DEF TokenInv, TokenTypes, Cached
<1>1. /\ signed' \in Seq(0 .. LastMinute) /\ signed' # << >>
      /\ Len(signed') = Len(signed) + 1
  OBVIOUS
<1>2. \A k \in 1 .. Len(signed) : signed'[k] = signed[k]
  OBVIOUS
<1>3. signed'[Len(signed) + 1] = minute
  OBVIOUS
<1>4. \A k \in 1 .. Len(signed) : signed[k] \in Int
  OBVIOUS
<1>5. Len(signed) \in Nat /\ Len(signed) >= 1 /\ minute \in Int
  OBVIOUS
<1>6. \A k \in 1 .. Len(signed') : signed'[k] <= minute'
  BY <1>1, <1>2, <1>3, <1>5
<1>7. ASSUME NEW k \in 2 .. Len(signed') PROVE signed'[k] - signed'[k - 1] >= MinAge
  <2>1. CASE k \in 2 .. Len(signed)
    BY <2>1, <1>2, <1>4, <1>5 DEF UpdatesAreApart
  <2>2. CASE k = Len(signed) + 1
    BY <2>2, <1>2, <1>3, <1>5
  <2>3. QED
    BY <2>1, <2>2, <1>1, <1>5
<1>8. QED
  BY <1>1, <1>6, <1>7 DEF UpdatesAreApart

LEMMA TokenSteps == TokenInv /\ [TokenNext]_tokenVars => TokenInv'
<1> SUFFICES ASSUME TokenInv, [TokenNext]_tokenVars PROVE TokenInv'
  OBVIOUS
<1> USE TokenAssumptions
<1>a. /\ Len(signed) \in Nat /\ Len(signed) >= 1 /\ minute \in 0 .. LastMinute
      /\ \A k \in 1 .. Len(signed) : signed[k] \in 0 .. LastMinute
  BY DEF TokenInv, TokenTypes
<1>1. CASE UNCHANGED tokenVars
  BY <1>1 DEF tokenVars, TokenInv, TokenTypes, UpdatesAreApart, Cached
<1>2. ASSUME NEW d \in Steps, TokenTick(d) PROVE TokenInv'
  <2>1. minute' \in 0 .. LastMinute /\ minute <= minute'
    BY <1>2, <1>a DEF TokenTick
  <2>2. \A k \in 1 .. Len(signed) : signed[k] <= minute'
    BY <2>1, <1>a DEF TokenInv
  <2>3. QED
    BY <1>2, <2>1, <2>2 DEF TokenTick, TokenInv, TokenTypes, UpdatesAreApart, Cached
<1>3. ASSUME NEW t \in Threads, Obtain(t) PROVE TokenInv'
  <2>1. CASE Age(Cached) < Reuse
    BY <1>3, <2>1, <1>a DEF Obtain, TokenInv, TokenTypes, UpdatesAreApart, Cached
  <2>2. CASE ~(Age(Cached) < Reuse)
    <3>1. minute - signed[Cached] >= MinAge
      BY <2>2, <1>a DEF Age, Cached
    <3>2. signed' = Append(signed, minute) /\ minute' = minute
      BY <1>3, <2>2 DEF Obtain
    <3>3. using' \in [Threads -> 0 .. Len(signed')]
      BY <1>3, <1>a, <3>1, <3>2, SignedApart DEF Obtain, TokenInv, TokenTypes, Cached
    <3>4. QED
      BY <1>a, <3>1, <3>2, <3>3, SignedApart DEF TokenInv, TokenTypes, Cached
  <2>3. QED
    BY <2>1, <2>2
<1>4. ASSUME NEW t \in Threads, Answered(t) PROVE TokenInv'
  BY <1>4, <1>a DEF Answered, TokenInv, TokenTypes, UpdatesAreApart, Cached
<1>5. ASSUME NEW t \in Threads, Rejected(t) PROVE TokenInv'
  <2>1. CASE ~Renewable(using[t])
    BY <1>5, <2>1, <1>a DEF Rejected, TokenInv, TokenTypes, UpdatesAreApart, Cached
  <2>2. CASE Renewable(using[t])
    <3>1. minute - signed[Cached] >= MinAge
      BY <2>2 DEF Renewable, Age
    <3>2. signed' = Append(signed, minute) /\ minute' = minute
      BY <1>5, <2>2 DEF Rejected
    <3>3. using' \in [Threads -> 0 .. Len(signed')]
      BY <1>5, <1>a, <3>1, <3>2, SignedApart DEF Rejected, TokenInv, TokenTypes, Cached
    <3>4. QED
      BY <1>a, <3>1, <3>2, <3>3, SignedApart DEF TokenInv, TokenTypes, Cached
  <2>3. QED
    BY <2>1, <2>2
<1>6. QED
  BY <1>1, <1>2, <1>3, <1>4, <1>5 DEF TokenNext

\* "Apple rejects provider-token updates made more than once within 20 minutes"
\* (push.py:559): whatever threads have a token rejected, at whatever time, two
\* are signed at least that far apart.
THEOREM TokensAreApart == TokenSpec => []UpdatesAreApart
<1>1. TokenInit => TokenInv
  BY TokenStarts
<1>2. TokenInv /\ [TokenNext]_tokenVars => TokenInv'
  BY TokenSteps
<1>3. TokenInv => UpdatesAreApart
  BY DEF TokenInv
<1>4. QED
  BY <1>1, <1>2, <1>3, PTL DEF TokenSpec

-----------------------------------------------------------------------------
(* What a user keeps.                                                       *)

\* A PUT that has an answer has met the row it answers with.
ProfileInv ==
    /\ ProfileTypes
    /\ VersionCountsChanges
    /\ SavedAnswersAreRows

LEMMA ProfileStarts == ProfileInit => ProfileInv
<1> SUFFICES ASSUME ProfileInit PROVE ProfileInv
  OBVIOUS
<1>1. passport \in [version: 0 .. LastVersion, details: Details] /\ passport.version = 0
  BY ProfileAssumptions DEF ProfileInit
<1>2. /\ rows \in 0 .. LastRow /\ saved \in 0 .. rows /\ changes \in Nat /\ changes = 0
      /\ tabs \in [Tabs -> Tab] /\ \A t \in Tabs : tabs[t].step # "done"
  BY ProfileAssumptions DEF ProfileInit, Tab, Free
<1>3. lost \in BOOLEAN
  BY DEF ProfileInit
<1>4. VersionCountsChanges
  BY <1>1, <1>2 DEF VersionCountsChanges
<1>5. QED
  BY <1>1, <1>2, <1>3, <1>4 DEF ProfileInv, ProfileTypes, SavedAnswersAreRows

LEMMA TabPhases ==
  ASSUME ProfileTypes, NEW t \in Tabs
  PROVE  /\ tabs[t] \in Tab
         /\ tabs[t].step = "patch" => tabs[t] \in Patching
         /\ tabs[t].step \in {"insert", "refresh", "reread", "done", "failed", "delete"}
              => tabs[t] \in Saving
         /\ tabs[t] = Free \/ tabs[t].step = "create" \/ tabs[t] \in Patching \/ tabs[t] \in Saving
  BY DEF ProfileTypes, Tab, Free, Patching, Saving

\* A request that goes on without an answer.
LEMMA AtStep ==
  ASSUME ProfileInv, NEW t \in Tabs, NEW q \in Tab, q.step # "done", At(t, q)
  PROVE  tabs' \in [Tabs -> Tab] /\ SavedAnswersAreRows'
<1>1. \A u \in Tabs : tabs'[u] = IF u = t THEN q ELSE tabs[u]
  BY DEF At, ProfileInv, ProfileTypes
<1>2. tabs' \in [Tabs -> Tab]
  BY DEF At, ProfileInv, ProfileTypes
<1>3. QED
  BY <1>1, <1>2 DEF ProfileInv, SavedAnswersAreRows

\* One that goes on with a row, which the others meet too.
LEMMA ToStep ==
  ASSUME ProfileInv, NEW t \in Tabs, tabs[t] = Free \/ tabs[t] \in Saving,
         NEW step \in {"insert", "refresh", "reread", "done", "failed", "delete"},
         NEW row \in 0 .. LastRow, NEW there \in 0 .. LastRow, To(t, step, row, there),
         step = "done" => row = there /\ row # 0
  PROVE  tabs' \in [Tabs -> Tab] /\ SavedAnswersAreRows'
<1> USE ProfileAssumptions
<1> DEFINE met == (IF tabs[t] = Free THEN {} ELSE tabs[t].met)
                  \cup (IF there = 0 THEN {} ELSE {there})
           q == [step |-> step, row |-> row, met |-> met]
<1>1. met \in SUBSET (1 .. LastRow)
  BY DEF Saving
<1>2. q \in Saving
  BY <1>1 DEF Saving
<1>3. ASSUME NEW u \in Tabs
      PROVE  /\ Meets(tabs[u], there) \in Tab
             /\ Meets(tabs[u], there).step = "done" => tabs[u].step = "done"
                                                      /\ Meets(tabs[u], there) = tabs[u]
  <2>1. CASE tabs[u].step \in {"insert", "refresh", "reread"} /\ there # 0
    <3>1. tabs[u] \in Saving
      BY <2>1, TabPhases DEF ProfileInv
    <3>2. Meets(tabs[u], there) \in Saving /\ Meets(tabs[u], there).step = tabs[u].step
      BY <2>1, <3>1 DEF Meets, Saving
    <3>3. QED
      BY <2>1, <3>2 DEF Tab
  <2>2. CASE ~(tabs[u].step \in {"insert", "refresh", "reread"} /\ there # 0)
    BY <2>2, TabPhases DEF Meets, ProfileInv
  <2>3. QED
    BY <2>1, <2>2
<1>4. tabs' = [u \in Tabs |-> IF u # t THEN Meets(tabs[u], there) ELSE q]
  BY DEF To
<1> HIDE DEF q
<1>5. tabs' \in [Tabs -> Tab]
  BY <1>2, <1>3, <1>4 DEF Tab
<1>6. ASSUME NEW u \in Tabs, tabs'[u].step = "done" PROVE tabs'[u].row \in tabs'[u].met
  <2>1. CASE u # t
    BY <1>3, <1>4, <1>6, <2>1 DEF ProfileInv, SavedAnswersAreRows
  <2>2. CASE u = t
    BY <1>4, <1>6, <2>2 DEF q
  <2>3. QED
    BY <2>1, <2>2
<1>7. QED
  BY <1>5, <1>6 DEF SavedAnswersAreRows

LEMMA ProfileSteps == ProfileInv /\ [ProfileNext]_profileVars => ProfileInv'
<1> SUFFICES ASSUME ProfileInv, [ProfileNext]_profileVars PROVE ProfileInv'
  OBVIOUS
<1> USE ProfileAssumptions
<1>a. Free \in Tab /\ [step |-> "create"] \in Tab
      /\ Free.step # "done" /\ [step |-> "create"].step # "done"
  BY DEF Free, Tab
<1>b. saved \in 0 .. LastRow /\ rows \in 0 .. LastRow
  BY DEF ProfileInv, ProfileTypes
<1>c. ASSUME UNCHANGED <<passport, rows, saved, changes, lost>>,
             tabs' \in [Tabs -> Tab] /\ SavedAnswersAreRows'
      PROVE  ProfileInv'
  BY <1>c DEF ProfileInv, ProfileTypes, VersionCountsChanges
<1>1. CASE UNCHANGED profileVars
  BY <1>1 DEF profileVars, ProfileInv, ProfileTypes, VersionCountsChanges, SavedAnswersAreRows
<1>2. ASSUME NEW t \in Tabs, PassportMissing(t) PROVE ProfileInv'
  BY <1>2, <1>a, <1>c, AtStep DEF PassportMissing
<1>3. ASSUME NEW t \in Tabs, PassportCreate(t) PROVE ProfileInv'
  <2>1. tabs' \in [Tabs -> Tab] /\ SavedAnswersAreRows'
    BY <1>3, <1>a, AtStep DEF PassportCreate
  <2>2. PICK d \in Details : passport' = [version |-> 1, details |-> d]
    BY <1>3 DEF PassportCreate
  <2>3. passport.version = 0 /\ changes' = changes + 1 /\ UNCHANGED <<rows, saved, lost>>
    BY <1>3 DEF PassportCreate
  <2>4. 1 \in 0 .. LastVersion
    OBVIOUS
  <2>5. QED
    BY <2>1, <2>2, <2>3, <2>4 DEF ProfileInv, ProfileTypes, VersionCountsChanges
<1>4. ASSUME NEW t \in Tabs, PatchCommit(t) PROVE ProfileInv'
  <2>1. tabs' \in [Tabs -> Tab] /\ SavedAnswersAreRows'
    BY <1>4, <1>a, AtStep DEF PatchCommit
  <2>2. tabs[t] \in Patching
    BY <1>4, TabPhases DEF PatchCommit, ProfileInv
  <2>3. /\ passport' = [version |-> tabs[t].read + 1, details |-> tabs[t].details]
        /\ tabs[t].read + 1 <= LastVersion
        /\ changes' = changes + 1
        /\ lost' = (lost \/ passport.version # tabs[t].read)
        /\ UNCHANGED <<rows, saved>>
    BY <1>4 DEF PatchCommit, NextVersion
  <2>4. passport' \in [version: 0 .. LastVersion, details: Details] /\ changes' \in Nat
    BY <2>2, <2>3 DEF Patching, ProfileInv, ProfileTypes
  <2>5. lost' \in BOOLEAN
    BY <2>3
  <2>6. ASSUME ~lost' PROVE passport'.version = changes'
    <3>1. ~lost /\ passport.version = tabs[t].read
      BY <2>3, <2>6
    <3>2. passport.version = changes
      BY <3>1 DEF ProfileInv, VersionCountsChanges
    <3>3. QED
      BY <2>3, <3>1, <3>2
  <2>7. VersionCountsChanges'
    BY <2>6 DEF VersionCountsChanges
  <2>8. QED
    BY <2>1, <2>3, <2>4, <2>5, <2>7 DEF ProfileInv, ProfileTypes
<1>5. ASSUME NEW t \in Tabs, NEW d \in Details, NEW v \in -1 .. LastVersion, PatchRead(t, d, v)
      PROVE  ProfileInv'
  <2> DEFINE q == [step |-> "patch", read |-> passport.version, details |-> d]
  <2>1. q \in Tab /\ q.step # "done"
    BY DEF Tab, Patching, ProfileInv, ProfileTypes
  <2>2. At(t, q) /\ UNCHANGED <<passport, rows, saved, changes, lost>>
    BY <1>5 DEF PatchRead
  <2> HIDE DEF q
  <2>3. QED
    BY <2>1, <2>2, <1>c, AtStep
<1>6. ASSUME NEW t \in Tabs, SaveRead(t) PROVE ProfileInv'
  <2> DEFINE step == IF saved = 0 THEN "insert" ELSE "done"
  <2>1. /\ step \in {"insert", "refresh", "reread", "done", "failed", "delete"}
        /\ step = "done" => saved # 0
    OBVIOUS
  <2>2. /\ tabs[t] = Free /\ To(t, step, saved, saved)
        /\ UNCHANGED <<passport, rows, saved, changes, lost>>
    BY <1>6 DEF SaveRead
  <2> HIDE DEF step
  <2>3. QED
    BY <2>1, <2>2, <1>b, <1>c, ToStep
<1>7. ASSUME NEW t \in Tabs, SaveCommit(t) PROVE ProfileInv'
  <2>1. tabs[t] \in Saving
    BY <1>7, TabPhases DEF SaveCommit, ProfileInv
  <2>2. CASE saved = 0
    <3>1. /\ rows + 1 \in 0 .. LastRow /\ rows' = rows + 1 /\ saved' = rows + 1
          /\ To(t, "refresh", rows + 1, rows + 1) /\ UNCHANGED <<passport, changes, lost>>
      BY <1>7, <1>b, <2>2 DEF SaveCommit
    <3>2. tabs' \in [Tabs -> Tab] /\ SavedAnswersAreRows'
      BY <2>1, <3>1, ToStep
    <3>3. QED
      BY <3>1, <3>2 DEF ProfileInv, ProfileTypes, VersionCountsChanges
  <2>3. CASE saved # 0
    <3>1. To(t, "reread", 0, saved) /\ UNCHANGED <<passport, rows, saved, changes, lost>>
      BY <1>7, <2>3 DEF SaveCommit, AfterConflict
    <3>2. tabs' \in [Tabs -> Tab] /\ SavedAnswersAreRows'
      BY <1>b, <2>1, <3>1, ToStep
    <3>3. QED
      BY <1>c, <3>1, <3>2
  <2>4. QED
    BY <2>2, <2>3
<1>8. ASSUME NEW t \in Tabs, SaveFinish(t) PROVE ProfileInv'
  <2> DEFINE step == IF saved = 0 THEN "failed" ELSE "done"
  <2>1. /\ step \in {"insert", "refresh", "reread", "done", "failed", "delete"}
        /\ step = "done" => saved # 0
    OBVIOUS
  <2>2. To(t, step, saved, saved) /\ UNCHANGED <<passport, rows, saved, changes, lost>>
    BY <1>8 DEF SaveFinish
  <2>3. tabs[t] \in Saving
    BY <1>8, TabPhases DEF SaveFinish, ProfileInv
  <2> HIDE DEF step
  <2>4. QED
    BY <2>1, <2>2, <2>3, <1>b, <1>c, ToStep
<1>9. ASSUME NEW t \in Tabs, UnsaveRead(t) PROVE ProfileInv'
  <2>1. /\ tabs[t] = Free /\ To(t, "delete", 0, saved)
        /\ UNCHANGED <<passport, rows, saved, changes, lost>>
    BY <1>9 DEF UnsaveRead
  <2>2. tabs' \in [Tabs -> Tab] /\ SavedAnswersAreRows'
    BY <1>b, <2>1, ToStep
  <2>3. QED
    BY <1>c, <2>1, <2>2
<1>10. ASSUME NEW t \in Tabs, UnsaveCommit(t) PROVE ProfileInv'
  <2>1. tabs' \in [Tabs -> Tab] /\ SavedAnswersAreRows'
    BY <1>10, <1>a, AtStep DEF UnsaveCommit
  <2>2. QED
    BY <1>10, <2>1 DEF UnsaveCommit, ProfileInv, ProfileTypes, VersionCountsChanges
<1>11. ASSUME NEW t \in Tabs, LeaveProfile(t) PROVE ProfileInv'
  BY <1>11, <1>a, <1>c, AtStep DEF LeaveProfile
<1>12. QED
  BY <1>1, <1>2, <1>3, <1>4, <1>5, <1>6, <1>7, <1>8, <1>9, <1>10, <1>11 DEF ProfileNext

\* Whether a GET or a PATCH creates the passport, and however patches overlap,
\* the version counts every change unless a patch landed on a version that it
\* had not read (profile.py:91, :107).
THEOREM VersionsCountChanges == ProfileSpec => []VersionCountsChanges
<1>1. ProfileInv => VersionCountsChanges
  BY DEF ProfileInv
<1>2. QED
  BY <1>1, ProfileStarts, ProfileSteps, PTL DEF ProfileSpec

\* "Concurrent PUTs are still idempotent; the winning row is returned"
\* (profile.py:210), for any number of PUTs and DELETEs.
THEOREM SavedAnswersWereRows == ProfileSpec => []SavedAnswersAreRows
<1>1. ProfileInv => SavedAnswersAreRows
  BY DEF ProfileInv
<1>2. QED
  BY <1>1, ProfileStarts, ProfileSteps, PTL DEF ProfileSpec

LEMMA ProfileTypesHold == ProfileSpec => []ProfileTypes
<1>1. ProfileInv => ProfileTypes
  BY DEF ProfileInv
<1>2. QED
  BY <1>1, ProfileStarts, ProfileSteps, PTL DEF ProfileSpec

-----------------------------------------------------------------------------
(* The rate limiter.                                                        *)

LEMMA LeastExists ==
  ASSUME NEW T \in SUBSET Nat, T # {}
  PROVE  Min(T) \in T /\ \A n \in T : Min(T) <= n
<1> DEFINE less == {p \in Nat \X Nat : p[1] < p[2]}
<1>1. IsWellFoundedOn(less, Nat)
  BY NatLessThanWellFounded DEF OpToRel
<1>2. PICK m \in T : \A n \in T : ~(<<n, m>> \in less)
  BY <1>1, WFMin
<1>3. ASSUME NEW n \in T PROVE m <= n
  <2>1. n \in Nat /\ m \in Nat /\ <<n, m>> \notin less
    BY <1>2
  <2>2. QED
    BY <2>1
<1>4. QED
  BY <1>3 DEF Min

\* The entries of a sequence of times that are not before t.
Since(s, t) == {i \in 1 .. Len(s) : s[i] >= t}

LEMMA SinceIsFinite ==
  ASSUME NEW s \in Seq(Ticks), NEW t \in Ticks
  PROVE  IsFiniteSet(Since(s, t)) /\ Cardinality(Since(s, t)) \in 0 .. Len(s)
<1>1. IsFiniteSet(1 .. Len(s)) /\ Cardinality(1 .. Len(s)) = Len(s)
  <2>1. 1 \in Int /\ Len(s) \in Int /\ Len(s) >= 0
    OBVIOUS
  <2>2. /\ IsFiniteSet(1 .. Len(s))
        /\ Cardinality(1 .. Len(s)) = IF 1 > Len(s) THEN 0 ELSE Len(s) - 1 + 1
    BY <2>1, FS_Interval
  <2>3. QED
    BY <2>1, <2>2
<1>2. Since(s, t) \in SUBSET (1 .. Len(s))
  BY DEF Since
<1>3. QED
  BY <1>1, <1>2, FS_Subset, FS_CardinalityType

LEMMA SinceAppend ==
  ASSUME NEW s \in Seq(Ticks), NEW t \in Ticks, NEW e \in Ticks
  PROVE  Cardinality(Since(Append(s, e), t))
             = Cardinality(Since(s, t)) + IF e >= t THEN 1 ELSE 0
<1>1. e \in Int /\ t \in Int /\ \A i \in 1 .. Len(s) : s[i] \in Int
  BY LimiterAssumptions DEF Ticks
<1>2. IsFiniteSet(Since(s, t)) /\ Cardinality(Since(s, t)) \in Nat
  BY SinceIsFinite
<1>3. Len(s) + 1 \notin Since(s, t)
  BY DEF Since
<1>4. CASE e >= t
  <2>1. Since(Append(s, e), t) = Since(s, t) \cup {Len(s) + 1}
    BY <1>1, <1>4 DEF Since
  <2>2. QED
    BY <1>2, <1>3, <1>4, <2>1, FS_AddElement
<1>5. CASE ~(e >= t)
  <2>1. Since(Append(s, e), t) = Since(s, t)
    BY <1>1, <1>5 DEF Since
  <2>2. QED
    BY <1>2, <1>5, <2>1
<1>6. QED
  BY <1>4, <1>5

\* What leaves the bucket is older than the window that ends now.
LEMMA FreshKeeps ==
  ASSUME NEW b \in Seq(Ticks), NEW now \in Ticks, NEW t \in Ticks, now < t + Window
  PROVE  /\ Fresh(b, now) \in Seq(Ticks) /\ Len(Fresh(b, now)) <= Len(b)
         /\ Cardinality(Since(b, t)) <= Cardinality(Since(Fresh(b, now), t))
<1> USE LimiterAssumptions DEF Ticks
<1> DEFINE stays == {i \in 1 .. Len(b) : b[i] > now - Window}
           least == Min(stays)
           fresh == Fresh(b, now)
<1>1. Since(b, t) \subseteq stays
  BY DEF Since
<1>2. CASE stays = {}
  <2>1. fresh = << >>
    BY <1>2 DEF Fresh
  <2>2. Since(b, t) = {} /\ Since(fresh, t) = {}
    BY <1>1, <1>2, <2>1 DEF Since
  <2>3. Cardinality({}) = 0 /\ << >> \in Seq(Ticks) /\ Len(<< >>) = 0 /\ Len(b) >= 0
    BY FS_EmptySet
  <2>4. fresh \in Seq(Ticks) /\ Len(fresh) <= Len(b)
    BY <2>1, <2>3
  <2>5. Cardinality(Since(b, t)) = 0 /\ Cardinality(Since(fresh, t)) = 0
    BY <2>2, <2>3
  <2>6. QED
    BY <2>4, <2>5
<1>3. CASE stays # {}
  <2>0. stays \in SUBSET Nat
    OBVIOUS
  <2>1. least \in stays /\ \A i \in stays : least <= i
    BY <1>3, <2>0, LeastExists
  <2>2. fresh = SubSeq(b, least, Len(b))
    BY <1>3 DEF Fresh
  <2> HIDE DEF stays, least, fresh
  <2>3. least \in 1 .. Len(b)
    BY <2>1 DEF stays
  <2>4. /\ fresh \in Seq(Ticks) /\ Len(fresh) = Len(b) - least + 1
        /\ \A i \in 1 .. Len(fresh) : fresh[i] = b[least + i - 1]
    BY <2>2, <2>3
  <2> DEFINE shift == [i \in Since(b, t) |-> i - least + 1]
  <2>5. \A i \in Since(b, t) : i \in Nat /\ i - least + 1 \in Since(fresh, t)
    <3> SUFFICES ASSUME NEW i \in Since(b, t)
                 PROVE  i \in Nat /\ i - least + 1 \in Since(fresh, t)
      OBVIOUS
    <3>1. i \in 1 .. Len(b) /\ b[i] >= t /\ least <= i
      BY <1>1, <2>1 DEF Since
    <3>2. i - least + 1 \in 1 .. Len(fresh) /\ least + (i - least + 1) - 1 = i
      BY <2>3, <2>4, <3>1
    <3>3. fresh[i - least + 1] = b[i]
      BY <2>4, <3>2
    <3>4. QED
      BY <3>1, <3>2, <3>3 DEF Since
  <2>6. shift \in Injection(Since(b, t), Since(fresh, t))
    <3>1. shift \in [Since(b, t) -> Since(fresh, t)]
      BY <2>5
    <3>2. \A i, j \in Since(b, t) : shift[i] = shift[j] => i = j
      BY <2>3, <2>5
    <3>3. QED
      BY <3>1, <3>2, Fun_IsInj
  <2>7. IsFiniteSet(Since(fresh, t))
    BY <2>4, SinceIsFinite
  <2>8. Cardinality(Since(b, t)) <= Cardinality(Since(fresh, t))
    BY <2>6, <2>7, FS_Injection
  <2>9. QED
    BY <2>3, <2>4, <2>8 DEF fresh
<1>4. QED
  BY <1>2, <1>3

\* Callers that read the clock before t and have not had the lock.
Early(t) == {c \in Callers : stamps[c] \in 0 .. t - 1}
Within(t) == {i \in 1 .. Len(admitted) : admitted[i] \in t .. t + Window - 1}

\* While t's window lasts, whoever was admitted in it is in the bucket, or had read
\* the clock before it, and did so once.
WindowIsCounted(t) ==
    monotonic \in t .. t + Window - 1 =>
        Cardinality(Since(admitted, t)) + Cardinality(Early(t))
            <= Cardinality(Since(bucket, t)) + Cardinality(Callers)

LimiterInv ==
    /\ LimiterTypes
    /\ bucket \in Seq(Ticks) /\ admitted \in Seq(Ticks)
    /\ Len(bucket) <= Limit
    /\ \A i \in 1 .. Len(admitted) : admitted[i] <= monotonic
    /\ \A c \in Callers : stamps[c] <= monotonic
    /\ \A t \in Ticks : WindowIsCounted(t)
    /\ LateAdmissionsAreFew

LEMMA EarlyIsFinite ==
  ASSUME NEW t
  PROVE  /\ IsFiniteSet(Callers) /\ Cardinality(Callers) \in Nat
         /\ IsFiniteSet(Early(t)) /\ Cardinality(Early(t)) \in 0 .. Cardinality(Callers)
<1>1. IsFiniteSet(Callers) /\ Cardinality(Callers) \in Nat
  BY LimiterAssumptions, FS_CardinalityType
<1>2. Early(t) \in SUBSET Callers
  BY DEF Early
<1>3. QED
  BY <1>1, <1>2, FS_Subset, FS_CardinalityType

LEMMA LimiterStarts == LimiterInit => LimiterInv
<1> SUFFICES ASSUME LimiterInit PROVE LimiterInv
  OBVIOUS
<1> USE LimiterAssumptions DEF Ticks
<1>1. /\ LimiterTypes /\ bucket \in Seq(Ticks) /\ admitted \in Seq(Ticks) /\ Len(bucket) <= Limit
      /\ \A i \in 1 .. Len(admitted) : admitted[i] <= monotonic
      /\ \A c \in Callers : stamps[c] <= monotonic
  BY DEF LimiterInit, LimiterTypes
<1>2. ASSUME NEW t \in Ticks
      PROVE  WindowIsCounted(t) /\ Cardinality(Within(t)) <= Limit + Cardinality(Callers)
  <2>1. Since(admitted, t) = {} /\ Within(t) = {}
    BY DEF LimiterInit, Since, Within
  <2>2. Cardinality(Since(bucket, t)) \in Nat
    BY <1>1, SinceIsFinite
  <2>3. QED
    BY <2>1, <2>2, EarlyIsFinite, FS_EmptySet DEF WindowIsCounted
<1>3. QED
  BY <1>1, <1>2 DEF LimiterInv, LateAdmissionsAreFew, Within

LEMMA TickStep == ASSUME LimiterInv, Tick PROVE LimiterInv'
<1> USE LimiterAssumptions DEF Ticks
<1>1. /\ monotonic' \in Ticks /\ monotonic' = monotonic + 1 /\ monotonic \in Nat
      /\ UNCHANGED <<bucket, stamps, admitted>>
  BY DEF Tick, LimiterInv, LimiterTypes
<1>2. ASSUME NEW t \in Ticks PROVE WindowIsCounted(t)'
  <2>1. CASE monotonic \in t .. t + Window - 1 \/ monotonic' \notin t .. t + Window - 1
    BY <1>1, <2>1 DEF LimiterInv, WindowIsCounted, Since, Early
  <2>2. CASE monotonic' = t
    <3>1. Since(admitted, t) = {}
      BY <1>1, <2>2 DEF Since, LimiterInv
    <3>2. Cardinality(Since(bucket, t)) \in Nat
      BY SinceIsFinite DEF LimiterInv
    <3>3. Cardinality(Since(admitted, t)) + Cardinality(Early(t))
              <= Cardinality(Since(bucket, t)) + Cardinality(Callers)
      BY <3>1, <3>2, EarlyIsFinite, FS_EmptySet
    <3>4. QED
      BY <1>1, <3>3 DEF WindowIsCounted, Since, Early
  <2>3. QED
    BY <1>1, <2>1, <2>2
<1>3. /\ \A i \in 1 .. Len(admitted) : admitted[i] <= monotonic'
      /\ \A c \in Callers : stamps[c] <= monotonic'
  BY <1>1 DEF LimiterInv, LimiterTypes
<1>4. QED
  BY <1>1, <1>2, <1>3 DEF LimiterInv, LimiterTypes, LateAdmissionsAreFew

LEMMA ReadClockStep == ASSUME LimiterInv, NEW c \in Callers, ReadClock(c) PROVE LimiterInv'
<1> USE LimiterAssumptions DEF Ticks
<1>1. /\ stamps[c] = -1 /\ stamps' = [stamps EXCEPT ![c] = monotonic] /\ monotonic \in Ticks
      /\ UNCHANGED <<monotonic, bucket, admitted>>
  BY DEF ReadClock, LimiterInv, LimiterTypes
<1>2. ASSUME NEW t \in Ticks, monotonic \in t .. t + Window - 1 PROVE Early(t)' = Early(t)
  BY <1>1, <1>2 DEF Early, LimiterInv, LimiterTypes
<1>3. ASSUME NEW t \in Ticks PROVE WindowIsCounted(t)'
  BY <1>1, <1>2 DEF LimiterInv, WindowIsCounted, Since
<1>4. stamps' \in [Callers -> Ticks \cup {-1}] /\ \A d \in Callers : stamps'[d] <= monotonic
  BY <1>1 DEF LimiterInv, LimiterTypes
<1>5. QED
  BY <1>1, <1>3, <1>4 DEF LimiterInv, LimiterTypes, LateAdmissionsAreFew

LEMMA CheckLockedStep == ASSUME LimiterInv, NEW c \in Callers, CheckLocked(c) PROVE LimiterInv'
<1> USE LimiterAssumptions DEF Ticks
<1> DEFINE now == stamps[c]
           fresh == Fresh(bucket, now)
<1>1. /\ now \in Ticks /\ now <= monotonic /\ monotonic \in Ticks
      /\ stamps' = [stamps EXCEPT ![c] = -1] /\ UNCHANGED monotonic
  BY DEF CheckLocked, LimiterInv, LimiterTypes
<1>2. /\ fresh \in Seq(Ticks) /\ Len(fresh) <= Limit
  <2>1. now < now + Window
    BY <1>1
  <2>2. fresh \in Seq(Ticks) /\ Len(fresh) <= Len(bucket)
    BY <1>1, <2>1, FreshKeeps DEF LimiterInv
  <2>3. QED
    BY <2>2 DEF LimiterInv
<1>3. \/ /\ Len(fresh) < Limit
         /\ bucket' = Append(fresh, now) /\ admitted' = Append(admitted, monotonic)
      \/ bucket' = fresh /\ admitted' = admitted
  BY DEF CheckLocked, Room
<1> HIDE DEF fresh
<1>4. /\ bucket' \in Seq(Ticks) /\ Len(bucket') <= Limit /\ admitted' \in Seq(Ticks)
      /\ \A i \in 1 .. Len(admitted') : admitted'[i] <= monotonic
  <2>1. /\ admitted \in Seq(Ticks) /\ monotonic <= monotonic
        /\ \A i \in 1 .. Len(admitted) : admitted[i] <= monotonic
    BY <1>1 DEF LimiterInv
  <2>2. CASE bucket' = fresh /\ admitted' = admitted
    BY <1>2, <2>1, <2>2
  <2>3. CASE /\ Len(fresh) < Limit
             /\ bucket' = Append(fresh, now) /\ admitted' = Append(admitted, monotonic)
    <3>1. bucket' \in Seq(Ticks) /\ Len(bucket') = Len(fresh) + 1
      BY <1>1, <1>2, <2>3
    <3>2. admitted' \in Seq(Ticks) /\ \A i \in 1 .. Len(admitted') : admitted'[i] <= monotonic
      BY <1>1, <2>1, <2>3
    <3>3. QED
      BY <1>2, <2>3, <3>1, <3>2
  <2>4. QED
    BY <1>3, <2>2, <2>3
<1>5. stamps' \in [Callers -> Ticks \cup {-1}] /\ \A d \in Callers : stamps'[d] <= monotonic
  BY <1>1 DEF LimiterInv, LimiterTypes
<1>6. ASSUME NEW t \in Ticks, monotonic \in t .. t + Window - 1
      PROVE  Cardinality(Since(admitted', t)) + Cardinality(Early(t)')
                 <= Cardinality(Since(bucket', t)) + Cardinality(Callers)
  <2>1. Cardinality(Since(bucket, t)) <= Cardinality(Since(fresh, t))
    BY <1>1, <1>6, FreshKeeps DEF LimiterInv, fresh
  <2>2. Cardinality(Since(admitted, t)) + Cardinality(Early(t))
            <= Cardinality(Since(bucket, t)) + Cardinality(Callers)
    BY <1>6 DEF LimiterInv, WindowIsCounted
  <2>3. Early(t)' = Early(t) \ {c} /\ (now < t <=> c \in Early(t))
    BY <1>1 DEF Early, LimiterInv, LimiterTypes
  <2>4. Cardinality(Early(t)') = Cardinality(Early(t)) - IF now < t THEN 1 ELSE 0
    <3>1. IsFiniteSet(Early(t)) /\ Cardinality(Early(t)) \in Nat
      BY EarlyIsFinite
    <3>2. Cardinality(Early(t)')
              = IF c \in Early(t) THEN Cardinality(Early(t)) - 1 ELSE Cardinality(Early(t))
      BY <2>3, <3>1, FS_RemoveElement
    <3>3. QED
      BY <2>3, <3>1, <3>2
  <2>5. /\ Cardinality(Since(bucket, t)) \in Nat /\ Cardinality(Since(fresh, t)) \in Nat
        /\ Cardinality(Since(admitted, t)) \in Nat
        /\ Cardinality(Early(t)) \in Nat /\ Cardinality(Callers) \in Nat
    <3>1. bucket \in Seq(Ticks) /\ admitted \in Seq(Ticks)
      BY DEF LimiterInv
    <3>2. ASSUME NEW s \in Seq(Ticks) PROVE Cardinality(Since(s, t)) \in Nat
      BY SinceIsFinite
    <3>3. fresh \in Seq(Ticks)
      BY <1>2
    <3>4. Cardinality(Early(t)) \in Nat /\ Cardinality(Callers) \in Nat
      BY EarlyIsFinite
    <3>5. QED
      BY <3>1, <3>2, <3>3, <3>4
  <2>6. CASE bucket' = fresh /\ admitted' = admitted
    BY <2>1, <2>2, <2>4, <2>5, <2>6
  <2>7. CASE bucket' = Append(fresh, now) /\ admitted' = Append(admitted, monotonic)
    <3>1. Cardinality(Since(admitted', t)) = Cardinality(Since(admitted, t)) + 1
      BY <1>1, <1>6, <2>7, SinceAppend DEF LimiterInv
    <3>2. Cardinality(Since(bucket', t))
              = Cardinality(Since(fresh, t)) + IF now >= t THEN 1 ELSE 0
      BY <1>1, <1>2, <2>7, SinceAppend
    <3>3. QED
      BY <1>1, <2>1, <2>2, <2>4, <2>5, <3>1, <3>2
  <2>8. QED
    BY <1>3, <2>6, <2>7
<1>7. ASSUME NEW t \in Ticks PROVE WindowIsCounted(t)'
  BY <1>1, <1>6 DEF WindowIsCounted, Since
<1>8. ASSUME NEW t \in Ticks PROVE Cardinality(Within(t)') <= Limit + Cardinality(Callers)
  <2>1. CASE monotonic \in t .. t + Window - 1
    <3>1. Within(t)' \in SUBSET Since(admitted', t)
      BY DEF Within, Since
    <3>2. Cardinality(Within(t)') <= Cardinality(Since(admitted', t))
          /\ Cardinality(Within(t)') \in Nat /\ Cardinality(Since(admitted', t)) \in Nat
      BY <1>4, <3>1, SinceIsFinite, FS_Subset, FS_CardinalityType
    <3>3. Cardinality(Since(bucket', t)) \in 0 .. Limit
      BY <1>4, SinceIsFinite
    <3>4. Cardinality(Early(t)') \in Nat /\ Cardinality(Callers) \in Nat
      <4>1. Early(t)' \in SUBSET Callers
        BY DEF Early
      <4>2. QED
        BY <4>1, EarlyIsFinite, FS_Subset, FS_CardinalityType
    <3>5. QED
      BY <1>6, <2>1, <3>2, <3>3, <3>4
  <2>2. CASE monotonic \notin t .. t + Window - 1
    <3>1. Within(t)' = Within(t)
      <4>1. admitted \in Seq(Ticks)
        BY DEF LimiterInv
      <4>2. CASE admitted' = Append(admitted, monotonic)
        BY <1>1, <2>2, <4>1, <4>2 DEF Within
      <4>3. QED
        BY <1>3, <4>2 DEF Within
    <3>2. QED
      BY <3>1 DEF LimiterInv, LateAdmissionsAreFew, Within
  <2>3. QED
    BY <2>1, <2>2
<1>9. LateAdmissionsAreFew'
  BY <1>8 DEF LateAdmissionsAreFew, Within
<1>10. LimiterTypes'
  BY <1>1, <1>4, <1>5 DEF LimiterTypes
<1>11. QED
  BY <1>1, <1>4, <1>5, <1>7, <1>9, <1>10 DEF LimiterInv

LEMMA LimiterSteps == LimiterInv /\ [LimiterNext]_limiterVars => LimiterInv'
<1> SUFFICES ASSUME LimiterInv, [LimiterNext]_limiterVars PROVE LimiterInv'
  OBVIOUS
<1>1. CASE UNCHANGED limiterVars
  BY <1>1 DEF limiterVars, LimiterInv, LimiterTypes, LateAdmissionsAreFew, WindowIsCounted,
              Since, Early
<1>2. QED
  BY <1>1, TickStep, ReadClockStep, CheckLockedStep DEF LimiterNext

\* For any number of callers, a window of any length holds at most "requests"
\* admissions, and one more for every caller, since each may have read the clock
\* before another one took its place (rate_limit.py:24, :28).
THEOREM LateAdmissionsStayFew == LimiterSpec => []LateAdmissionsAreFew
<1>1. LimiterInv => LateAdmissionsAreFew
  BY DEF LimiterInv
<1>2. QED
  BY <1>1, LimiterStarts, LimiterSteps, PTL DEF LimiterSpec

LEMMA LimiterTypesHold == LimiterSpec => []LimiterTypes
<1>1. LimiterInv => LimiterTypes
  BY DEF LimiterInv
<1>2. QED
  BY <1>1, LimiterStarts, LimiterSteps, PTL DEF LimiterSpec

-----------------------------------------------------------------------------
(* The run side by side: each component moves as its own specification says. *)

servicesVars == <<merchantVars, hoursVars, mediaVars, limiterVars, tokenVars,
                  profileVars, vars>>

LEMMA OneAtATime ==
  ASSUME [ServicesNext]_servicesVars
  PROVE  /\ [MerchantNext]_merchantVars /\ [HoursNext]_hoursVars /\ [MediaNext]_mediaVars
         /\ [LimiterNext]_limiterVars /\ [TokenNext]_tokenVars
         /\ [ProfileNext]_profileVars /\ [Next]_vars
<1>1. CASE UNCHANGED servicesVars
  BY <1>1 DEF servicesVars
<1>2. CASE ServicesNext
  BY <1>2 DEF ServicesNext, Alone
<1>3. QED
  BY <1>1, <1>2

\* A behaviour of the services side by side is a behaviour of each: what is
\* proved of a component alone holds of it there.
THEOREM ServicesAreTheirComponents ==
  ServicesSpec => /\ MerchantSpec /\ HoursSpec /\ MediaSpec /\ LimiterSpec /\ TokenSpec
                  /\ ProfileSpec /\ Spec
<1>1. ServicesInit => /\ MerchantInit /\ HoursInit /\ MediaInit /\ LimiterInit /\ TokenInit
                      /\ ProfileInit /\ Init
  BY DEF ServicesInit
<1>2. QED
  BY <1>1, OneAtATime, PTL
  DEF ServicesSpec, servicesVars, MerchantSpec, HoursSpec, MediaSpec, LimiterSpec, TokenSpec,
      ProfileSpec, Spec

\* Every variable of the seven services keeps its declared shape.
THEOREM ServicesTypeCorrect == ServicesSpec => []ServicesTypes
<1>1. MerchantSpec => []MerchantTypes
  <2>1. MerchantInv => MerchantTypes
    BY DEF MerchantInv
  <2>2. QED
    BY <2>1, MerchantStarts, MerchantSteps, PTL DEF MerchantSpec
<1>2. TokenSpec => []TokenTypes
  <2>1. TokenInv => TokenTypes
    BY DEF TokenInv
  <2>2. QED
    BY <2>1, TokenStarts, TokenSteps, PTL DEF TokenSpec
<1>3. ServicesTypes <=> /\ MerchantTypes /\ HoursTypes /\ MediaTypes /\ LimiterTypes
                        /\ TokenTypes /\ ProfileTypes /\ TypeOK
  BY DEF ServicesTypes
<1>4. QED
  BY <1>1, <1>2, <1>3, ServicesAreTheirComponents, HoursTypesHold, MediaTypeCorrect,
     LimiterTypesHold, ProfileTypesHold, MessagingTypeCorrect, PTL
==============================================================================
