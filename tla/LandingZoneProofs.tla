------------------------- MODULE LandingZoneProofs -------------------------
(***************************************************************************)
(* Theorems about LandingZone for any entries, files and ingests, any      *)
(* delay and any failures.  That data is complete when it is stored needs  *)
(* writers that pause for less than *delay_seconds: nothing else tells the *)
(* rule that a file has been written to its end.                           *)
(***************************************************************************)
EXTENDS LandingZone, TLAPS

(* What a recorded size tells: files do not shrink, and an entry whose     *)
(* files all have the recorded sizes has been quiet as long as the ingest  *)
(* has slept, while an entry that is open is never quiet for long.         *)
Recorded ==
  /\ \A i \in Ingests : \A f \in Files :
       sizes[i][f] # NoFile => size[f] # NoFile /\ sizes[i][f] <= size[f]
  /\ \A i \in Ingests : \A e \in globbed[i] :
       /\ pc[i] = "sleep" /\ entry[e] # "absent"
       /\ e \in Present /\ IsItDone(i, e) => quiet[e] >= slept[i]
  /\ \A e \in Entries :
       /\ entry[e] = "open" => quiet[e] <= Pause
       /\ entry[e] = "absent" => \A f \in FilesOf[e] : size[f] = NoFile

(* What an ingest has listed is finished, ...                              *)
Finished(e) == entry[e] \in {"closed", "processed"}

ListedFinished ==
  \A i \in Ingests :
    /\ \A e \in listed[i] : Finished(e)
    /\ cur[i] # NoEntry => Finished(cur[i])

(* ... and what it has put of an entry is in the grid, if no failure of    *)
(* msiput_dataobj_or_coll was answered as success.                         *)
InGridAndTagged(e) == InGrid(e) /\ (e \in Images => e \in tagged)

PutSoFar ==
  \A i \in Ingests : cur[i] # NoEntry /\ cur[i] \notin hushed =>
    /\ pc[i] = "put" => \A f \in FilesOf[cur[i]] : f \in left[i] \/ stored[f] = size[f]
    /\ pc[i] = "meta" => real[i] = cur[i] /\ InGrid(cur[i])
    /\ pc[i] = "rename" => InGridAndTagged(cur[i])

LandingInv == TypeOK /\ Recorded /\ ListedFinished /\ Whole

LostInv == PutSoFar /\ LostOnlyByHush

-----------------------------------------------------------------------------
(* The numbers that time is made of.                                       *)
LEMMA Clock ==
  /\ Delay \in Nat \ {0} /\ Pause \in Nat \ {0} /\ MaxFaults \in Nat
  /\ MaxQuiet \in Nat /\ MaxQuiet > Delay /\ MaxQuiet > Pause
<1>1. Delay \in Nat \ {0} /\ Pause \in Nat \ {0} /\ MaxFaults \in Nat
  BY LandingAssumption
<1> QED BY <1>1 DEF MaxQuiet

(* The files of an entry are files, and of no other entry.                 *)
LEMMA FilesOfType ==
  /\ \A e \in Entries : FilesOf[e] \subseteq Files
  /\ \A e, d \in Entries : \A f \in FilesOf[e] : f \in FilesOf[d] => e = d
  /\ \A e \in Entries \ Dirs : \E f \in Files : FilesOf[e] = {f}
  /\ NoFile \notin Nat /\ NoEntry \notin Entries
  BY LandingAssumption

(* Failures are counted to their bound.                                    *)
LEMMA FailType ==
  ASSUME faults \in 0 .. MaxFaults, NEW kind, Fail(kind)
  PROVE  faults' \in 0 .. MaxFaults
  BY Clock DEF Fail

(* The state of the ingests.                                               *)
IngestsOK ==
  /\ pc \in [Ingests -> {"idle", "sleep", "next", "connect", "put", "meta", "rename"}]
  /\ globbed \in [Ingests -> SUBSET Entries]
  /\ sizes \in [Ingests -> [Files -> Nat \cup {NoFile}]]
  /\ slept \in [Ingests -> 0 .. Delay]
  /\ listed \in [Ingests -> SUBSET Entries]
  /\ cur \in [Ingests -> Entries \cup {NoEntry}]
  /\ left \in [Ingests -> SUBSET Files]
  /\ real \in [Ingests -> Entries \cup {NoEntry}]
  /\ \A i \in Ingests :
       /\ pc[i] \in {"connect", "put", "meta", "rename"} => cur[i] \in Entries
       /\ left[i] # {} => pc[i] = "put" /\ left[i] \subseteq FilesOf[cur[i]]

(* Before a glob, no size is recorded.                                     *)
LEMMA NoSizesType == NoSizes \in [Files -> Nat \cup {NoFile}]
  BY DEF NoSizes

(* An ingest that stops keeps nothing.                                     *)
LEMMA StopType ==
  ASSUME IngestsOK, NEW i \in Ingests, Stop(i)
  PROVE  IngestsOK'
  BY Clock, NoSizesType DEF IngestsOK, Stop, Goto

(* Each step of an ingest keeps the types of its state.                    *)
LEMMA IngestTypes ==
  ASSUME IngestsOK, size \in [Files -> Nat \cup {NoFile}],
         NEW i \in Ingests, ingest_rule(i) \/ Crash(i)
  PROVE  IngestsOK'
<1> USE DEF IngestsOK, scan, Goto, EndEntry
<1>1. ASSUME Glob(i) PROVE IngestsOK'
  <2> DEFINE ss == [f \in Files |-> IF \E e \in Present : f \in FilesOf[e] THEN size[f] ELSE NoFile]
  <2>1. ss \in [Files -> Nat \cup {NoFile}]
    OBVIOUS
  <2>2. Present \in SUBSET Entries
    BY DEF Present
  <2>3. /\ globbed' = [globbed EXCEPT ![i] = Present] /\ sizes' = [sizes EXCEPT ![i] = ss]
        /\ slept' = [slept EXCEPT ![i] = 0] /\ pc' = [pc EXCEPT ![i] = "sleep"]
        /\ pc[i] = "idle" /\ UNCHANGED <<listed, cur, left, real>>
    BY <1>1 DEF Glob
  <2> HIDE DEF ss
  <2> QED BY <2>1, <2>2, <2>3, Clock
<1>2. ASSUME Check(i) PROVE IngestsOK'
  <2>1. PICK e \in globbed[i] :
          /\ globbed' = [globbed EXCEPT ![i] = @ \ {e}]
          /\ listed' = [listed EXCEPT ![i] = IF e \in Present /\ Ripe(i, e) THEN @ \cup {e} ELSE @]
    BY <1>2 DEF Check
  <2>2. UNCHANGED <<sizes, slept, pc, cur, left, real>>
    BY <1>2 DEF Check
  <2> QED BY <2>1, <2>2
<1>3. ASSUME CheckDone(i) PROVE IngestsOK'
  BY <1>3, Clock, NoSizesType DEF CheckDone
<1>4. ASSUME NextEntry(i) PROVE IngestsOK'
  <2>1. PICK e \in listed[i] :
          /\ cur' = [cur EXCEPT ![i] = e]
          /\ listed' = [listed EXCEPT ![i] = @ \ {e}]
    BY <1>4 DEF NextEntry
  <2>2. /\ pc[i] = "next" /\ pc' = [pc EXCEPT ![i] = "connect"]
        /\ UNCHANGED <<globbed, sizes, slept, left, real>>
    BY <1>4 DEF NextEntry
  <2>3. left[i] = {}
    BY <2>2
  <2> QED BY <2>1, <2>2, <2>3
<1>5. ASSUME MakeCollFails(i) \/ Rename(i) \/ PutGone(i) PROVE IngestsOK'
  <2>1. /\ pc' = [pc EXCEPT ![i] = "next"] /\ cur' = [cur EXCEPT ![i] = NoEntry]
        /\ UNCHANGED <<globbed, sizes, slept, listed, real>>
    BY <1>5 DEF MakeCollFails, Rename, PutGone
  <2>2. left' = [left EXCEPT ![i] = {}]
    BY <1>5 DEF MakeCollFails, Rename, PutGone
  <2> QED BY <2>1, <2>2
<1>6. ASSUME Connect(i) PROVE IngestsOK'
  <2>1. OnDisk(cur[i]) \subseteq FilesOf[cur[i]] /\ cur[i] \in Entries
    BY <1>6 DEF Connect, OnDisk, Present
  <2> QED BY <1>6, <2>1, FilesOfType DEF Connect
<1>7. ASSUME ConnectFails(i) PROVE IngestsOK'
  BY <1>7 DEF ConnectFails
<1>8. ASSUME CollCreateFails(i) PROVE IngestsOK'
  BY <1>8 DEF CollCreateFails
<1>9. ASSUME PutAFile(i) PROVE IngestsOK'
  BY <1>9 DEF PutAFile
<1>10. ASSUME PutRefused(i) PROVE IngestsOK'
  <2>1. PICK f \in left[i] : left' = [left EXCEPT ![i] = @ \ {f}]
    BY <1>10 DEF PutRefused
  <2>2. pc[i] = "put" /\ UNCHANGED <<globbed, sizes, slept, listed, real>>
    BY <1>10 DEF PutRefused
  <2>3. CASE cur[i] \in Dirs
    BY <1>10, <2>1, <2>2, <2>3 DEF PutRefused
  <2>4. CASE cur[i] \notin Dirs
    <3>1. left'[i] = {}
      <4>1. cur[i] \in Entries \ Dirs /\ left[i] \subseteq FilesOf[cur[i]]
        BY <2>1, <2>2, <2>4
      <4>2. \E g \in Files : FilesOf[cur[i]] = {g}
        BY <4>1, FilesOfType
      <4>3. left'[i] = left[i] \ {f}
        BY <2>1
      <4> QED BY <4>1, <4>2, <4>3
    <3>2. pc' = [pc EXCEPT ![i] = "next"] /\ cur' = [cur EXCEPT ![i] = NoEntry]
      BY <1>10, <2>4 DEF PutRefused
    <3> QED BY <2>1, <2>2, <3>1, <3>2
  <2> QED BY <2>3, <2>4
<1>11. ASSUME PutDone(i) PROVE IngestsOK'
  BY <1>11 DEF PutDone
<1>12. ASSUME GatherMeta(i) PROVE IngestsOK'
  BY <1>12 DEF GatherMeta
<1>13. ASSUME MetaFails(i) \/ Throws(i) \/ IngestDone(i) \/ Crash(i) PROVE IngestsOK'
  BY <1>13, StopType DEF MetaFails, Throws, IngestDone, Crash
<1> QED BY <1>1, <1>2, <1>3, <1>4, <1>5, <1>6, <1>7, <1>8, <1>9, <1>10, <1>11, <1>12, <1>13
        DEF ingest_rule, Put

(* What the steps of an ingest do to the rest: they only store files of    *)
(* the entry they work on, tag it, and move it.                            *)
LEMMA IngestEffect ==
  ASSUME TypeOK, NEW i \in Ingests, ingest_rule(i) \/ Crash(i)
  PROVE  /\ size' = size /\ tagged \subseteq tagged' /\ hushed \subseteq hushed'
         /\ \/ UNCHANGED <<entry, quiet, stored>>
            \/ Rename(i) /\ stored' = stored
            \/ PutAFile(i) /\ UNCHANGED <<entry, quiet>>
         /\ faults' \in 0 .. MaxFaults
<1>1. faults \in 0 .. MaxFaults
  BY DEF TypeOK
<1>2. faults' \in 0 .. MaxFaults
  <2>1. faults' = faults \/ \E kind \in Kinds : Fail(kind)
    BY DEF ingest_rule, Put, Glob, Check, CheckDone, NextEntry, MakeCollFails, Connect, ConnectFails,
           CollCreateFails, PutAFile, PutRefused, PutGone, PutDone, GatherMeta, MetaFails, Rename,
           Throws, IngestDone, Crash, blame, Kinds
  <2> QED BY <1>1, <2>1, FailType
<1>3. size' = size /\ tagged \subseteq tagged' /\ hushed \subseteq hushed'
  BY DEF ingest_rule, Put, Glob, Check, CheckDone, NextEntry, MakeCollFails, Connect, ConnectFails,
         CollCreateFails, PutAFile, PutRefused, PutGone, PutDone, GatherMeta, MetaFails, Rename,
         Throws, IngestDone, Crash, disk, grid, blame, Hush
<1>4. \/ UNCHANGED <<entry, quiet, stored>>
      \/ Rename(i) /\ stored' = stored
      \/ PutAFile(i) /\ UNCHANGED <<entry, quiet>>
  BY DEF ingest_rule, Put, Glob, Check, CheckDone, NextEntry, MakeCollFails, Connect, ConnectFails,
         CollCreateFails, PutAFile, PutRefused, PutGone, PutDone, GatherMeta, MetaFails, Rename,
         Throws, IngestDone, Crash, disk, grid
<1> QED BY <1>2, <1>3, <1>4

(* Each step of a writer, of time and of an ingest keeps the types.        *)
LEMMA TypeNext ==
  ASSUME TypeOK, [Next]_vars
  PROVE  TypeOK'
<1>1. CASE UNCHANGED vars
  BY <1>1 DEF TypeOK, vars, disk, grid, scan, ingest, blame
<1>2. IngestsOK
  BY DEF TypeOK, IngestsOK
<1>3. ASSUME NEW e \in Entries, Writer(e) PROVE TypeOK'
  <2>1. IngestsOK' /\ UNCHANGED <<stored, tagged, hushed, faults>>
    BY <1>2, <1>3 DEF Writer, Begin, Write, Close, IngestsOK, grid, scan, ingest, blame
  <2>2. entry' \in [Entries -> {"absent", "open", "closed", "processed"}]
    <3>1. entry' \in {entry, [entry EXCEPT ![e] = "open"], [entry EXCEPT ![e] = "closed"]}
      BY <1>3 DEF Writer, Begin, Write, Close
    <3> QED BY <3>1 DEF TypeOK
  <2>3. quiet' \in [Entries -> 0 .. MaxQuiet]
    BY <1>3, Clock DEF TypeOK, Writer, Begin, Write, Close
  <2>4. size' \in [Files -> Nat \cup {NoFile}]
    BY <1>3, FilesOfType DEF TypeOK, Writer, Begin, Write, Close
  <2> QED BY <2>1, <2>2, <2>3, <2>4 DEF TypeOK, IngestsOK
<1>4. CASE Tick
  <2>1. UNCHANGED <<entry, size, stored, tagged, globbed, sizes, pc, listed, cur, left, real, hushed, faults>>
    BY <1>4 DEF Tick, grid, ingest, blame
  <2>2. quiet' \in [Entries -> 0 .. MaxQuiet]
    BY <1>4, Clock DEF TypeOK, Tick
  <2>3. slept' \in [Ingests -> 0 .. Delay]
    BY <1>4, Clock DEF TypeOK, Tick
  <2> QED BY <2>1, <2>2, <2>3 DEF TypeOK
<1>5. ASSUME NEW i \in Ingests, ingest_rule(i) \/ Crash(i) PROVE TypeOK'
  <2>1. IngestsOK'
    BY <1>2, <1>5, IngestTypes DEF TypeOK
  <2>2. /\ size' = size /\ faults' \in 0 .. MaxFaults
        /\ \/ UNCHANGED <<entry, quiet, stored>>
           \/ Rename(i) /\ stored' = stored
           \/ PutAFile(i) /\ UNCHANGED <<entry, quiet>>
    BY <1>5, IngestEffect
  <2>3. entry' \in [Entries -> {"absent", "open", "closed", "processed"}]
    BY <2>2 DEF TypeOK, Rename
  <2>4. quiet' \in [Entries -> 0 .. MaxQuiet]
    BY <2>2, Clock DEF TypeOK, Rename
  <2>5. stored' \in [Files -> Nat \cup {NoFile}]
    BY <2>2 DEF TypeOK, PutAFile
  <2>6. tagged' \subseteq Entries
    BY <1>5 DEF TypeOK, ingest_rule, Put, Glob, Check, CheckDone, NextEntry, MakeCollFails, Connect,
           ConnectFails, CollCreateFails, PutAFile, PutRefused, PutGone, PutDone, GatherMeta,
           MetaFails, Rename, Throws, IngestDone, Crash, grid
  <2>7. hushed' \subseteq Entries
    BY <1>5 DEF TypeOK, ingest_rule, Put, Glob, Check, CheckDone, NextEntry, MakeCollFails, Connect,
           ConnectFails, CollCreateFails, PutAFile, PutRefused, PutGone, PutDone, GatherMeta,
           MetaFails, Rename, Throws, IngestDone, Crash, blame, Hush
  <2> QED BY <2>1, <2>2, <2>3, <2>4, <2>5, <2>6, <2>7 DEF TypeOK, IngestsOK
<1> QED BY <1>1, <1>3, <1>4, <1>5 DEF Next

(* Every variable keeps its type.                                          *)
THEOREM TypeCorrect == Spec => []TypeOK
<1>1. Init => TypeOK
  <2> SUFFICES ASSUME Init PROVE TypeOK
    OBVIOUS
  <2> QED BY Clock, NoSizesType DEF Init, TypeOK
<1>2. TypeOK /\ [Next]_vars => TypeOK'
  BY TypeNext
<1> QED BY <1>1, <1>2, PTL DEF Spec

-----------------------------------------------------------------------------
(* Only its own steps change what an ingest does.                          *)
LEMMA IngestAlone ==
  ASSUME TypeOK, [Next]_vars, NEW i \in Ingests, ~(ingest_rule(i) \/ Crash(i))
  PROVE  /\ pc'[i] = pc[i] /\ globbed'[i] = globbed[i] /\ sizes'[i] = sizes[i]
         /\ listed'[i] = listed[i] /\ cur'[i] = cur[i] /\ left'[i] = left[i] /\ real'[i] = real[i]
         /\ ~Tick => slept'[i] = slept[i]
<1>1. IngestsOK
  BY DEF TypeOK, IngestsOK
<1>2. ASSUME NEW k \in Ingests, ingest_rule(k) \/ Crash(k), k # i
      PROVE  /\ pc'[i] = pc[i] /\ globbed'[i] = globbed[i] /\ sizes'[i] = sizes[i]
             /\ listed'[i] = listed[i] /\ cur'[i] = cur[i] /\ left'[i] = left[i] /\ real'[i] = real[i]
             /\ slept'[i] = slept[i]
  BY <1>1, <1>2 DEF IngestsOK, ingest_rule, Put, Glob, Check, CheckDone, NextEntry, MakeCollFails,
         Connect, ConnectFails, CollCreateFails, PutAFile, PutRefused, PutGone, PutDone, GatherMeta,
         MetaFails, Rename, Throws, IngestDone, Crash, Stop, Goto, EndEntry, scan
<1>3. CASE Tick
  BY <1>3 DEF Tick, ingest
<1>4. CASE UNCHANGED <<scan, ingest>>
  BY <1>4 DEF scan, ingest
<1>5. UNCHANGED <<scan, ingest>> \/ Tick \/ \E k \in Ingests : ingest_rule(k) \/ Crash(k)
  BY DEF Next, vars, Writer, Begin, Write, Close
<1> QED BY <1>2, <1>3, <1>4, <1>5

(* A writer adds to the files of its own entry, and to no others.          *)
LEMMA WriterEffect ==
  ASSUME TypeOK, Recorded, NEW e \in Entries, Writer(e)
  PROVE  /\ \A f \in Files : size[f] # NoFile => size'[f] \in Nat /\ size[f] <= size'[f]
         /\ \A d \in Entries \ {e} : entry'[d] = entry[d] /\ quiet'[d] = quiet[d]
                                     /\ \A f \in FilesOf[d] : size'[f] = size[f]
         /\ entry[e] \in {"absent", "open"} /\ entry'[e] \in {"open", "closed"}
         /\ Close(e) => entry[e] = "open" /\ size' = size /\ quiet' = quiet
         /\ ~Close(e) => entry'[e] = "open" /\ quiet'[e] = 0
         /\ UNCHANGED <<grid, scan, ingest, blame>>
<1>1. entry[e] = "absent" => \A f \in FilesOf[e] : size[f] = NoFile
  BY DEF Recorded
<1>2. ASSUME Begin(e)
      PROVE  /\ \A f \in Files : size[f] # NoFile => size'[f] = size[f]
             /\ \A d \in Entries \ {e} : \A f \in FilesOf[d] : size'[f] = size[f]
  BY <1>1, <1>2, FilesOfType DEF Begin
<1>3. ASSUME Write(e)
      PROVE  /\ \A f \in Files : size[f] # NoFile => size'[f] \in Nat /\ size[f] <= size'[f]
             /\ \A d \in Entries \ {e} : \A f \in FilesOf[d] : size'[f] = size[f]
  <2>1. PICK g \in FilesOf[e] : size' = [size EXCEPT ![g] = IF @ = NoFile THEN 0 ELSE @ + 1]
    BY <1>3 DEF Write
  <2>2. g \in Files
    BY FilesOfType
  <2>3. \A f \in Files : size[f] # NoFile => size[f] \in Nat
    BY DEF TypeOK
  <2>4. \A f \in Files \ {g} : size'[f] = size[f]
    BY <2>1, <2>2 DEF TypeOK
  <2>5. size[g] # NoFile => size'[g] = size[g] + 1
    BY <2>1, <2>2 DEF TypeOK
  <2>6. \A d \in Entries \ {e} : g \notin FilesOf[d]
    BY FilesOfType
  <2> QED BY <2>3, <2>4, <2>5, <2>6, FilesOfType
<1>4. \A f \in Files : size[f] # NoFile => size'[f] \in Nat /\ size[f] <= size'[f]
  <2>1. \A f \in Files : size[f] # NoFile => size[f] \in Nat
    BY DEF TypeOK
  <2> QED BY <1>2, <1>3, <2>1 DEF Writer, Close
<1>5. \A d \in Entries \ {e} : \A f \in FilesOf[d] : size'[f] = size[f]
  BY <1>2, <1>3 DEF Writer, Close
<1>6. \A d \in Entries \ {e} : entry'[d] = entry[d] /\ quiet'[d] = quiet[d]
  BY DEF TypeOK, Writer, Begin, Write, Close
<1>7. /\ entry[e] \in {"absent", "open"} /\ entry'[e] \in {"open", "closed"}
      /\ Close(e) => entry[e] = "open" /\ size' = size /\ quiet' = quiet
      /\ ~Close(e) => entry'[e] = "open" /\ quiet'[e] = 0
      /\ UNCHANGED <<grid, scan, ingest, blame>>
  BY DEF TypeOK, Writer, Begin, Write, Close
<1> QED BY <1>4, <1>5, <1>6, <1>7

(* After a write the sizes that an ingest has recorded do not agree any    *)
(* more, and they never will again.                                        *)
LEMMA WriteIsSeen ==
  ASSUME TypeOK, Recorded, NEW e \in Entries, Write(e), NEW i \in Ingests
  PROVE  ~IsItDone(i, e)'
<1>1. PICK g \in FilesOf[e] : size' = [size EXCEPT ![g] = IF @ = NoFile THEN 0 ELSE @ + 1]
  BY DEF Write
<1>2. g \in Files /\ sizes' = sizes /\ NoFile \notin Nat
  BY FilesOfType DEF Write, scan
<1>3. sizes[i][g] # NoFile => size[g] # NoFile /\ sizes[i][g] <= size[g]
  BY <1>2 DEF Recorded
<1>4. sizes[i][g] \in Nat \cup {NoFile} /\ size[g] \in Nat \cup {NoFile}
  BY <1>2 DEF TypeOK
<1>5. size'[g] = IF size[g] = NoFile THEN 0 ELSE size[g] + 1
  BY <1>1, <1>2 DEF TypeOK
<1>6. size'[g] # NoFile /\ sizes[i][g] # size'[g]
  BY <1>2, <1>3, <1>4, <1>5
<1>7. g \in OnDisk(e)'
  BY <1>6 DEF OnDisk
<1> QED BY <1>2, <1>6, <1>7 DEF IsItDone

(* Each step keeps what the recorded sizes tell.                           *)
LEMMA RecordedNext ==
  ASSUME TypeOK, TypeOK', Recorded, [Next]_vars
  PROVE  Recorded'
<1> DEFINE R(i) == \A f \in Files :
                     sizes[i][f] # NoFile => size[f] # NoFile /\ sizes[i][f] <= size[f]
           Q(i, e) == /\ pc[i] = "sleep" /\ entry[e] # "absent"
                      /\ e \in Present /\ IsItDone(i, e) => quiet[e] >= slept[i]
           O(e) == /\ entry[e] = "open" => quiet[e] <= Pause
                   /\ entry[e] = "absent" => \A f \in FilesOf[e] : size[f] = NoFile
<1>0. /\ \A i \in Ingests : R(i) /\ \A e \in globbed[i] : Q(i, e)
      /\ \A e \in Entries : O(e)
  BY DEF Recorded
<1>1. SUFFICES /\ \A i \in Ingests : R(i)' /\ \A e \in globbed'[i] : Q(i, e)'
               /\ \A e \in Entries : O(e)'
  BY DEF Recorded
<1> HIDE DEF R, Q, O
<1>2. CASE UNCHANGED vars
  BY <1>0, <1>2 DEF vars, disk, scan, ingest, R, Q, O, Present, IsItDone, OnDisk
<1>3. ASSUME NEW e \in Entries, Writer(e)
      PROVE  /\ \A i \in Ingests : R(i)' /\ \A d \in globbed'[i] : Q(i, d)'
             /\ \A d \in Entries : O(d)'
  <2>1. /\ \A f \in Files : size[f] # NoFile => size'[f] \in Nat /\ size[f] <= size'[f]
        /\ \A d \in Entries \ {e} : entry'[d] = entry[d] /\ quiet'[d] = quiet[d]
                                    /\ \A f \in FilesOf[d] : size'[f] = size[f]
        /\ entry[e] \in {"absent", "open"} /\ entry'[e] \in {"open", "closed"}
        /\ Close(e) => entry[e] = "open" /\ size' = size /\ quiet' = quiet
        /\ ~Close(e) => entry'[e] = "open" /\ quiet'[e] = 0
        /\ UNCHANGED <<grid, scan, ingest, blame>>
    BY <1>3, WriterEffect
  <2>2. ASSUME NEW i \in Ingests PROVE R(i)'
    <3> SUFFICES ASSUME NEW f \in Files, sizes[i][f] # NoFile
                 PROVE  size'[f] # NoFile /\ sizes[i][f] <= size'[f]
      BY <2>1 DEF R, scan
    <3>1. size[f] # NoFile /\ sizes[i][f] <= size[f]
      BY <1>0 DEF R
    <3>2. sizes[i][f] \in Nat /\ size[f] \in Nat /\ size'[f] \in Nat /\ size[f] <= size'[f]
      BY <2>1, <3>1 DEF TypeOK
    <3> QED BY <3>1, <3>2, FilesOfType
  <2>3. ASSUME NEW i \in Ingests, NEW d \in globbed'[i] PROVE Q(i, d)'
    <3>1. d \in globbed[i] /\ d \in Entries /\ Q(i, d)
      BY <1>0, <2>1 DEF TypeOK, scan
    <3>2. pc' = pc /\ slept' = slept /\ sizes' = sizes
      BY <2>1 DEF scan, ingest
    <3>3. CASE d # e
      BY <2>1, <3>1, <3>2, <3>3 DEF Q, Present, IsItDone, OnDisk
    <3>4. CASE d = e /\ Close(e)
      BY <2>1, <3>1, <3>2, <3>4 DEF Q, Present, IsItDone, OnDisk
    <3>5. CASE d = e /\ Write(e)
      <4>1. ~IsItDone(i, e)'
        BY <3>5, WriteIsSeen
      <4> QED BY <2>1, <3>1, <3>2, <3>5, <4>1 DEF Q
    <3>6. ~(d = e /\ Begin(e))
      BY <3>1 DEF Q, Begin
    <3> QED BY <1>3, <3>3, <3>4, <3>5, <3>6 DEF Writer
  <2>4. ASSUME NEW d \in Entries PROVE O(d)'
    BY <1>0, <2>1, Clock DEF O
  <2> QED BY <2>2, <2>3, <2>4
<1>4. ASSUME Tick
      PROVE  /\ \A i \in Ingests : R(i)' /\ \A d \in globbed'[i] : Q(i, d)'
             /\ \A d \in Entries : O(d)'
  <2>1. UNCHANGED <<entry, size, globbed, sizes, pc>>
    BY <1>4 DEF Tick, ingest
  <2>2. \A i \in Ingests : R(i)'
    BY <1>0, <2>1 DEF R
  <2>3. ASSUME NEW i \in Ingests, NEW d \in globbed[i] PROVE Q(i, d)'
    <3>1. Q(i, d) /\ d \in Entries
      BY <1>0 DEF TypeOK
    <3>2. d \in Present => quiet'[d] = IF quiet[d] < MaxQuiet THEN quiet[d] + 1 ELSE quiet[d]
      BY <1>4, <3>1 DEF Tick
    <3>3. slept'[i] = IF pc[i] = "sleep" /\ slept[i] < Delay THEN slept[i] + 1 ELSE slept[i]
      BY <1>4 DEF Tick
    <3>4. quiet[d] \in Nat /\ quiet[d] <= MaxQuiet /\ slept[i] \in Nat /\ slept[i] <= Delay
      BY <3>1, Clock DEF TypeOK
    <3>5. d \in Present /\ quiet[d] >= slept[i] => quiet'[d] >= slept'[i]
      BY <3>2, <3>3, <3>4, Clock
    <3> QED BY <2>1, <3>1, <3>5 DEF Q, Present, IsItDone, OnDisk
  <2>4. ASSUME NEW d \in Entries PROVE O(d)'
    <3>1. entry[d] = "open" => quiet'[d] <= Pause
      BY <1>4, Clock DEF TypeOK, Tick, Present
    <3> QED BY <1>0, <2>1, <3>1 DEF O
  <2> QED BY <2>1, <2>2, <2>3, <2>4
<1>5. ASSUME NEW k \in Ingests, ingest_rule(k) \/ Crash(k)
      PROVE  /\ \A i \in Ingests : R(i)' /\ \A d \in globbed'[i] : Q(i, d)'
             /\ \A d \in Entries : O(d)'
  <2>1. /\ size' = size
        /\ \/ UNCHANGED <<entry, quiet>>
           \/ Rename(k)
    BY <1>5, IngestEffect
  <2>2. /\ globbed'[k] \subseteq globbed[k] \/ Glob(k)
        /\ sizes'[k] \in {sizes[k], NoSizes} \/ Glob(k)
        /\ globbed'[k] # {} => Glob(k) \/ pc[k] # "sleep"
             \/ (pc'[k] = "sleep" /\ sizes'[k] = sizes[k] /\ slept'[k] = slept[k])
    BY <1>5 DEF TypeOK, ingest_rule, Put, Glob, Check, CheckDone, NextEntry, MakeCollFails, Connect,
           ConnectFails, CollCreateFails, PutAFile, PutRefused, PutGone, PutDone, GatherMeta,
           MetaFails, Rename, Throws, IngestDone, Crash, Stop, Goto, EndEntry, scan
  <2>3. \A i \in Ingests \ {k} :
          pc'[i] = pc[i] /\ globbed'[i] = globbed[i] /\ sizes'[i] = sizes[i] /\ slept'[i] = slept[i]
    BY <1>5 DEF TypeOK, ingest_rule, Put, Glob, Check, CheckDone, NextEntry, MakeCollFails, Connect,
           ConnectFails, CollCreateFails, PutAFile, PutRefused, PutGone, PutDone, GatherMeta,
           MetaFails, Rename, Throws, IngestDone, Crash, Stop, Goto, EndEntry, scan
  <2>4. ASSUME NEW i \in Ingests PROVE R(i)'
    <3>1. CASE sizes'[i] = sizes[i]
      BY <1>0, <2>1, <3>1 DEF R
    <3>2. CASE sizes'[i] = NoSizes
      BY <3>2 DEF R, NoSizes
    <3>3. CASE i = k /\ Glob(k)
      <4>1. \A f \in Files : sizes'[i][f] = size[f] \/ sizes'[i][f] = NoFile
        BY <3>3 DEF Glob, TypeOK
      <4>2. \A f \in Files : size[f] # NoFile => size[f] <= size[f]
        BY DEF TypeOK
      <4> QED BY <2>1, <4>1, <4>2 DEF R
    <3> QED BY <2>2, <2>3, <3>1, <3>2, <3>3
  <2>5. ASSUME NEW i \in Ingests, NEW d \in globbed'[i] PROVE Q(i, d)'
    <3>0. d \in Entries
      BY DEF TypeOK
    <3>1. CASE i = k /\ Glob(k)
      <4>1. pc'[i] = "sleep" /\ slept'[i] = 0 /\ d \in Present /\ UNCHANGED <<entry, quiet>>
        BY <3>1 DEF Glob, TypeOK, disk
      <4> QED BY <3>0, <4>1, Clock DEF Q, Present, TypeOK
    <3>2. CASE ~(i = k /\ Glob(k))
      <4>1. d \in globbed[i] /\ Q(i, d)
        BY <1>0, <2>2, <2>3, <3>2
      <4>2. pc'[i] = "sleep" /\ sizes'[i] = sizes[i] /\ slept'[i] = slept[i]
        BY <2>2, <2>3, <3>2, <4>1 DEF Q
      <4>3. CASE UNCHANGED <<entry, quiet>>
        BY <2>1, <4>1, <4>2, <4>3 DEF Q, Present, IsItDone, OnDisk
      <4>4. CASE Rename(k)
        <5>1. CASE d = cur[k]
          BY <3>0, <4>2, <4>4, <5>1 DEF Q, Present, Rename, TypeOK
        <5>2. CASE d # cur[k]
          <6>1. entry'[d] = entry[d] /\ quiet'[d] = quiet[d]
            BY <3>0, <4>4, <5>2 DEF Rename, TypeOK
          <6> QED BY <2>1, <4>1, <4>2, <6>1 DEF Q, Present, IsItDone, OnDisk
        <5> QED BY <5>1, <5>2
      <4> QED BY <2>1, <4>3, <4>4
    <3> QED BY <3>1, <3>2
  <2>6. ASSUME NEW d \in Entries PROVE O(d)'
    <3>1. CASE UNCHANGED <<entry, quiet>>
      BY <1>0, <2>1, <3>1 DEF O
    <3>2. CASE Rename(k)
      BY <1>0, <2>1, <3>2 DEF O, Rename, TypeOK
    <3> QED BY <2>1, <3>1, <3>2
  <2> QED BY <2>4, <2>5, <2>6
<1> QED BY <1>2, <1>3, <1>4, <1>5 DEF Next

-----------------------------------------------------------------------------
(* A finished entry remains finished, and its files keep their sizes.      *)
LEMMA FinishedStays ==
  ASSUME TypeOK, Recorded, [Next]_vars, NEW e \in Entries, Finished(e)
  PROVE  Finished(e)' /\ \A f \in FilesOf[e] : size'[f] = size[f]
<1>1. CASE UNCHANGED vars
  BY <1>1 DEF vars, disk, Finished
<1>2. ASSUME NEW d \in Entries, Writer(d)
      PROVE  Finished(e)' /\ \A f \in FilesOf[e] : size'[f] = size[f]
  <2>1. /\ \A c \in Entries \ {d} : entry'[c] = entry[c] /\ \A f \in FilesOf[c] : size'[f] = size[f]
        /\ entry[d] \in {"absent", "open"}
    BY <1>2, WriterEffect
  <2>2. e # d
    BY <2>1 DEF Finished
  <2> QED BY <2>1, <2>2 DEF Finished
<1>3. CASE Tick
  BY <1>3 DEF Tick, Finished
<1>4. ASSUME NEW i \in Ingests, ingest_rule(i) \/ Crash(i)
      PROVE  Finished(e)' /\ \A f \in FilesOf[e] : size'[f] = size[f]
  <2>1. size' = size /\ (entry' = entry \/ Rename(i))
    BY <1>4, IngestEffect
  <2>2. Finished(e)'
    BY <2>1 DEF Finished, Rename, TypeOK
  <2> QED BY <2>1, <2>2
<1> QED BY <1>1, <1>2, <1>3, <1>4 DEF Next

(* An entry that the check lists has been quiet for longer than a writer   *)
(* pauses: its writer has finished.                                        *)
LEMMA ListedIsFinished ==
  ASSUME Pause < Delay, TypeOK, Recorded, NEW i \in Ingests, NEW e \in globbed[i],
         slept[i] = Delay, e \in Present, Ripe(i, e)
  PROVE  Finished(e)
<1>1. e \in Entries
  BY DEF TypeOK
<1>2. quiet[e] >= slept[i]
  BY DEF Recorded, Ripe
<1>3. entry[e] = "open" => quiet[e] <= Pause
  BY <1>1 DEF Recorded
<1>4. quiet[e] \in Nat
  BY <1>1, Clock DEF TypeOK
<1>5. entry[e] # "open"
  BY <1>2, <1>3, <1>4, Clock
<1> QED BY <1>5 DEF Present, Finished

(* An ingest works on finished entries only.                               *)
LEMMA ListedNext ==
  ASSUME Pause < Delay, TypeOK, TypeOK', Recorded, ListedFinished, [Next]_vars
  PROVE  ListedFinished'
<1> DEFINE FinishedNow(e) == entry'[e] \in {"closed", "processed"}
<1>1. SUFFICES ASSUME NEW i \in Ingests
               PROVE  /\ \A e \in listed'[i] : FinishedNow(e)
                      /\ cur'[i] # NoEntry => FinishedNow(cur'[i])
  BY DEF ListedFinished, Finished
<1>2. /\ \A e \in listed[i] : Finished(e)
      /\ cur[i] # NoEntry => Finished(cur[i])
  BY DEF ListedFinished
<1>3. /\ \A e \in listed[i] : e \in Entries /\ FinishedNow(e)
      /\ cur[i] # NoEntry => FinishedNow(cur[i])
  <2>1. listed[i] \subseteq Entries /\ cur[i] \in Entries \cup {NoEntry}
    BY DEF TypeOK
  <2>2. \A e \in Entries : Finished(e) => FinishedNow(e)
    BY FinishedStays DEF Finished
  <2> QED BY <1>2, <2>1, <2>2 DEF Finished
<1>4. CASE ~(ingest_rule(i) \/ Crash(i))
  <2>1. listed'[i] = listed[i] /\ cur'[i] = cur[i]
    BY <1>4, IngestAlone
  <2> QED BY <1>3, <2>1
<1>5. CASE Check(i)
  <2>1. PICK e \in globbed[i] :
          listed' = [listed EXCEPT ![i] = IF e \in Present /\ Ripe(i, e) THEN @ \cup {e} ELSE @]
    BY <1>5 DEF Check
  <2>2. cur' = cur /\ entry' = entry /\ slept[i] = Delay
    BY <1>5 DEF Check, disk
  <2>3. e \in Present /\ Ripe(i, e) => Finished(e)
    BY <2>2, ListedIsFinished
  <2>4. \A d \in listed'[i] : d \in listed[i] \/ (d = e /\ e \in Present /\ Ripe(i, e))
    BY <2>1 DEF TypeOK
  <2> QED BY <1>2, <2>2, <2>3, <2>4 DEF Finished
<1>6. CASE NextEntry(i)
  <2>1. PICK e \in listed[i] :
          cur' = [cur EXCEPT ![i] = e] /\ listed' = [listed EXCEPT ![i] = @ \ {e}]
    BY <1>6 DEF NextEntry
  <2>2. cur'[i] = e /\ listed'[i] \subseteq listed[i]
    BY <2>1 DEF TypeOK
  <2> QED BY <1>3, <2>2 DEF Finished
<1>7. CASE (ingest_rule(i) \/ Crash(i)) /\ ~Check(i) /\ ~NextEntry(i)
  <2>1. listed'[i] \subseteq listed[i] /\ cur'[i] \in {cur[i], NoEntry}
    BY <1>7 DEF TypeOK, ingest_rule, Put, Glob, CheckDone, MakeCollFails, Connect, ConnectFails,
           CollCreateFails, PutAFile, PutRefused, PutGone, PutDone, GatherMeta, MetaFails, Rename,
           Throws, IngestDone, Crash, Stop, Goto, EndEntry
  <2> QED BY <1>3, <2>1 DEF Finished
<1> QED BY <1>4, <1>5, <1>6, <1>7

-----------------------------------------------------------------------------
(* What a step stores is the file of a finished entry, as it is.           *)
LEMMA StoredEffect ==
  ASSUME TypeOK, ListedFinished, [Next]_vars, NEW e \in Entries, NEW f \in FilesOf[e]
  PROVE  \/ stored'[f] = stored[f]
         \/ Finished(e) /\ stored'[f] = size[f]
<1>1. CASE UNCHANGED vars
  BY <1>1 DEF vars, grid
<1>2. ASSUME NEW d \in Entries, Writer(d) PROVE stored' = stored
  BY <1>2 DEF Writer, Begin, Write, Close, grid
<1>3. CASE Tick
  BY <1>3 DEF Tick, grid
<1>4. ASSUME NEW i \in Ingests, ingest_rule(i) \/ Crash(i)
      PROVE  \/ stored'[f] = stored[f]
             \/ Finished(e) /\ stored'[f] = size[f]
  <2>1. stored' = stored \/ PutAFile(i)
    BY <1>4, IngestEffect
  <2>2. ASSUME PutAFile(i), stored'[f] # stored[f]
        PROVE  Finished(e) /\ stored'[f] = size[f]
    <3>1. PICK g \in left[i] : stored' = [stored EXCEPT ![g] = size[g]]
      BY <2>2 DEF PutAFile
    <3>2. pc[i] = "put" /\ left[i] \subseteq FilesOf[cur[i]] /\ cur[i] \in Entries
      BY <2>2, <3>1 DEF PutAFile, TypeOK
    <3>3. f \in Files /\ g = f
      BY <2>2, <3>1, FilesOfType DEF TypeOK
    <3>4. e = cur[i]
      BY <3>1, <3>2, <3>3, FilesOfType
    <3>5. Finished(cur[i])
      BY <3>2, FilesOfType DEF ListedFinished
    <3> QED BY <3>1, <3>3, <3>4, <3>5 DEF TypeOK
  <2> QED BY <2>1, <2>2
<1> QED BY <1>1, <1>2, <1>3, <1>4 DEF Next

(* Each step keeps what is stored complete.                                *)
LEMMA WholeNext ==
  ASSUME TypeOK, Recorded, ListedFinished, Whole, [Next]_vars
  PROVE  Whole'
<1>1. SUFFICES ASSUME NEW e \in Entries, NEW f \in FilesOf[e], stored'[f] # NoFile
               PROVE  Finished(e)' /\ stored'[f] = size'[f]
  BY DEF Whole, Finished
<1>2. Finished(e) /\ stored'[f] = size[f]
  <2>1. CASE stored'[f] = stored[f]
    BY <1>1, <2>1 DEF Whole, Finished
  <2> QED BY <2>1, StoredEffect
<1>3. Finished(e)' /\ size'[f] = size[f]
  BY <1>2, FinishedStays
<1> QED BY <1>2, <1>3

(* LandingInv holds at the start, and each step keeps it.                  *)
LEMMA LandingInit ==
  ASSUME Init
  PROVE  LandingInv
<1>1. TypeOK
  BY Clock, NoSizesType DEF Init, TypeOK
<1>2. Recorded
  BY FilesOfType DEF Init, Recorded, NoSizes
<1>3. ListedFinished
  BY DEF Init, ListedFinished
<1>4. Whole
  BY FilesOfType DEF Init, Whole, NoSizes
<1> QED BY <1>1, <1>2, <1>3, <1>4 DEF LandingInv

(* Each step keeps LandingInv, where writers pause for less than Delay.    *)
LEMMA LandingNext ==
  ASSUME Pause < Delay, LandingInv, [Next]_vars
  PROVE  LandingInv'
<1>1. TypeOK'
  BY TypeNext DEF LandingInv
<1>2. Recorded'
  BY <1>1, RecordedNext DEF LandingInv
<1>3. ListedFinished'
  BY <1>1, ListedNext DEF LandingInv
<1>4. Whole'
  BY WholeNext DEF LandingInv
<1> QED BY <1>1, <1>2, <1>3, <1>4 DEF LandingInv

(* Where a writer pauses for less than the delay, only complete data gets  *)
(* into the grid.                                                          *)
THEOREM StoredWhole ==
  ASSUME Pause < Delay
  PROVE  Spec => []Whole
<1>1. Init => LandingInv
  BY LandingInit
<1>2. LandingInv /\ [Next]_vars => LandingInv'
  BY LandingNext
<1>3. LandingInv => Whole
  BY DEF LandingInv
<1> QED BY <1>1, <1>2, <1>3, PTL DEF Spec

-----------------------------------------------------------------------------
(* What is in the grid stays there, unchanged, and so do its metadata.     *)
LEMMA InGridStays ==
  ASSUME LandingInv, LandingInv', [Next]_vars, NEW e \in Entries, Finished(e)
  PROVE  /\ \A f \in FilesOf[e] : stored[f] = size[f] => stored'[f] = size'[f]
         /\ InGrid(e) => InGrid(e)'
         /\ InGridAndTagged(e) => InGridAndTagged(e)'
<1>1. \A f \in FilesOf[e] : stored[f] = size[f] => stored'[f] = size'[f]
  <2> SUFFICES ASSUME NEW f \in FilesOf[e], stored[f] = size[f] PROVE stored'[f] = size'[f]
    OBVIOUS
  <2>1. size'[f] = size[f]
    BY FinishedStays DEF LandingInv
  <2>2. stored'[f] = stored[f] \/ stored'[f] = size[f]
    BY StoredEffect DEF LandingInv
  <2> QED BY <2>1, <2>2
<1>2. InGrid(e) => InGrid(e)'
  BY <1>1 DEF InGrid
<1>3. tagged \subseteq tagged'
  <2>1. ASSUME NEW i \in Ingests, ingest_rule(i) \/ Crash(i) PROVE tagged \subseteq tagged'
    BY <2>1, IngestEffect DEF LandingInv
  <2>2. UNCHANGED tagged \/ \E i \in Ingests : ingest_rule(i) \/ Crash(i)
    BY DEF Next, vars, grid, Writer, Begin, Write, Close, Tick
  <2> QED BY <2>1, <2>2
<1> QED BY <1>1, <1>2, <1>3 DEF InGridAndTagged

(* Blame is never taken back.                                              *)
LEMMA HushedGrows ==
  ASSUME TypeOK, [Next]_vars
  PROVE  hushed \subseteq hushed'
<1>1. ASSUME NEW i \in Ingests, ingest_rule(i) \/ Crash(i) PROVE hushed \subseteq hushed'
  BY <1>1, IngestEffect
<1>2. UNCHANGED hushed \/ \E i \in Ingests : ingest_rule(i) \/ Crash(i)
  BY DEF Next, vars, blame, Writer, Begin, Write, Close, Tick
<1> QED BY <1>1, <1>2

(* What holds of ingest i, which works on entry e.                         *)
Progress(i, e) ==
  /\ pc[i] = "put" => \A f \in FilesOf[e] : f \in left[i] \/ stored[f] = size[f]
  /\ pc[i] = "meta" => real[i] = e /\ InGrid(e)
  /\ pc[i] = "rename" => InGridAndTagged(e)

(* A step of the ingest itself keeps it: whatever keeps a file out of the  *)
(* grid either ends the work on the entry or is answered as success.       *)
LEMMA ProgressOwn ==
  ASSUME LandingInv, LandingInv', [Next]_vars,
         NEW i \in Ingests, ingest_rule(i) \/ Crash(i), NEW e \in Entries,
         cur[i] = e => e \in hushed \/ Progress(i, e),
         cur'[i] = e, e \notin hushed'
  PROVE  Progress(i, e)'
<1> USE DEF Progress
<1>t. /\ pc \in [Ingests -> {"idle", "sleep", "next", "connect", "put", "meta", "rename"}]
      /\ cur \in [Ingests -> Entries \cup {NoEntry}]
      /\ left \in [Ingests -> SUBSET Files]
      /\ real \in [Ingests -> Entries \cup {NoEntry}]
      /\ NoEntry \notin Entries
  BY FilesOfType DEF LandingInv, TypeOK
<1>0. e \notin hushed
  BY HushedGrows DEF LandingInv
<1>1. CASE Glob(i) \/ Check(i) \/ CheckDone(i)
  <2>1. pc'[i] \in {"sleep", "next"}
    BY <1>1, <1>t DEF Glob, Check, CheckDone
  <2> QED BY <2>1
<1>2. CASE NextEntry(i)
  <2>1. pc'[i] = "connect"
    BY <1>2, <1>t DEF NextEntry, Goto
  <2> QED BY <2>1
<1>3. ASSUME Stop(i) \/ EndEntry(i) PROVE FALSE
  BY <1>3, <1>t DEF Stop, EndEntry
<1>4. CASE MakeCollFails(i) \/ PutGone(i) \/ Rename(i) \/ MetaFails(i) \/ Throws(i)
         \/ IngestDone(i) \/ Crash(i)
  BY <1>3, <1>4 DEF MakeCollFails, PutGone, Rename, MetaFails, Throws, IngestDone, Crash
<1>5. CASE Connect(i)
  <2>1. cur' = cur /\ cur[i] = e /\ pc'[i] = "put" /\ left'[i] = OnDisk(e)
        /\ UNCHANGED <<size, stored>>
    BY <1>5, <1>t DEF Connect, Goto, disk, grid
  <2>2. ASSUME NEW f \in FilesOf[e], f \notin OnDisk(e) PROVE stored[f] = size[f]
    BY <2>2 DEF OnDisk, LandingInv, Whole
  <2> QED BY <2>1, <2>2
<1>6. CASE ConnectFails(i) \/ CollCreateFails(i)
  <2>1. cur' = cur /\ hushed' = hushed \cup {cur[i]}
    BY <1>6 DEF ConnectFails, CollCreateFails, Hush
  <2> QED BY <2>1
<1>7. CASE PutAFile(i)
  <2>1. PICK f \in left[i] : stored' = [stored EXCEPT ![f] = size[f]]
                             /\ left' = [left EXCEPT ![i] = @ \ {f}]
    BY <1>7 DEF PutAFile
  <2>2. pc[i] = "put" /\ pc' = pc /\ cur' = cur /\ size' = size
    BY <1>7 DEF PutAFile, disk
  <2>3. f \in Files /\ stored'[f] = size[f] /\ left'[i] = left[i] \ {f}
    BY <2>1, <1>t DEF LandingInv, TypeOK
  <2>4. \A g \in FilesOf[e] : g \in left[i] \/ stored[g] = size[g]
    BY <1>0, <2>2
  <2>5. \A g \in FilesOf[e] : stored[g] = size[g] => stored'[g] = size[g]
    BY <2>1, <2>3, FilesOfType DEF LandingInv, TypeOK
  <2> QED BY <2>2, <2>3, <2>4, <2>5
<1>8. CASE PutRefused(i)
  <2>1. cur[i] \in Dirs /\ UNCHANGED <<pc, cur>>
    BY <1>3, <1>8 DEF PutRefused
  <2>2. PICK f \in left[i] : (stored[f] # NoFile \/ Hush(i)) /\ left' = [left EXCEPT ![i] = @ \ {f}]
    BY <1>8, <2>1 DEF PutRefused
  <2>3. pc[i] = "put" /\ UNCHANGED <<size, stored>> /\ cur[i] = e
    BY <1>8, <2>1 DEF PutRefused, disk, grid
  <2>4. stored[f] # NoFile
    BY <2>2, <2>3 DEF Hush
  <2>5. f \in FilesOf[e] => stored[f] = size[f]
    BY <2>4 DEF LandingInv, Whole
  <2>6. left'[i] = left[i] \ {f}
    BY <2>2, <1>t
  <2>7. \A g \in FilesOf[e] : g \in left[i] \/ stored[g] = size[g]
    BY <1>0, <2>3
  <2> QED BY <2>1, <2>3, <2>5, <2>6, <2>7
<1>9. CASE PutDone(i)
  <2>1. pc[i] = "put" /\ left[i] = {} /\ cur' = cur /\ cur[i] = e /\ UNCHANGED <<size, stored>>
        /\ real'[i] = e /\ pc'[i] = "meta"
    BY <1>9, <1>t DEF PutDone, Goto, disk, grid
  <2>2. InGrid(e)
    BY <1>0, <2>1 DEF InGrid
  <2> QED BY <2>1, <2>2 DEF InGrid
<1>10. CASE GatherMeta(i)
  <2>1. pc[i] = "meta" /\ cur' = cur /\ cur[i] = e /\ UNCHANGED <<size, stored>> /\ pc'[i] = "rename"
        /\ (e \in Images => tagged' = tagged \cup {real[i]})
    BY <1>10, <1>t DEF GatherMeta, Goto, disk
  <2>2. real[i] = e /\ InGrid(e)
    BY <1>0, <2>1
  <2> QED BY <2>1, <2>2 DEF InGrid, InGridAndTagged
<1> QED BY <1>1, <1>2, <1>4, <1>5, <1>6, <1>7, <1>8, <1>9, <1>10 DEF ingest_rule, Put

(* Each step keeps what is known of the work of every ingest.              *)
LEMMA PutSoFarNext ==
  ASSUME LandingInv, LandingInv', PutSoFar, [Next]_vars
  PROVE  PutSoFar'
<1>1. SUFFICES ASSUME NEW i \in Ingests, NEW e \in Entries, cur'[i] = e, e \notin hushed'
               PROVE  Progress(i, e)'
  <2>1. \A i \in Ingests : cur'[i] # NoEntry => cur'[i] \in Entries
    BY DEF LandingInv, TypeOK
  <2> QED BY <2>1 DEF PutSoFar, Progress, InGrid, InGridAndTagged
<1>2. cur[i] = e => e \in hushed \/ Progress(i, e)
  BY FilesOfType DEF PutSoFar, Progress
<1>3. CASE ingest_rule(i) \/ Crash(i)
  BY <1>1, <1>2, <1>3, ProgressOwn
<1>4. CASE ~(ingest_rule(i) \/ Crash(i))
  <2>1. pc'[i] = pc[i] /\ cur'[i] = cur[i] /\ left'[i] = left[i] /\ real'[i] = real[i]
    BY <1>4, IngestAlone DEF LandingInv
  <2>2. Progress(i, e)
    <3>1. hushed \subseteq hushed'
      BY HushedGrows DEF LandingInv
    <3> QED BY <1>1, <1>2, <2>1, <3>1
  <2>3. Finished(e)
    BY <1>1, <2>1, FilesOfType DEF LandingInv, ListedFinished
  <2>4. /\ \A f \in FilesOf[e] : stored[f] = size[f] => stored'[f] = size'[f]
        /\ InGrid(e) => InGrid(e)'
        /\ InGridAndTagged(e) => InGridAndTagged(e)'
    BY <2>3, InGridStays
  <2> QED BY <2>1, <2>2, <2>4 DEF Progress
<1> QED BY <1>3, <1>4

(* What becomes processed was renamed by an ingest that had put it all.    *)
LEMMA LostNext ==
  ASSUME LandingInv, LandingInv', LostInv, [Next]_vars
  PROVE  LostInv'
<1>1. PutSoFar'
  BY PutSoFarNext DEF LostInv
<1>2. SUFFICES ASSUME NEW e \in Entries, entry'[e] = "processed", e \notin hushed'
               PROVE  InGridAndTagged(e)'
  BY <1>1 DEF LostInv, LostOnlyByHush, InGridAndTagged, InGrid
<1>3. e \notin hushed
  BY <1>2, HushedGrows DEF LandingInv
<1>4. entry[e] = "processed" \/ \E i \in Ingests : Rename(i) /\ cur[i] = e
  <2>1. CASE entry' = entry
    BY <1>2, <2>1
  <2>2. ASSUME NEW d \in Entries, Writer(d) PROVE entry[e] = "processed"
    <3>1. /\ entry'[d] \in {"open", "closed"}
          /\ \A c \in Entries \ {d} : entry'[c] = entry[c]
      BY <2>2, WriterEffect DEF LandingInv
    <3> QED BY <1>2, <3>1
  <2>3. ASSUME NEW i \in Ingests, ingest_rule(i) \/ Crash(i)
        PROVE  entry[e] = "processed" \/ (Rename(i) /\ cur[i] = e)
    <3>1. entry' = entry \/ Rename(i)
      BY <2>3, IngestEffect DEF LandingInv
    <3>2. Rename(i) => cur[i] = e \/ entry'[e] = entry[e]
      BY DEF Rename, LandingInv, TypeOK
    <3>3. CASE Rename(i)
      BY <1>2, <3>2, <3>3
    <3> QED BY <1>2, <3>1, <3>3
  <2> QED BY <2>1, <2>2, <2>3 DEF Next, vars, disk, Tick
<1>5. Finished(e) /\ InGridAndTagged(e)
  <2>1. CASE entry[e] = "processed"
    BY <1>3, <2>1 DEF LostInv, LostOnlyByHush, InGridAndTagged, Finished
  <2>2. ASSUME NEW i \in Ingests, Rename(i), cur[i] = e
        PROVE  Finished(e) /\ InGridAndTagged(e)
    <3>1. Finished(e)
      BY <2>2, FilesOfType DEF LandingInv, ListedFinished
    <3>2. pc[i] = "rename"
      BY <2>2 DEF Rename
    <3> QED BY <1>3, <2>2, <3>1, <3>2, FilesOfType DEF LostInv, PutSoFar
  <2> QED BY <1>4, <2>1, <2>2
<1> QED BY <1>5, InGridStays

(* Whatever fails and however ingests overlap, an entry that is moved to   *)
(* the processed ones is in the grid with all its files, and an image with *)
(* its metadata, unless a failure on it was answered as success.           *)
THEOREM LostOnly ==
  ASSUME Pause < Delay
  PROVE  Spec => []LostOnlyByHush
<1> DEFINE Inv == LandingInv /\ LostInv
<1>1. Init => Inv
  <2>1. Init => PutSoFar
    BY DEF Init, PutSoFar
  <2>2. Init => LostOnlyByHush
    BY DEF Init, LostOnlyByHush
  <2> QED BY <2>1, <2>2, LandingInit DEF LostInv
<1>2. Inv /\ [Next]_vars => Inv'
  BY LandingNext, LostNext
<1>3. Inv => LostOnlyByHush
  BY DEF LostInv
<1> QED BY <1>1, <1>2, <1>3, PTL DEF Spec
=============================================================================
