--------------------------- MODULE DiskCacheProofs ---------------------------
(* Theorems about DiskCache, for any transactions, calls and bounds.        *)
EXTENDS DiskCache, FiniteSetTheorems, TLAPS

Places == {"none", "wait", "write", "writing", "rename", "rbf"}
CallTyped ==
  [at : Places, i : Chunk, from : SUBSET Tx, left : SUBSET Tx, dump : BOOLEAN]

\* One call at most is on its way, and it waits exactly if it is the one to be resumed.
CallsGood ==
  /\ calls \in [Call -> CallTyped]
  /\ \A c \in Call : calls[c].left \subseteq calls[c].from
  /\ writing <=> \E c \in Call : calls[c].at # "none"
  /\ \A c, d \in Call : calls[c].at # "none" /\ calls[d].at # "none" => c = d
  /\ \/ resume = <<>> /\ \A c \in Call : calls[c].at # "wait"
     \/ \E c \in Call : resume = <<c>> /\ calls[c].at = "wait"

\* A temporary file is whole or being written.
FilesGood ==
  /\ DOMAIN files \subseteq Chunk /\ \A i \in DOMAIN files : files[i] \in File
  /\ DOMAIN tmp \subseteq Chunk /\ \A i \in DOMAIN tmp : tmp[i] \in File
  /\ \A i \in DOMAIN files : files[i].whole
  /\ \A i \in DOMAIN tmp :
       tmp[i].whole \/ \E c \in Call : calls[c].at = "writing" /\ calls[c].i = i

RestGood ==
  /\ proc \in {"down", "pools", "load", "set", "up"} /\ ignore \in BOOLEAN
  /\ pool \subseteq Tx /\ height \in 0..MaxHeight /\ rbf \in BOOLEAN
  /\ rbfFile \in BOOLEAN /\ torn \in BOOLEAN
  /\ round \in {"idle", "blocks", "mempool", "ends"}
  /\ locks \in 0..1 /\ (round \in {"idle", "mempool"} => locks = 0)
  /\ loaded \in 0..MaxHeight /\ faults \in 0..MaxFaults

IInv == CallsGood /\ FilesGood /\ RestGood

-----------------------------------------------------------------------------
(* The calls                                                               *)

\* A call on its way goes on.
LEMMA MoveKeeps ==
  ASSUME CallsGood, NEW c \in Call, NEW r \in CallTyped, r.left \subseteq r.from,
         calls[c].at \notin {"none", "wait"}, r.at \notin {"none", "wait"},
         calls' = [calls EXCEPT ![c] = r], writing' = writing, resume' = resume
  PROVE  CallsGood'
<1>1. \A d \in Call : d # c => calls[d].at = "none"
  BY DEF CallsGood
<1>2. resume = <<>>
  BY <1>1 DEF CallsGood
<1>3. \A d \in Call : calls'[d] = IF d = c THEN r ELSE calls[d]
  BY DEF CallsGood
<1>4. calls' \in [Call -> CallTyped]
  BY DEF CallsGood
<1>5. writing
  BY DEF CallsGood
<1> QED
  BY <1>1, <1>2, <1>3, <1>4, <1>5 DEF CallsGood

\* A call yields, the one on its way or a new one.
LEMMA YieldKeeps ==
  ASSUME CallsGood, NEW c \in Call, NEW r \in CallTyped, r.left \subseteq r.from,
         calls[c].at # "wait", \A d \in Call : d # c => calls[d].at = "none",
         Yield(c, r), writing' = TRUE
  PROVE  CallsGood'
<1> DEFINE at == IF locks > 0 THEN "wait" ELSE "write"
           v == [r EXCEPT !.at = at]
<1>1. v \in CallTyped /\ v.left \subseteq v.from /\ v.at = at
  BY DEF CallTyped, Places
<1>2. resume = <<>>
  BY DEF CallsGood
<1>3. calls' = [calls EXCEPT ![c] = v] /\ resume' = IF locks > 0 THEN <<c>> ELSE <<>>
  BY <1>2 DEF Yield
<1> HIDE DEF v
<1>4. calls' \in [Call -> CallTyped] /\ \A d \in Call : calls'[d] = IF d = c THEN v ELSE calls[d]
  BY <1>1, <1>3 DEF CallsGood
<1> QED
  BY <1>1, <1>3, <1>4 DEF CallsGood

\* A call that is not under way has its type.
LEMMA NoCallTyped == NoCall \in CallTyped /\ NoCall.left \subseteq NoCall.from
BY BoundsAssumption DEF NoCall, CallTyped, Places, Chunk

\* A call ends: nobody writes any more.
LEMMA EndKeeps ==
  ASSUME CallsGood, NEW c \in Call, calls[c].at \notin {"none", "wait"}, EndSave(c),
         resume' = resume
  PROVE  CallsGood'
<1>1. \A d \in Call : d # c => calls[d].at = "none"
  BY DEF CallsGood
<1>2. resume = <<>>
  BY <1>1 DEF CallsGood
<1>3. calls' \in [Call -> CallTyped] /\ \A d \in Call : calls'[d] = IF d = c THEN NoCall ELSE calls[d]
  BY NoCallTyped DEF CallsGood, EndSave
<1>4. NoCall.at = "none" /\ writing' = FALSE
  BY DEF NoCall, EndSave
<1> QED
  BY <1>1, <1>2, <1>3, <1>4, NoCallTyped DEF CallsGood

\* Unlocking lets the waiting call go on, and there is at most one.
LEMMA UnlockKeeps ==
  ASSUME CallsGood, locks \in 0..1, Unlock
  PROVE  CallsGood' /\ locks' = 0
<1>1. locks' = 0 /\ writing' = writing
  BY DEF Unlock
<1>2. CASE resume = <<>>
  BY <1>1, <1>2 DEF Unlock, CallsGood
<1>3. CASE resume # <<>>
  <2>1. PICK c \in Call : resume = <<c>> /\ calls[c].at = "wait"
    BY <1>3 DEF CallsGood
  <2>2. Head(resume) = c /\ Tail(resume) = <<>>
    BY <2>1
  <2>3. calls' = [calls EXCEPT ![c].at = "write"] /\ resume' = <<>>
    BY <1>1, <1>3, <2>2 DEF Unlock
  <2>4. calls' \in [Call -> CallTyped]
    BY <2>3 DEF CallsGood, CallTyped, Places
  <2>5. \A d \in Call : /\ calls'[d].at = IF d = c THEN "write" ELSE calls[d].at
                        /\ calls'[d].left = calls[d].left /\ calls'[d].from = calls[d].from
    BY <2>3 DEF CallsGood, CallTyped
  <2> QED
    BY <1>1, <2>1, <2>3, <2>4, <2>5 DEF CallsGood
<1> QED
  BY <1>1, <1>2, <1>3

\* A new call begins only if none is under way, and begins with a yield.
LEMMA SaveKeeps ==
  ASSUME CallsGood, NEW txs \in SUBSET Tx, Save(txs)
  PROVE  CallsGood' /\ locks' = locks
<1>1. CASE writing
  BY <1>1 DEF Save, Refused, saving, CallsGood
<1>2. CASE ~writing
  <2> DEFINE c == CHOOSE d \in Call : calls[d].at = "none"
             r == [NoCall EXCEPT !.from = txs, !.left = txs]
  <2>1. \A d \in Call : calls[d].at = "none"
    BY <1>2 DEF CallsGood
  <2>2. c \in Call
    BY <2>1, BoundsAssumption
  <2>3. r \in CallTyped /\ r.left \subseteq r.from
    BY NoCallTyped DEF CallTyped, NoCall
  <2>4. Yield(c, r) /\ writing' = TRUE /\ locks' = locks
    BY <1>2 DEF Save, Refused
  <2> HIDE DEF c, r
  <2> QED
    BY <2>1, <2>2, <2>3, <2>4, YieldKeeps
<1> QED
  BY <1>1, <1>2

-----------------------------------------------------------------------------
(* The files                                                               *)

\* Files untouched, and nobody stops in the middle of a write.
LEMMA FilesKept ==
  ASSUME FilesGood, files' = files, tmp' = tmp,
         \A c \in Call : calls[c].at = "writing" =>
           calls'[c].at = "writing" /\ calls'[c].i = calls[c].i
  PROVE  FilesGood'
BY DEF FilesGood

\* The temporary files are gone.
LEMMA FilesCleared ==
  ASSUME FilesGood, tmp' = NoFiles,
         DOMAIN files' \subseteq Chunk, \A i \in DOMAIN files' : files'[i] \in File,
         \A i \in DOMAIN files' : files'[i].whole
  PROVE  FilesGood'
BY DEF FilesGood, NoFiles

\* Faults are counted within their bound.
LEMMA FaultTyped ==
  ASSUME RestGood, Fault
  PROVE  faults' \in 0..MaxFaults
BY BoundsAssumption DEF RestGood, Fault

\* The synchronous save leaves whole files, however far it comes.
LEMMA SavedAtOnce ==
  ASSUME FilesGood, RestGood, NEW done \in 0..Chunks, NEW rbfDone \in BOOLEAN,
         SaveAtOnce(done, rbfDone)
  PROVE  /\ DOMAIN files' \subseteq Chunk /\ \A i \in DOMAIN files' : files'[i] \in File
         /\ \A i \in DOMAIN files' : files'[i].whole
         /\ rbfFile' \in BOOLEAN /\ torn' \in BOOLEAN /\ faults' \in 0..MaxFaults
<1>1. CASE Refused
  BY <1>1 DEF SaveAtOnce, FilesGood, RestGood
<1>2. CASE ~Refused
  <2> DEFINE D == DOMAIN files \cup 0 .. done - 1
             new(f, i) == [txs |-> f[i], from |-> pool, whole |-> TRUE,
                           height |-> IF i = 0 THEN height ELSE 0]
  <2>1. PICK f \in Cut(pool) : files' = [i \in D |-> IF i < done THEN new(f, i) ELSE files[i]]
    BY <1>2 DEF SaveAtOnce
  <2>2. \A i \in Chunk : f[i] \subseteq Tx
    BY <2>1 DEF Cut, RestGood
  <2>3. pool \subseteq Tx /\ height \in 0..MaxHeight /\ 0 \in 0..MaxHeight
    BY BoundsAssumption DEF RestGood
  <2>4. D \subseteq Chunk
    <3>1. 0 .. done - 1 \subseteq Chunk
      BY BoundsAssumption DEF Chunk
    <3> QED
      BY <3>1 DEF FilesGood
  <2>5. \A i \in Chunk : new(f, i) \in File /\ new(f, i).whole
    BY <2>2, <2>3 DEF File
  <2>6. \A i \in D : i >= done => i \in DOMAIN files
    BY <2>4 DEF Chunk
  <2>7. \A i \in D : files'[i] \in File /\ files'[i].whole
    <3> HIDE DEF new
    <3>1. ASSUME NEW i \in D PROVE files'[i] \in File /\ files'[i].whole
      <4>1. i \in Int
        BY <2>4 DEF Chunk
      <4>2. CASE i < done
        BY <2>1, <2>4, <2>5, <4>2
      <4>3. CASE i >= done
        <5>1. i \in DOMAIN files /\ files'[i] = files[i]
          BY <2>1, <2>6, <4>1, <4>3
        <5> QED
          BY <5>1 DEF FilesGood
      <4> QED
        BY <4>1, <4>2, <4>3
    <3> QED
      BY <3>1
  <2>8. rbfFile' \in BOOLEAN
    BY <1>2 DEF SaveAtOnce, RestGood
  <2>9. torn' \in BOOLEAN
    BY <1>2 DEF SaveAtOnce
  <2>10. faults' \in 0..MaxFaults
    BY <1>2, FaultTyped DEF SaveAtOnce, RestGood
  <2> HIDE DEF D
  <2>11. DOMAIN files' = D
    BY <2>1
  <2> QED
    BY <2>4, <2>7, <2>8, <2>9, <2>10, <2>11
<1> QED
  BY <1>1, <1>2

\* A process that dies leaves no call.
LEMMA DieKeeps ==
  ASSUME Die
  PROVE  CallsGood' /\ tmp' = NoFiles
<1>1. calls' = [c \in Call |-> NoCall] /\ writing' = FALSE /\ resume' = <<>> /\ tmp' = NoFiles
  BY DEF Die
<1>2. NoCall.at = "none"
  BY DEF NoCall
<1> QED
  BY <1>1, <1>2, NoCallTyped DEF CallsGood

-----------------------------------------------------------------------------
(* The steps of a save                                                     *)

\* A write begins: its temporary file is the only one that is not whole.
LEMMA BeginWriteKeeps ==
  ASSUME IInv, NEW c \in Call, BeginWrite(c)
  PROVE  IInv'
<1>1. PICK txs \in SUBSET calls[c].left :
        /\ tmp' = With(tmp, calls[c].i, [txs |-> txs, from |-> calls[c].from, whole |-> FALSE,
                                         height |-> IF calls[c].i = 0 THEN height ELSE 0])
        /\ calls' = [calls EXCEPT ![c].at = "writing", ![c].left = @ \ txs]
  BY DEF BeginWrite
<1> DEFINE r == [calls[c] EXCEPT !.at = "writing", !.left = @ \ txs]
<1>2. calls[c] \in CallTyped /\ calls[c].left \subseteq calls[c].from /\ calls[c].at = "write"
  BY DEF IInv, CallsGood, BeginWrite
<1>3. /\ r \in CallTyped /\ r.left \subseteq r.from /\ r.at = "writing" /\ r.i = calls[c].i
      /\ calls' = [calls EXCEPT ![c] = r]
  BY <1>1, <1>2 DEF CallTyped, Places, IInv, CallsGood
<1>4. CallsGood'
  <2> HIDE DEF r
  <2> QED
    BY <1>2, <1>3, MoveKeeps DEF IInv, BeginWrite
<1>5. FilesGood'
  <2> DEFINE file == [txs |-> txs, from |-> calls[c].from, whole |-> FALSE,
                      height |-> IF calls[c].i = 0 THEN height ELSE 0]
  <2>1. file \in File /\ calls[c].i \in Chunk
    BY <1>2, BoundsAssumption DEF File, CallTyped, IInv, RestGood
  <2>2. calls'[c].at = "writing" /\ calls'[c].i = calls[c].i
    BY <1>3 DEF IInv, CallsGood
  <2>3. \A d \in Call : d # c => calls[d].at # "writing"
    BY <1>2 DEF IInv, CallsGood
  <2> HIDE DEF file
  <2>4. /\ DOMAIN tmp' = DOMAIN tmp \cup {calls[c].i}
        /\ \A j \in DOMAIN tmp' : tmp'[j] = IF j = calls[c].i THEN file ELSE tmp[j]
    BY <1>1 DEF With, file
  <2>5. \A j \in DOMAIN tmp' :
          tmp'[j].whole \/ (calls'[c].at = "writing" /\ calls'[c].i = j)
    BY <1>2, <2>2, <2>3, <2>4 DEF IInv, FilesGood
  <2> QED
    BY <2>1, <2>4, <2>5 DEF IInv, FilesGood, BeginWrite
<1>6. RestGood'
  BY DEF IInv, RestGood, BeginWrite, boot, memory
<1> QED
  BY <1>4, <1>5, <1>6 DEF IInv

\* The write ends, and the call goes on to the next chunk or to renaming.
LEMMA EndWriteKeeps ==
  ASSUME IInv, NEW c \in Call, EndWrite(c)
  PROVE  IInv'
<1>1. /\ calls[c] \in CallTyped /\ calls[c].left \subseteq calls[c].from
      /\ calls[c].at = "writing"
      /\ \A d \in Call : d # c => calls[d].at = "none"
  BY DEF IInv, CallsGood, EndWrite
<1>2. CallsGood'
  <2>1. CASE calls[c].i < Chunks - 1
    <3> DEFINE r == [calls[c] EXCEPT !.i = @ + 1]
    <3>1. r \in CallTyped /\ r.left \subseteq r.from
      BY <1>1, <2>1, BoundsAssumption DEF CallTyped, Chunk
    <3>2. Yield(c, r) /\ writing' = TRUE
      BY <1>1, <2>1 DEF EndWrite, IInv, CallsGood
    <3> HIDE DEF r
    <3> QED
      BY <1>1, <3>1, <3>2, YieldKeeps DEF IInv
  <2>2. CASE ~(calls[c].i < Chunks - 1)
    <3> DEFINE r == [calls[c] EXCEPT !.at = "rename", !.i = 0]
    <3>1. r \in CallTyped /\ r.left \subseteq r.from /\ r.at = "rename"
      <4>1. 0 \in Chunk
        BY BoundsAssumption DEF Chunk
      <4> QED
        BY <1>1, <4>1 DEF CallTyped, Places
    <3>2. calls' = [calls EXCEPT ![c] = r] /\ writing' = writing /\ resume' = resume
      BY <2>2 DEF EndWrite, IInv, CallsGood
    <3> HIDE DEF r
    <3> QED
      BY <1>1, <3>1, <3>2, MoveKeeps DEF IInv
  <2> QED
    BY <2>1, <2>2
<1>3. FilesGood'
  <2>1. tmp' = [tmp EXCEPT ![calls[c].i].whole = TRUE] /\ files' = files
    BY DEF EndWrite
  <2>2. \A j \in DOMAIN tmp : j # calls[c].i => tmp[j].whole
    BY <1>1 DEF IInv, FilesGood
  <2>3. DOMAIN tmp' = DOMAIN tmp
    BY <2>1
  <2>4. ASSUME NEW j \in DOMAIN tmp'
        PROVE  tmp'[j] \in File /\ tmp'[j].whole
    <3>1. j \in DOMAIN tmp /\ tmp[j] \in File
      BY <2>3 DEF IInv, FilesGood
    <3>2. CASE j = calls[c].i
      <4>1. tmp'[j] = [tmp[j] EXCEPT !.whole = TRUE]
        BY <2>1, <3>1, <3>2
      <4> QED
        BY <3>1, <4>1 DEF File
    <3>3. CASE j # calls[c].i
      BY <2>1, <2>2, <3>1, <3>3
    <3> QED
      BY <3>2, <3>3
  <2> QED
    BY <2>1, <2>3, <2>4 DEF IInv, FilesGood
<1>4. RestGood'
  BY DEF IInv, RestGood, EndWrite, boot, memory
<1> QED
  BY <1>2, <1>3, <1>4 DEF IInv

\* The call turns to the RBF cache.
LEMMA TurnKeeps ==
  ASSUME CallsGood, rbf \in BOOLEAN, NEW c \in Call, calls[c].at \notin {"none", "wait"},
         TurnToRbf(c), writing' = writing, resume' = resume
  PROVE  CallsGood'
<1> DEFINE r == [NoCall EXCEPT !.at = "rbf", !.dump = rbf]
<1>1. r \in CallTyped /\ r.left \subseteq r.from /\ r.at = "rbf"
  BY NoCallTyped DEF CallTyped, NoCall, Places
<1>2. calls' = [calls EXCEPT ![c] = r]
  BY DEF TurnToRbf
<1> HIDE DEF r
<1> QED
  BY <1>1, <1>2, MoveKeeps

\* A renamed file is whole, because nobody is writing it.
LEMMA RenameKeeps ==
  ASSUME IInv, NEW c \in Call, Rename(c)
  PROVE  IInv'
<1>1. /\ calls[c] \in CallTyped /\ calls[c].left \subseteq calls[c].from
      /\ calls[c].at = "rename" /\ calls[c].i \in DOMAIN tmp
      /\ \A d \in Call : d # c => calls[d].at = "none"
  BY DEF IInv, CallsGood, Rename
<1>2. CallsGood'
  <2>1. CASE calls[c].i < Chunks - 1
    <3> DEFINE r == [calls[c] EXCEPT !.i = @ + 1]
    <3>1. r \in CallTyped /\ r.left \subseteq r.from /\ r.at = "rename"
      BY <1>1, <2>1, BoundsAssumption DEF CallTyped, Chunk
    <3>2. calls' = [calls EXCEPT ![c] = r] /\ writing' = writing /\ resume' = resume
      BY <2>1 DEF Rename, IInv, CallsGood
    <3> HIDE DEF r
    <3> QED
      BY <1>1, <3>1, <3>2, MoveKeeps DEF IInv
  <2>2. CASE ~(calls[c].i < Chunks - 1)
    BY <1>1, <2>2, TurnKeeps DEF IInv, RestGood, Rename
  <2> QED
    BY <2>1, <2>2
<1>3. FilesGood'
  <2>1. \A j \in DOMAIN tmp : tmp[j].whole /\ tmp[j] \in File
    BY <1>1 DEF IInv, FilesGood
  <2>2. /\ DOMAIN files' = DOMAIN files \cup {calls[c].i}
        /\ \A j \in DOMAIN files' : files'[j] = IF j = calls[c].i THEN tmp[j] ELSE files[j]
    BY DEF Rename, With
  <2>3. /\ DOMAIN tmp' = DOMAIN tmp \ {calls[c].i}
        /\ \A j \in DOMAIN tmp' : tmp'[j] = tmp[j]
    BY DEF Rename
  <2> QED
    BY <1>1, <2>1, <2>2, <2>3 DEF IInv, FilesGood
<1>4. RestGood'
  BY DEF IInv, RestGood, Rename, boot, memory
<1> QED
  BY <1>2, <1>3, <1>4 DEF IInv

\* A failed save leaves the files alone.
LEMMA SaveFailsKeeps ==
  ASSUME IInv, NEW c \in Call, SaveFails(c)
  PROVE  IInv'
<1>1. calls[c].at \in {"writing", "rename"}
  BY DEF SaveFails
<1>2. CallsGood'
  BY <1>1, TurnKeeps DEF IInv, RestGood, SaveFails
<1>3. FilesGood'
  BY FilesCleared DEF IInv, FilesGood, SaveFails
<1>4. RestGood'
  <2>1. torn' \in BOOLEAN
    BY DEF IInv, RestGood, SaveFails, Renaming
  <2> QED
    BY <2>1, FaultTyped DEF IInv, RestGood, SaveFails, boot, memory
<1> QED
  BY <1>2, <1>3, <1>4 DEF IInv

\* The RBF file comes last and ends the call.
LEMMA SaveRbfKeeps ==
  ASSUME IInv, NEW c \in Call, SaveRbf(c) \/ SaveRbfFails(c)
  PROVE  IInv'
<1>1. calls[c].at = "rbf" /\ calls[c].dump \in BOOLEAN
  BY DEF IInv, CallsGood, CallTyped, SaveRbf, SaveRbfFails
<1>2. CallsGood'
  BY <1>1, EndKeeps DEF IInv, SaveRbf, SaveRbfFails
<1>3. FilesGood'
  <2>1. calls' = [calls EXCEPT ![c] = NoCall]
    BY DEF SaveRbf, SaveRbfFails, EndSave
  <2>2. \A d \in Call : calls[d].at = "writing" => calls'[d] = calls[d]
    BY <1>1, <2>1 DEF IInv, CallsGood
  <2> QED
    BY <2>2, FilesKept DEF IInv, SaveRbf, SaveRbfFails, disk
<1>4. RestGood'
  BY <1>1, FaultTyped DEF IInv, RestGood, SaveRbf, SaveRbfFails, boot, memory, disk
<1> QED
  BY <1>2, <1>3, <1>4 DEF IInv

-----------------------------------------------------------------------------
(* The process                                                             *)

Calm == UNCHANGED <<calls, writing, resume>>

\* A step that leaves the calls and the files alone.
LEMMA CalmKeeps ==
  ASSUME CallsGood, FilesGood, Calm, files' = files, tmp' = tmp
  PROVE  CallsGood' /\ FilesGood'
BY DEF CallsGood, FilesGood, Calm

\* What is read from the files can be held.
LEMMA LoadTyped ==
  ASSUME FilesGood
  PROVE  /\ UNION {files[i].txs : i \in DOMAIN files} \subseteq Tx
         /\ \A i \in DOMAIN files : files[i].height \in 0..MaxHeight
BY DEF FilesGood, File

Boots ==
  \/ Start \/ (\E changed \in BOOLEAN : LoadPools(changed))
  \/ LoadNothing \/ LoadForeign \/ LoadMempool
  \/ \E done \in 0..Chunks, rbfDone \in BOOLEAN : LoadRest(done, rbfDone)

\* The steps of a start keep the invariant.
LEMMA BootsKeep ==
  ASSUME IInv, Boots
  PROVE  IInv'
<1>1. CASE Start
  <2>1. CallsGood' /\ FilesGood'
    BY <1>1, CalmKeeps DEF IInv, Start, Calm, disk, saving
  <2> QED
    BY <1>1, <2>1 DEF IInv, RestGood, Start, memory, disk, saving
<1>2. ASSUME NEW changed \in BOOLEAN, LoadPools(changed)
      PROVE  IInv'
  <2>1. CallsGood' /\ locks' = locks
    <3>1. CASE changed
      BY <1>2, <3>1, SaveKeeps DEF IInv, RestGood, LoadPools
    <3>2. CASE ~changed
      BY <1>2, <3>2, CalmKeeps DEF IInv, LoadPools, Calm, disk, saving
    <3> QED
      BY <3>1, <3>2
  <2>2. FilesGood'
    <3>1. CASE writing \/ ~changed
      BY <1>2, <3>1, CalmKeeps DEF IInv, LoadPools, Save, Refused, Calm, disk, saving
    <3>2. CASE ~writing
      BY <1>2, <3>2, FilesKept DEF IInv, CallsGood, LoadPools, disk
    <3> QED
      BY <3>1, <3>2
  <2> QED
    BY <1>2, <2>1, <2>2 DEF IInv, RestGood, LoadPools, memory, disk
<1>3. CASE LoadNothing
  <2>1. CallsGood' /\ FilesGood'
    BY <1>3, CalmKeeps DEF IInv, LoadNothing, Calm, disk, saving
  <2> QED
    BY <1>3, <2>1 DEF IInv, RestGood, LoadNothing, memory, disk, saving
<1>4. CASE LoadForeign
  <2>1. CallsGood'
    BY <1>4 DEF IInv, CallsGood, LoadForeign, saving
  <2>2. FilesGood'
    BY <1>4 DEF IInv, FilesGood, LoadForeign, NoFiles, saving
  <2>3. faults' \in 0..MaxFaults
    BY <1>4, FaultTyped DEF IInv, LoadForeign
  <2> QED
    BY <1>4, <2>1, <2>2, <2>3 DEF IInv, RestGood, LoadForeign, memory, saving
<1>5. CASE LoadMempool
  <2>1. CallsGood' /\ FilesGood'
    BY <1>5, CalmKeeps DEF IInv, LoadMempool, Calm, disk, saving
  <2>2. pool' \subseteq Tx /\ loaded' \in 0..MaxHeight
    BY <1>5, LoadTyped DEF IInv, LoadMempool
  <2> QED
    BY <1>5, <2>1, <2>2 DEF IInv, RestGood, LoadMempool, disk, saving
<1>6. ASSUME NEW done \in 0..Chunks, NEW rbfDone \in BOOLEAN, LoadRest(done, rbfDone)
      PROVE  IInv'
  <2>1. CallsGood'
    BY <1>6 DEF IInv, CallsGood, LoadRest, saving
  <2>2. /\ DOMAIN files' \subseteq Chunk /\ \A i \in DOMAIN files' : files'[i] \in File
        /\ \A i \in DOMAIN files' : files'[i].whole
        /\ rbfFile' \in BOOLEAN /\ torn' \in BOOLEAN /\ faults' \in 0..MaxFaults
    <3>1. CASE ignore
      BY <1>6, <3>1, SavedAtOnce DEF IInv, LoadRest
    <3>2. CASE ~ignore
      BY <1>6, <3>2 DEF IInv, FilesGood, RestGood, LoadRest, disk
    <3> QED
      BY <3>1, <3>2
  <2>3. FilesGood'
    BY <1>6, <2>2 DEF IInv, FilesGood, LoadRest, disk, saving
  <2>4. height' \in 0..MaxHeight /\ rbf' \in BOOLEAN /\ loaded' \in 0..MaxHeight
    BY <1>6, <2>2, BoundsAssumption DEF IInv, RestGood, LoadRest
  <2> QED
    BY <1>6, <2>1, <2>2, <2>3, <2>4 DEF IInv, RestGood, LoadRest, saving
<1> QED
  BY <1>1, <1>2, <1>3, <1>4, <1>5, <1>6 DEF Boots

Signal == \E done \in 0..Chunks, rbfDone \in BOOLEAN : SigInt(done, rbfDone)

\* So do a signal and a crash ...
LEMMA StopsKeep ==
  ASSUME IInv, Signal \/ Crash
  PROVE  IInv'
<1>1. Die
  BY DEF Signal, SigInt, Crash
<1>2. CallsGood' /\ tmp' = NoFiles
  BY <1>1, DieKeeps
<1>3. /\ DOMAIN files' \subseteq Chunk /\ \A i \in DOMAIN files' : files'[i] \in File
      /\ \A i \in DOMAIN files' : files'[i].whole
      /\ rbfFile' \in BOOLEAN /\ torn' \in BOOLEAN /\ faults' \in 0..MaxFaults
  <2>1. CASE files' = files /\ rbfFile' = rbfFile /\ torn' = (torn \/ Renaming)
             /\ (faults' = faults \/ Fault)
    BY <2>1, FaultTyped DEF IInv, FilesGood, RestGood, Renaming
  <2>2. CASE \E done \in 0..Chunks, rbfDone \in BOOLEAN : SaveAtOnce(done, rbfDone)
    BY <2>2, SavedAtOnce DEF IInv
  <2> QED
    BY <2>1, <2>2 DEF Signal, SigInt, Crash
<1>4. FilesGood'
  BY <1>2, <1>3, FilesCleared DEF IInv
<1>5. faults' \in 0..MaxFaults
  BY <1>3
<1>6. /\ proc' = "down" /\ pool' = {} /\ round' = "idle" /\ locks' = 0
      /\ height' \in 0..MaxHeight /\ loaded' \in 0..MaxHeight
  BY <1>1, BoundsAssumption DEF Die
<1>7. ignore' \in BOOLEAN /\ rbf' \in BOOLEAN
  BY <1>1 DEF Die
<1> QED
  BY <1>2, <1>3, <1>4, <1>5, <1>6, <1>7 DEF IInv, RestGood

Rounds ==
  \/ MainLoop \/ Throw
  \/ \E confirmed \in SUBSET Tx, due \in BOOLEAN : NewBlock(confirmed, due)

\* ... and the rounds of the main loop.
LEMMA RoundsKeep ==
  ASSUME IInv, Rounds
  PROVE  IInv'
<1>1. CASE BeginBlocks
  <2>1. CallsGood' /\ FilesGood'
    BY <1>1, CalmKeeps DEF IInv, BeginBlocks, Calm, disk
  <2> QED
    BY <1>1, <2>1 DEF IInv, RestGood, BeginBlocks, boot, memory, disk
<1>2. ASSUME NEW confirmed \in SUBSET Tx, NEW due \in BOOLEAN, NewBlock(confirmed, due)
      PROVE  IInv'
  <2>1. pool' \subseteq Tx /\ height' \in 0..MaxHeight
    BY <1>2, BoundsAssumption DEF IInv, RestGood, NewBlock
  <2>2. CallsGood' /\ locks' = locks
    <3>1. CASE due
      BY <1>2, <2>1, <3>1, SaveKeeps DEF IInv, NewBlock
    <3>2. CASE ~due
      BY <1>2, <3>2, CalmKeeps DEF IInv, NewBlock, Calm, disk, saving
    <3> QED
      BY <3>1, <3>2
  <2>3. FilesGood'
    <3>1. CASE writing \/ ~due
      BY <1>2, <3>1, CalmKeeps DEF IInv, NewBlock, Save, Refused, Calm, disk, saving
    <3>2. CASE ~writing
      BY <1>2, <3>2, FilesKept DEF IInv, CallsGood, NewBlock, disk
    <3> QED
      BY <3>1, <3>2
  <2> QED
    BY <1>2, <2>1, <2>2, <2>3 DEF IInv, RestGood, NewBlock, boot, disk
<1>3. CASE EndBlocks \/ EndRound
  <2>1. CallsGood' /\ locks' = 0
    BY <1>3, UnlockKeeps DEF IInv, RestGood, EndBlocks, EndRound
  <2>2. FilesGood'
    <3>1. \A c \in Call : calls[c].at = "writing" => calls'[c] = calls[c]
      <4>1. CASE calls' = calls
        BY <4>1
      <4>2. CASE calls' # calls
        <5>1. resume # <<>> /\ calls' = [calls EXCEPT ![Head(resume)].at = "write"]
          BY <1>3, <4>2 DEF EndBlocks, EndRound, Unlock
        <5>2. PICK c \in Call : resume = <<c>> /\ calls[c].at = "wait"
          BY <5>1 DEF IInv, CallsGood
        <5>3. calls' = [calls EXCEPT ![c].at = "write"]
          BY <5>1, <5>2
        <5> QED
          BY <5>2, <5>3 DEF IInv, CallsGood
      <4> QED
        BY <4>1, <4>2
    <3> QED
      BY <1>3, <3>1, FilesKept DEF IInv, EndBlocks, EndRound, disk
  <2> QED
    BY <1>3, <2>1, <2>2 DEF IInv, RestGood, EndBlocks, EndRound, boot, memory, disk
<1>4. CASE Throw \/ \E t \in Tx : UpdateMempool(t)
  <2>1. CallsGood' /\ FilesGood'
    BY <1>4, CalmKeeps DEF IInv, Throw, UpdateMempool, Calm, disk, saving
  <2>2. pool' \subseteq Tx /\ rbf' \in BOOLEAN
    BY <1>4 DEF IInv, RestGood, Throw, UpdateMempool, memory
  <2> QED
    BY <1>4, <2>1, <2>2 DEF IInv, RestGood, Throw, UpdateMempool, boot, memory, disk, saving
<1> QED
  BY <1>1, <1>2, <1>3, <1>4 DEF Rounds, MainLoop

\* Every step keeps the invariant.
LEMMA NextKeeps ==
  ASSUME IInv, [Next]_vars
  PROVE  IInv'
<1>1. ASSUME NEW c \in Call,
             \/ BeginWrite(c) \/ EndWrite(c) \/ Rename(c) \/ SaveRbf(c)
             \/ SaveFails(c) \/ SaveRbfFails(c)
      PROVE  IInv'
  BY <1>1, BeginWriteKeeps, EndWriteKeeps, RenameKeeps, SaveRbfKeeps, SaveFailsKeeps
<1>2. CASE Boots
  BY <1>2, BootsKeep
<1>3. CASE Signal \/ Crash
  BY <1>3, StopsKeep
<1>4. CASE Rounds
  BY <1>4, RoundsKeep
<1>5. CASE UNCHANGED vars
  <2>1. CallsGood' /\ FilesGood'
    BY <1>5, CalmKeeps DEF IInv, Calm, vars, disk, saving
  <2> QED
    BY <1>5, <2>1 DEF IInv, RestGood, vars, boot, memory, disk, saving
<1> QED
  BY <1>1, <1>2, <1>3, <1>4, <1>5 DEF Next, Saving, Loading, Boots, Rounds, Signal

\* It holds at the start.
LEMMA InitHolds == Init => IInv
<1> SUFFICES ASSUME Init PROVE IInv
  OBVIOUS
<1>1. CallsGood
  <2>1. NoCall.at = "none"
    BY DEF NoCall
  <2> QED
    BY <2>1, NoCallTyped DEF Init, CallsGood
<1>2. FilesGood
  BY DEF Init, FilesGood, NoFiles
<1>3. RestGood
  <2>1. height \in 0..MaxHeight /\ loaded \in 0..MaxHeight /\ faults \in 0..MaxFaults
    BY BoundsAssumption DEF Init
  <2>2. ignore \in BOOLEAN /\ rbf \in BOOLEAN /\ rbfFile \in BOOLEAN /\ torn \in BOOLEAN
    BY DEF Init
  <2> QED
    BY <2>1, <2>2 DEF Init, RestGood
<1> QED
  BY <1>1, <1>2, <1>3 DEF IInv

-----------------------------------------------------------------------------
(* The theorems                                                            *)

\* The inductive invariant.
THEOREM Inductive == Spec => []IInv
<1> QED
  BY InitHolds, NextKeeps, PTL DEF Spec

\* Types, and that isWritingCache is set exactly while a call is on its way.
THEOREM TypeCorrect == Spec => []TypeOK
<1>1. IInv => TypeOK
  <2> SUFFICES ASSUME IInv PROVE TypeOK
    OBVIOUS
  <2>1. \A c \in Call : /\ calls[c].at \in Places /\ calls[c].i \in Chunk
                        /\ calls[c].left \subseteq calls[c].from
    BY DEF IInv, CallsGood, CallTyped
  <2>2. /\ resume \in Seq(Call)
        /\ \A c \in Call : calls[c].at = "wait" <=> \E n \in DOMAIN resume : resume[n] = c
    <3>1. CASE resume = <<>>
      <4>1. DOMAIN resume = {}
        BY <3>1
      <4> QED
        BY <3>1, <4>1 DEF IInv, CallsGood
    <3>2. CASE resume # <<>>
      <4>1. PICK c \in Call : resume = <<c>> /\ calls[c].at = "wait"
        BY <3>2 DEF IInv, CallsGood
      <4>2. DOMAIN resume = {1} /\ resume[1] = c
        BY <4>1
      <4>3. \A d \in Call : calls[d].at = "wait" => d = c
        BY <4>1 DEF IInv, CallsGood
      <4> QED
        BY <4>1, <4>2, <4>3
    <3> QED
      BY <3>1, <3>2
  <2> QED
    BY <2>1, <2>2 DEF IInv, CallsGood, FilesGood, RestGood, TypeOK, Places
<1> QED
  BY <1>1, Inductive, PTL

\* A start never reads half a file, wherever a save was interrupted or failed.
THEOREM FilesWholeHolds == Spec => []FilesWhole
<1>1. IInv => FilesWhole
  BY DEF IInv, FilesGood, FilesWhole
<1> QED
  BY <1>1, Inductive, PTL

-----------------------------------------------------------------------------
(* One snapshot                                                            *)

\* The files of the chunks in K are disjoint pieces of one mempool, each of the full size.
Slices(fs, K, from) ==
  /\ K \subseteq DOMAIN fs
  /\ \A i \in K : /\ fs[i].from = from /\ fs[i].txs \subseteq from
                 /\ Cardinality(fs[i].txs) = ChunkSize(from)
  /\ \A i, j \in K : i # j => fs[i].txs \cap fs[j].txs = {}

\* All chunks of one mempool; of an empty one some may be missing.
Cache(fs, from) == (DOMAIN fs = Chunk \/ from = {}) /\ Slices(fs, DOMAIN fs, from)

\* The files fs as they will be when the temporary ones from chunk i on have been renamed.
Renamed(ts, fs, i) ==
  [j \in {k \in Chunk : k >= i \/ k \in DOMAIN fs} |-> IF j >= i THEN ts[j] ELSE fs[j]]

\* The temporary files are the chunks that the call has cut off what it copied.
CallCuts(call) ==
  /\ call.at \in {"none", "rbf"} => tmp = NoFiles
  /\ call.at \in {"wait", "write"} => DOMAIN tmp = 0 .. call.i - 1
  /\ call.at = "writing" => DOMAIN tmp = 0 .. call.i
  /\ call.at \in {"wait", "write", "writing"} =>
       /\ Slices(tmp, DOMAIN tmp, call.from)
       /\ \A j \in DOMAIN tmp : tmp[j].txs \cap call.left = {}
  /\ call.at = "rename" => /\ DOMAIN tmp = call.i .. Chunks - 1
                           /\ Cache(Renamed(tmp, files, call.i), call.from)

\* Before the process is up it has nothing to save but an empty mempool.
EarlyEmpty ==
  /\ proc # "up" => round = "idle" /\ \A c \in Call : calls[c].from = {}
  /\ proc \in {"down", "pools", "load"} => pool = {}
  /\ proc = "down" => ~ignore

Cuts ==
  /\ writing => \E c \in Call : calls[c].at # "none" /\ CallCuts(calls[c])
  /\ ~writing => tmp = NoFiles
  /\ ~torn /\ ~Renaming => \E from \in SUBSET Tx : Cache(files, from)
  /\ EarlyEmpty

\* What a signal saved is on disk until the next process has read it.
ExitKept ==
  ~ignore =>
    /\ exit.saved \/ exit.rbfSaved => proc # "up" /\ ~writing
    /\ exit.rbfSaved => rbfFile = exit.rbf
    /\ exit.saved =>
         /\ exit.pool \in SUBSET Tx
         /\ proc # "set" => /\ DOMAIN files = Chunk /\ Slices(files, Chunk, exit.pool)
                            /\ files[0].height = exit.height
         /\ proc = "set" => /\ pool \subseteq exit.pool /\ loaded = exit.height
                            /\ Cardinality(exit.pool \ pool) = Cardinality(exit.pool) % Chunks

Snapshots == Cuts /\ ExitKept

-----------------------------------------------------------------------------
(* Counting                                                                *)

\* Disjoint sets of one size have, together, that size times their number.
LEMMA PiecesCounted ==
  ASSUME NEW p, NEW K, IsFiniteSet(K), NEW n \in Nat, NEW all,
         \A i \in K : IsFiniteSet(p[i]) /\ Cardinality(p[i]) = n,
         \A i, j \in K : i # j => p[i] \cap p[j] = {},
         all = UNION {p[i] : i \in K}
  PROVE  Cardinality(all) = Cardinality(K) * n
<1> DEFINE places == K \X (1..n)
           count == [i \in K |-> CHOOSE b : b \in Bijection(1..n, p[i])]
           at == [d \in places |-> count[d[1]][d[2]]]
<1>1. ASSUME NEW i \in K
      PROVE  count[i] \in Bijection(1..n, p[i])
  BY FS_CardinalityType DEF ExistsBijection
<1> HIDE DEF count
<1>2. \A i \in K : /\ count[i] \in [1..n -> p[i]]
                   /\ \A a, b \in 1..n : count[i][a] = count[i][b] => a = b
                   /\ \A x \in p[i] : \E a \in 1..n : count[i][a] = x
  BY <1>1 DEF Bijection, Injection, Surjection, IsInjective
<1>3. at \in [places -> all]
  BY <1>2
<1>4. \A d, e \in places : at[d] = at[e] => d = e
  <2> SUFFICES ASSUME NEW i \in K, NEW j \in K, NEW a \in 1..n, NEW b \in 1..n,
                      count[i][a] = count[j][b]
               PROVE  i = j /\ a = b
    OBVIOUS
  <2>1. count[i][a] \in p[i] /\ count[j][b] \in p[j]
    BY <1>2
  <2> QED
    BY <1>2, <2>1
<1>5. \A x \in all : \E d \in places : at[d] = x
  <2> TAKE x \in all
  <2>1. PICK i \in K : x \in p[i]
    OBVIOUS
  <2>2. PICK a \in 1..n : count[i][a] = x
    BY <1>2, <2>1
  <2> WITNESS <<i, a>> \in places
  <2> QED
    BY <2>2
<1> HIDE DEF at
<1>6. ExistsBijection(places, all)
  <2> HIDE DEF places
  <2>1. DOMAIN at = places
    BY <1>3
  <2>2. at \in Bijection(places, all)
    BY <1>3, <1>4, <1>5, <2>1 DEF Bijection, Injection, Surjection, IsInjective
  <2> QED
    BY <2>2 DEF ExistsBijection
<1>7. IsFiniteSet(1..n) /\ Cardinality(1..n) = n
  BY FS_Interval
<1>8. IsFiniteSet(places) /\ Cardinality(places) = Cardinality(K) * n
  BY <1>7, FS_Product
<1> QED
  BY <1>6, <1>8, FS_Bijection

\* All the chunks of a mempool leave out the remainder of the division, and nothing else.
LEMMA SlicesCounted ==
  ASSUME NEW from \in SUBSET Tx, NEW fs, Slices(fs, Chunk, from)
  PROVE  LET all == UNION {fs[i].txs : i \in Chunk}
         IN  all \subseteq from /\ Cardinality(from \ all) = Cardinality(from) % Chunks
<1> DEFINE all == UNION {fs[i].txs : i \in Chunk}
           p == [i \in Chunk |-> fs[i].txs]
           n == ChunkSize(from)
<1>1. IsFiniteSet(from) /\ Cardinality(from) \in Nat
  BY BoundsAssumption, FS_Subset, FS_CardinalityType
<1>2. n \in Nat /\ Cardinality(from) - Chunks * n = Cardinality(from) % Chunks
  BY <1>1, BoundsAssumption DEF ChunkSize
<1>3. \A i \in Chunk : p[i] \subseteq from /\ Cardinality(p[i]) = n
  BY DEF Slices
<1>4. \A i, j \in Chunk : i # j => p[i] \cap p[j] = {}
  BY DEF Slices
<1>5. \A i \in Chunk : IsFiniteSet(p[i])
  BY <1>1, <1>3, FS_Subset
<1>6. IsFiniteSet(Chunk) /\ Cardinality(Chunk) = Chunks
  BY BoundsAssumption, FS_Interval DEF Chunk
<1>7. all = UNION {p[i] : i \in Chunk}
  OBVIOUS
<1> HIDE DEF p, n, all
<1>8. Cardinality(all) = Chunks * n
  BY <1>2, <1>3, <1>4, <1>5, <1>6, <1>7, PiecesCounted
<1>9. all \subseteq from
  BY <1>3, <1>7
<1>10. Cardinality(from \ all) = Cardinality(from) - Cardinality(all)
  <2>1. from \cap all = all
    BY <1>9
  <2> QED
    BY <1>1, <2>1, FS_Difference
<1> QED
  BY <1>2, <1>8, <1>9, <1>10 DEF all

\* The same of a cache from which chunks are missing as the mempool was empty.
LEMMA CacheCounted ==
  ASSUME NEW from \in SUBSET Tx, NEW fs, DOMAIN fs \subseteq Chunk, Cache(fs, from)
  PROVE  LET all == UNION {fs[i].txs : i \in DOMAIN fs}
         IN  all \subseteq from /\ Cardinality(from \ all) = Cardinality(from) % Chunks
<1>1. CASE DOMAIN fs = Chunk
  BY <1>1, SlicesCounted DEF Cache
<1>2. CASE from = {}
  <2>1. UNION {fs[i].txs : i \in DOMAIN fs} = {}
    BY <1>2 DEF Cache, Slices
  <2>2. Cardinality({}) = 0 /\ 0 % Chunks = 0
    BY FS_EmptySet, BoundsAssumption
  <2> QED
    BY <1>2, <2>1, <2>2
<1> QED
  BY <1>1, <1>2 DEF Cache

\* What is saved at once to the end is the mempool with the blocks of that moment; without
\* a rename the files stay as they are.
LEMMA SavedWhole ==
  ASSUME FilesGood, RestGood, NEW done \in 0..Chunks, NEW rbfDone \in BOOLEAN,
         SaveAtOnce(done, rbfDone), ~writing
  PROVE  /\ done = Chunks => /\ DOMAIN files' = Chunk /\ Slices(files', Chunk, pool)
                             /\ Cache(files', pool) /\ files'[0].height = height
         /\ rbfDone => rbfFile' = rbf
         /\ torn' = (done < Chunks /\ (torn \/ done > 0))
         /\ done = 0 => /\ DOMAIN files' = DOMAIN files
                        /\ \A i \in DOMAIN files : files'[i] = files[i]
<1> DEFINE D == DOMAIN files \cup 0 .. done - 1
           new(f, i) == [txs |-> f[i], from |-> pool, whole |-> TRUE,
                         height |-> IF i = 0 THEN height ELSE 0]
<1>1. PICK f \in Cut(pool) : files' = [i \in D |-> IF i < done THEN new(f, i) ELSE files[i]]
  BY DEF SaveAtOnce, Refused
<1>2. ASSUME done = Chunks
      PROVE  /\ DOMAIN files' = Chunk /\ Slices(files', Chunk, pool)
             /\ Cache(files', pool) /\ files'[0].height = height
  <2>1. D = Chunk
    BY <1>2, BoundsAssumption DEF FilesGood, Chunk
  <2>2. \A i \in Chunk : i < done
    BY <1>2, BoundsAssumption DEF Chunk
  <2>3. files' = [i \in Chunk |-> new(f, i)]
    BY <1>1, <2>1, <2>2
  <2>4. \A i \in Chunk : f[i] \subseteq pool /\ Cardinality(f[i]) = ChunkSize(pool)
    BY DEF Cut
  <2>5. \A i, j \in Chunk : i # j => f[i] \cap f[j] = {}
    BY DEF Cut
  <2>6. 0 \in Chunk
    BY BoundsAssumption DEF Chunk
  <2>7. Slices(files', Chunk, pool)
    BY <2>3, <2>4, <2>5 DEF Slices
  <2> QED
    BY <2>3, <2>6, <2>7 DEF Cache
<1>3. ASSUME done = 0
      PROVE  DOMAIN files' = DOMAIN files /\ \A i \in DOMAIN files : files'[i] = files[i]
  <2>1. D = DOMAIN files
    BY <1>3
  <2>2. \A i \in D : ~(i < done)
    BY <1>3, <2>1 DEF FilesGood, Chunk
  <2>3. files' = [i \in DOMAIN files |-> files[i]]
    BY <1>1, <2>1, <2>2
  <2> QED
    BY <2>3
<1>4. (rbfDone => rbfFile' = rbf) /\ torn' = (done < Chunks /\ (torn \/ done > 0))
  BY DEF SaveAtOnce, Refused
<1> QED
  BY <1>2, <1>3, <1>4

-----------------------------------------------------------------------------
(* The steps of a save                                                     *)

\* There is one call on its way, and it alone renames.
LEMMA CallAlone ==
  ASSUME CallsGood, NEW c \in Call, calls[c].at # "none"
  PROVE  /\ writing /\ \A d \in Call : d # c => calls[d].at = "none"
         /\ Renaming <=> calls[c].at = "rename" /\ calls[c].i > 0
         /\ Cuts => CallCuts(calls[c])
BY DEF CallsGood, Renaming, Cuts

\* A new chunk is taken from what is left, so it meets no chunk before it.
LEMMA BeginWriteCuts ==
  ASSUME IInv, IInv', Cuts, NEW c \in Call, BeginWrite(c)
  PROVE  CallCuts(calls[c])' /\ ~Renaming /\ ~Renaming' /\ calls'[c].from = calls[c].from
<1> DEFINE k == calls[c].i
           from == calls[c].from
<1>1. PICK txs \in SUBSET calls[c].left :
        /\ Cardinality(txs) = ChunkSize(from)
        /\ tmp' = With(tmp, k, [txs |-> txs, from |-> from, whole |-> FALSE,
                                height |-> IF k = 0 THEN height ELSE 0])
        /\ calls' = [calls EXCEPT ![c].at = "writing", ![c].left = @ \ txs]
  BY DEF BeginWrite
<1>2. calls[c] \in CallTyped /\ calls[c].left \subseteq from /\ calls[c].at = "write"
  BY DEF IInv, CallsGood, BeginWrite
<1>3. /\ calls'[c].at = "writing" /\ calls'[c].i = k /\ calls'[c].from = from
      /\ calls'[c].left = calls[c].left \ txs
  BY <1>1, <1>2 DEF IInv, CallsGood, CallTyped
<1>4. CallCuts(calls[c]) /\ ~Renaming
  BY <1>2, CallAlone DEF IInv
<1>5. ~Renaming'
  BY <1>3 DEF IInv, CallsGood, Renaming
<1>6. DOMAIN tmp = 0 .. k - 1 /\ Slices(tmp, 0 .. k - 1, from)
      /\ \A j \in 0 .. k - 1 : tmp[j].txs \cap calls[c].left = {}
  BY <1>2, <1>4 DEF CallCuts
<1>7. k \in 0 .. Chunks - 1
  BY <1>2 DEF CallTyped, Chunk
<1>8. DOMAIN tmp' = 0..k
  BY <1>1, <1>6, <1>7, BoundsAssumption DEF With
<1>9. /\ tmp'[k].txs = txs /\ tmp'[k].from = from
      /\ \A j \in 0 .. k - 1 : tmp'[j] = tmp[j] /\ j # k
  BY <1>1, <1>6, <1>7, BoundsAssumption DEF With
<1>10. \A j \in 0..k : j = k \/ j \in 0 .. k - 1
  BY <1>7, BoundsAssumption
<1>11. /\ \A j \in 0..k : /\ tmp'[j].from = from /\ tmp'[j].txs \subseteq from
                          /\ Cardinality(tmp'[j].txs) = ChunkSize(from)
                          /\ tmp'[j].txs \cap (calls[c].left \ txs) = {}
       /\ \A j \in 0 .. k - 1 : tmp'[j].txs \cap tmp'[k].txs = {}
  BY <1>1, <1>2, <1>6, <1>9, <1>10 DEF Slices
<1>12. \A i, j \in 0..k : i # j => tmp'[i].txs \cap tmp'[j].txs = {}
  BY <1>6, <1>9, <1>10, <1>11 DEF Slices
<1>13. Slices(tmp', 0..k, from)
  BY <1>8, <1>11, <1>12 DEF Slices
<1> QED
  BY <1>3, <1>4, <1>5, <1>8, <1>11, <1>13 DEF CallCuts

\* A chunk is done: the next begins where it ended, or all are there to be renamed.
LEMMA EndWriteCuts ==
  ASSUME IInv, IInv', Cuts, NEW c \in Call, EndWrite(c)
  PROVE  CallCuts(calls[c])' /\ ~Renaming /\ ~Renaming' /\ calls'[c].from = calls[c].from
<1> DEFINE k == calls[c].i
           from == calls[c].from
<1>1. calls[c] \in CallTyped /\ calls[c].at = "writing" /\ k \in 0 .. Chunks - 1
  BY DEF IInv, CallsGood, EndWrite, CallTyped, Chunk
<1>2. CallCuts(calls[c]) /\ ~Renaming
  BY <1>1, CallAlone DEF IInv
<1>3. DOMAIN tmp = 0..k /\ Slices(tmp, 0..k, from)
      /\ \A j \in 0..k : tmp[j].txs \cap calls[c].left = {}
  BY <1>1, <1>2 DEF CallCuts
<1>4. tmp' = [tmp EXCEPT ![k].whole = TRUE]
  BY DEF EndWrite
<1>5. /\ DOMAIN tmp' = 0..k
      /\ \A j \in 0..k : tmp'[j].txs = tmp[j].txs /\ tmp'[j].from = tmp[j].from
  <2>1. \A j \in 0..k : tmp[j] \in File
    BY <1>3 DEF IInv, FilesGood
  <2> QED
    BY <1>3, <1>4, <2>1 DEF File
<1>6. Slices(tmp', 0..k, from) /\ \A j \in 0..k : tmp'[j].txs \cap calls[c].left = {}
  BY <1>3, <1>5 DEF Slices
<1>7. CASE k < Chunks - 1
  <2>1. /\ calls'[c].at \in {"wait", "write"} /\ calls'[c].i = k + 1
        /\ calls'[c].from = from /\ calls'[c].left = calls[c].left
    <3> DEFINE r == [calls[c] EXCEPT !.i = @ + 1]
    <3>1. Yield(c, r) /\ r.i = k + 1 /\ r.from = from /\ r.left = calls[c].left /\ r \in CallTyped
      BY <1>1, <1>7, BoundsAssumption DEF EndWrite, CallTyped, Chunk
    <3> HIDE DEF r
    <3>2. calls'[c] = [r EXCEPT !.at = IF locks > 0 THEN "wait" ELSE "write"]
      BY <3>1 DEF Yield, IInv, CallsGood
    <3> QED
      BY <3>1, <3>2 DEF CallTyped
  <2>2. 0 .. (k + 1) - 1 = 0..k
    BY <1>1, BoundsAssumption
  <2>3. ~Renaming'
    BY <2>1 DEF IInv, CallsGood, Renaming
  <2> QED
    BY <1>2, <1>5, <1>6, <2>1, <2>2, <2>3 DEF CallCuts
<1>8. CASE ~(k < Chunks - 1)
  <2>1. calls'[c].at = "rename" /\ calls'[c].i = 0 /\ calls'[c].from = from
    BY <1>1, <1>8 DEF EndWrite, IInv, CallsGood, CallTyped
  <2>2. 0..k = 0 .. Chunks - 1
    BY <1>1, <1>8, BoundsAssumption
  <2>3. ~Renaming'
    BY <2>1 DEF IInv, CallsGood, Renaming
  <2> DEFINE all == Renamed(tmp', files', 0)
  <2>4. DOMAIN all = Chunk /\ \A j \in Chunk : all[j] = tmp'[j]
    BY BoundsAssumption DEF Renamed, Chunk
  <2> HIDE DEF all
  <2>5. Cache(all, from)
    BY <1>6, <2>2, <2>4 DEF Cache, Slices, Chunk
  <2> QED
    BY <1>2, <1>5, <2>1, <2>2, <2>3, <2>5 DEF CallCuts, all
<1> QED
  BY <1>7, <1>8

\* A renamed chunk takes the place it was going to have; the last completes the cache.
LEMMA RenameCuts ==
  ASSUME IInv, IInv', Cuts, NEW c \in Call, Rename(c)
  PROVE  /\ CallCuts(calls[c])'
         /\ Renaming' \/ \E from \in SUBSET Tx : Cache(files', from)
         /\ calls'[c].from \in {calls[c].from, {}}
<1> DEFINE k == calls[c].i
           from == calls[c].from
<1>1. /\ calls[c] \in CallTyped /\ calls[c].at = "rename" /\ k \in 0 .. Chunks - 1
      /\ from \in SUBSET Tx
  BY DEF IInv, CallsGood, Rename, CallTyped, Chunk
<1>2. DOMAIN tmp = k .. Chunks - 1 /\ Cache(Renamed(tmp, files, k), from)
  BY <1>1, CallAlone DEF IInv, CallCuts
<1>3. /\ DOMAIN files' = DOMAIN files \cup {k}
      /\ \A j \in DOMAIN files' : files'[j] = IF j = k THEN tmp[k] ELSE files[j]
      /\ tmp' = [j \in (DOMAIN tmp) \ {k} |-> tmp[j]]
  BY DEF Rename, With
<1>4. DOMAIN files \subseteq Chunk
  BY DEF IInv, FilesGood
<1>5. CASE k < Chunks - 1
  <2>1. calls'[c].at = "rename" /\ calls'[c].i = k + 1 /\ calls'[c].from = from
    BY <1>1, <1>5 DEF Rename, IInv, CallsGood, CallTyped
  <2>2. DOMAIN tmp' = k + 1 .. Chunks - 1
    BY <1>1, <1>2, <1>3, BoundsAssumption
  <2>3. {j \in Chunk : j >= k + 1 \/ j \in DOMAIN files'}
          = {j \in Chunk : j >= k \/ j \in DOMAIN files}
    BY <1>1, <1>3, BoundsAssumption DEF Chunk
  <2>4. \A j \in {i \in Chunk : i >= k \/ i \in DOMAIN files} :
          (IF j >= k + 1 THEN tmp'[j] ELSE files'[j]) = IF j >= k THEN tmp[j] ELSE files[j]
    <3> TAKE j \in {i \in Chunk : i >= k \/ i \in DOMAIN files}
    <3>1. j \in 0 .. Chunks - 1 /\ (j >= k \/ j \in DOMAIN files)
      BY DEF Chunk
    <3>2. CASE j >= k + 1
      BY <1>1, <1>2, <1>3, <3>1, <3>2, BoundsAssumption
    <3>3. CASE j = k
      BY <1>1, <1>3, <3>3
    <3>4. CASE j < k
      BY <1>1, <1>3, <3>1, <3>4
    <3> QED
      BY <1>1, <3>1, <3>2, <3>3, <3>4
  <2>5. Renamed(tmp', files', k + 1) = Renamed(tmp, files, k)
    BY <2>3, <2>4 DEF Renamed
  <2>6. Renaming'
    BY <1>1, <2>1 DEF Renaming
  <2> QED
    BY <1>2, <2>1, <2>2, <2>5, <2>6 DEF CallCuts
<1>6. CASE ~(k < Chunks - 1)
  <2>1. calls'[c].at = "rbf" /\ calls'[c].from = {}
    BY <1>1, <1>6 DEF Rename, TurnToRbf, NoCall, IInv, CallsGood
  <2>2. k = Chunks - 1 /\ DOMAIN tmp = {k}
    BY <1>1, <1>2, <1>6, BoundsAssumption
  <2>3. tmp' = NoFiles
    BY <1>3, <2>2 DEF NoFiles
  <2>4. {j \in Chunk : j >= k \/ j \in DOMAIN files} = DOMAIN files'
    BY <1>1, <1>3, <1>4, <2>2, BoundsAssumption DEF Chunk
  <2>5. \A j \in DOMAIN files' : files'[j] = IF j >= k THEN tmp[j] ELSE files[j]
    <3> TAKE j \in DOMAIN files'
    <3>1. j \in 0 .. Chunks - 1
      BY <1>1, <1>3, <1>4 DEF Chunk
    <3> QED
      BY <1>1, <1>3, <2>2, <3>1, BoundsAssumption
  <2> DEFINE all == Renamed(tmp, files, k)
  <2>6. DOMAIN all = DOMAIN files' /\ \A j \in DOMAIN files' : all[j] = files'[j]
    BY <2>4, <2>5 DEF Renamed
  <2>7. Cache(all, from)
    BY <1>2
  <2> HIDE DEF all
  <2>8. Cache(files', from)
    BY <2>6, <2>7 DEF Cache, Slices
  <2> QED
    BY <1>1, <2>1, <2>3, <2>8 DEF CallCuts
<1> QED
  BY <1>5, <1>6

\* The steps of a save keep what is cut.
LEMMA SavingCuts ==
  ASSUME IInv, IInv', Cuts, NEW c \in Call,
         \/ BeginWrite(c) \/ EndWrite(c) \/ Rename(c) \/ SaveRbf(c)
         \/ SaveFails(c) \/ SaveRbfFails(c)
  PROVE  Cuts'
<1>1. CASE BeginWrite(c) \/ EndWrite(c)
  <2>1. CallCuts(calls[c])' /\ ~Renaming /\ ~Renaming' /\ calls'[c].from = calls[c].from
    BY <1>1, BeginWriteCuts, EndWriteCuts
  <2>2. \A d \in Call : d # c => calls'[d] = calls[d]
    BY <1>1 DEF BeginWrite, EndWrite, Yield, IInv, CallsGood
  <2>3. EarlyEmpty'
    BY <1>1, <2>1, <2>2 DEF Cuts, EarlyEmpty, BeginWrite, EndWrite, boot, memory
  <2> QED
    <3>1. /\ writing /\ writing' /\ files' = files /\ torn' = torn
          /\ \A d \in Call : d # c => calls[d].at = "none"
      BY <1>1, CallAlone DEF IInv, BeginWrite, EndWrite
    <3>2. calls'[c].at # "none"
      BY <2>2, <3>1 DEF IInv, CallsGood
    <3> QED
      BY <2>1, <2>3, <3>1, <3>2 DEF Cuts
<1>2. CASE Rename(c)
  <2>1. /\ CallCuts(calls[c])' /\ (Renaming' \/ \E from \in SUBSET Tx : Cache(files', from))
        /\ calls'[c].from \in {calls[c].from, {}}
    BY <1>2, RenameCuts
  <2>2. \A d \in Call : d # c => calls'[d] = calls[d]
    BY <1>2 DEF Rename, TurnToRbf, IInv, CallsGood
  <2>3. EarlyEmpty'
    BY <1>2, <2>1, <2>2 DEF Cuts, EarlyEmpty, Rename, boot, memory
  <2> QED
    <3>1. writing /\ writing' /\ \A d \in Call : d # c => calls[d].at = "none"
      BY <1>2, CallAlone DEF IInv, Rename
    <3>2. calls'[c].at # "none"
      BY <2>2, <3>1 DEF IInv, CallsGood
    <3> QED
      BY <2>1, <2>3, <3>1, <3>2 DEF Cuts
<1>3. CASE SaveFails(c)
  <2>1. /\ calls'[c].at = "rbf" /\ calls'[c].from = {} /\ tmp' = NoFiles
        /\ \A d \in Call : d # c => calls'[d] = calls[d]
    BY <1>3 DEF SaveFails, TurnToRbf, NoCall, IInv, CallsGood
  <2>2. CallCuts(calls[c])' /\ ~Renaming'
    BY <2>1 DEF CallCuts, Renaming, IInv, CallsGood
  <2>3. EarlyEmpty'
    BY <1>3, <2>1 DEF Cuts, EarlyEmpty, SaveFails, boot, memory
  <2>4. ~torn' => \E from \in SUBSET Tx : Cache(files', from)
    BY <1>3 DEF Cuts, SaveFails
  <2> QED
    BY <2>1, <2>2, <2>3, <2>4 DEF Cuts, IInv, CallsGood
<1>4. CASE SaveRbf(c) \/ SaveRbfFails(c)
  <2>1. calls[c].at = "rbf" /\ calls' = [calls EXCEPT ![c] = NoCall] /\ ~writing'
        /\ tmp' = tmp /\ files' = files /\ torn' = torn
    BY <1>4 DEF SaveRbf, SaveRbfFails, EndSave, disk
  <2>2. CallCuts(calls[c]) /\ ~Renaming
    BY <2>1, CallAlone DEF IInv
  <2>3. tmp = NoFiles
    BY <2>1, <2>2 DEF CallCuts
  <2>4. \A d \in Call : calls'[d] = IF d = c THEN NoCall ELSE calls[d]
    BY <2>1 DEF IInv, CallsGood
  <2>5. EarlyEmpty'
    BY <1>4, <2>4 DEF Cuts, EarlyEmpty, SaveRbf, SaveRbfFails, boot, memory, NoCall
  <2> QED
    BY <2>1, <2>2, <2>3, <2>5 DEF Cuts
<1> QED
  BY <1>1, <1>2, <1>3, <1>4

-----------------------------------------------------------------------------
(* The process                                                             *)

\* Calls and files alone.
LEMMA CalmCuts ==
  ASSUME Cuts, Calm, files' = files, tmp' = tmp, torn' = torn, EarlyEmpty'
  PROVE  Cuts'
BY DEF Cuts, Calm, CallCuts, Renamed, Renaming

\* A save begins with nothing cut, or is refused.
LEMMA SaveCuts ==
  ASSUME IInv, CallsGood', Cuts, NEW txs \in SUBSET Tx, Save(txs), disk' = disk, EarlyEmpty'
  PROVE  Cuts'
<1>1. CASE writing
  BY <1>1, CalmCuts DEF Save, Refused, Calm, disk, saving
<1>2. CASE ~writing
  <2> DEFINE r == [NoCall EXCEPT !.from = txs, !.left = txs]
  <2>1. \A d \in Call : calls[d].at = "none"
    BY <1>2 DEF IInv, CallsGood
  <2>2. PICK c \in Call : Yield(c, r) /\ writing' = TRUE
    <3>1. (CHOOSE d \in Call : calls[d].at = "none") \in Call
      BY <2>1, BoundsAssumption
    <3> QED
      BY <1>2, <3>1 DEF Save, Refused
  <2>3. r \in CallTyped /\ r.i = 0
    BY NoCallTyped DEF CallTyped, NoCall
  <2> HIDE DEF r
  <2>5. /\ \A d \in Call : d # c => calls'[d].at = "none"
        /\ calls'[c].at \in {"wait", "write"} /\ calls'[c].i = 0
    BY <2>1, <2>2, <2>3 DEF Yield, CallTyped, IInv, CallsGood
  <2>6. tmp' = NoFiles /\ files' = files /\ torn' = torn /\ ~Renaming /\ ~Renaming'
    BY <1>2, <2>1, <2>5 DEF Cuts, disk, Renaming
  <2>7. DOMAIN tmp' = 0 .. 0 - 1 /\ DOMAIN tmp' = {}
    BY <2>6 DEF NoFiles
  <2>8. CallCuts(calls[c])'
    <3>1. Slices(tmp', DOMAIN tmp', calls'[c].from)
      BY <2>7 DEF Slices
    <3>2. calls'[c].at \notin {"none", "rbf", "writing", "rename"} /\ DOMAIN tmp' = 0 .. calls'[c].i - 1
      BY <2>5, <2>7
    <3> QED
      BY <2>7, <3>1, <3>2 DEF CallCuts
  <2> QED
    BY <2>2, <2>5, <2>6, <2>8 DEF Cuts
<1> QED
  BY <1>1, <1>2

\* What is saved at once is the snapshot of a mempool, or renaming was cut short, or the
\* files are as they were.
LEMMA AtOnceSnapshot ==
  ASSUME IInv, Cuts, NEW done \in 0..Chunks, NEW rbfDone \in BOOLEAN,
         SaveAtOnce(done, rbfDone), ~writing, ~torn'
  PROVE  \E from \in SUBSET Tx : Cache(files', from)
<1>1. torn' = (done < Chunks /\ (torn \/ done > 0))
  BY SavedWhole DEF IInv
<1>2. CASE done = Chunks
  BY <1>2, SavedWhole DEF IInv, RestGood
<1>3. CASE done # Chunks
  <2>1. done < Chunks
    BY <1>3, BoundsAssumption
  <2>2. ~torn /\ ~(done > 0)
    BY <1>1, <2>1
  <2>4. done = 0
    BY <2>2
  <2>5. DOMAIN files' = DOMAIN files /\ \A i \in DOMAIN files : files'[i] = files[i]
    BY <2>4, SavedWhole DEF IInv
  <2>3. ~Renaming
    BY DEF IInv, CallsGood, Renaming
  <2>6. PICK from \in SUBSET Tx : Cache(files, from)
    BY <2>2, <2>3 DEF Cuts
  <2>7. Cache(files', from)
    BY <2>5, <2>6 DEF Cache, Slices
  <2> QED
    BY <2>7
<1> QED
  BY <1>2, <1>3

LEMMA AtOnceCuts ==
  ASSUME IInv, Cuts, NEW done \in 0..Chunks, NEW rbfDone \in BOOLEAN,
         SaveAtOnce(done, rbfDone), ~writing, tmp' = tmp, Calm, EarlyEmpty'
  PROVE  Cuts'
BY AtOnceSnapshot DEF Cuts, Calm

AtOnce == \E done \in 0..Chunks, rbfDone \in BOOLEAN : SaveAtOnce(done, rbfDone)

\* A process that ends leaves a snapshot, if it did not end while files were renamed.
LEMMA DieCuts ==
  ASSUME IInv, Cuts, Die,
         (~writing /\ AtOnce) \/ (files' = files /\ torn' = (torn \/ Renaming))
  PROVE  Cuts'
<1>1. /\ proc' = "down" /\ ~ignore' /\ tmp' = NoFiles /\ pool' = {} /\ writing' = FALSE /\ round' = "idle"
      /\ calls' = [c \in Call |-> NoCall]
  BY DEF Die
<1>2. EarlyEmpty'
  BY <1>1 DEF EarlyEmpty, NoCall
<1>3. ~torn' => \E from \in SUBSET Tx : Cache(files', from)
  <2>1. CASE ~writing /\ AtOnce
    BY <2>1, AtOnceSnapshot DEF AtOnce
  <2>2. CASE files' = files /\ torn' = (torn \/ Renaming)
    BY <2>2 DEF Cuts
  <2> QED
    BY <2>1, <2>2
<1> QED
  BY <1>1, <1>2, <1>3 DEF Cuts

\* The steps of a start: foreign files are wiped while there is only an empty mempool to save.
LEMMA BootCuts ==
  ASSUME IInv, IInv', Cuts, Boots
  PROVE  Cuts'
<1>1. CASE Start \/ LoadNothing \/ LoadMempool
  <2>1. EarlyEmpty'
    BY <1>1 DEF Cuts, EarlyEmpty, Start, LoadNothing, LoadMempool, memory, saving
  <2> QED
    BY <1>1, <2>1, CalmCuts DEF Calm, Start, LoadNothing, LoadMempool, disk, saving
<1>2. ASSUME NEW changed \in BOOLEAN, LoadPools(changed)
      PROVE  Cuts'
  <2>1. pool = {} /\ proc # "up" /\ proc' = "load" /\ round' = round /\ pool' = pool
    BY <1>2 DEF Cuts, EarlyEmpty, LoadPools, memory
  <2>2. CASE changed
    <3>1. Save({}) /\ {} \in SUBSET Tx
      BY <1>2, <2>1, <2>2 DEF LoadPools
    <3>2. \A d \in Call : calls'[d].from = {}
      <4>1. CASE writing
        BY <2>1, <3>1, <4>1 DEF Save, Refused, saving, Cuts, EarlyEmpty
      <4>2. CASE ~writing
        <5> DEFINE c == CHOOSE d \in Call : calls[d].at = "none"
                   r == [NoCall EXCEPT !.from = {}, !.left = {}]
        <5>1. Yield(c, r) /\ r \in CallTyped /\ r.from = {}
          BY <3>1, <4>2, NoCallTyped DEF Save, Refused, NoCall, CallTyped
        <5> HIDE DEF c, r
        <5>2. \A d \in Call : calls'[d] = calls[d]
                \/ calls'[d] = [r EXCEPT !.at = IF locks > 0 THEN "wait" ELSE "write"]
          BY <5>1 DEF Yield, IInv, CallsGood
        <5> QED
          BY <2>1, <5>1, <5>2 DEF Cuts, EarlyEmpty, CallTyped
      <4> QED
        BY <4>1, <4>2
    <3>3. EarlyEmpty'
      BY <2>1, <3>2 DEF Cuts, EarlyEmpty
    <3> QED
      BY <1>2, <3>1, <3>3, SaveCuts DEF IInv, LoadPools
  <2>3. CASE ~changed
    <3>1. EarlyEmpty'
      BY <1>2, <2>1, <2>3 DEF Cuts, EarlyEmpty, LoadPools, saving
    <3> QED
      BY <1>2, <2>3, <3>1, CalmCuts DEF LoadPools, Calm, disk, saving
  <2> QED
    BY <2>2, <2>3
<1>3. CASE LoadForeign
  <2>1. /\ files' = NoFiles /\ tmp' = tmp /\ torn' = FALSE /\ calls' = calls
        /\ writing' = writing /\ proc = "load" /\ proc' = "up"
    BY <1>3 DEF LoadForeign, saving
  <2>2. {} \in SUBSET Tx /\ Cache(files', {})
    BY <2>1 DEF Cache, Slices, NoFiles
  <2>3. EarlyEmpty'
    BY <2>1 DEF EarlyEmpty
  <2>4. ASSUME NEW c \in Call, calls[c].at # "none", CallCuts(calls[c])
        PROVE  CallCuts(calls[c])'
    <3>1. calls[c].from = {}
      BY <2>1 DEF Cuts, EarlyEmpty
    <3> DEFINE old == Renamed(tmp, files, calls[c].i)
               new == Renamed(tmp, files', calls[c].i)
    <3>2. DOMAIN new \subseteq DOMAIN old /\ \A j \in DOMAIN new : new[j] = old[j]
      <4>1. DOMAIN files' = {}
        BY <2>1 DEF NoFiles
      <4>2. \A j \in DOMAIN new : j >= calls[c].i
        BY <4>1 DEF Renamed
      <4> QED
        BY <4>1, <4>2 DEF Renamed
    <3> HIDE DEF old, new
    <3>3. Cache(old, {}) => Cache(new, {})
      BY <3>2 DEF Cache, Slices
    <3> QED
      BY <2>1, <2>4, <3>1, <3>3 DEF CallCuts, old, new
  <2> QED
    BY <2>1, <2>2, <2>3, <2>4 DEF Cuts
<1>4. ASSUME NEW done \in 0..Chunks, NEW rbfDone \in BOOLEAN, LoadRest(done, rbfDone)
      PROVE  Cuts'
  <2>1. EarlyEmpty'
    BY <1>4 DEF LoadRest, EarlyEmpty
  <2>2. Calm /\ tmp' = tmp
    BY <1>4 DEF LoadRest, Calm, saving, disk
  <2>3. CASE ignore /\ ~writing
    BY <1>4, <2>1, <2>2, <2>3, AtOnceCuts DEF LoadRest
  <2>4. CASE ~ignore \/ writing
    BY <1>4, <2>1, <2>2, <2>4, CalmCuts DEF LoadRest, SaveAtOnce, Refused, disk
  <2> QED
    BY <2>3, <2>4
<1> QED
  BY <1>1, <1>2, <1>3, <1>4 DEF Boots

\* The main loop starts saves, and lets a waiting one go on.
LEMMA RoundCuts ==
  ASSUME IInv, IInv', Cuts, Rounds
  PROVE  Cuts'
<1>1. proc = "up" /\ proc' = "up" /\ disk' = disk
  BY DEF Rounds, MainLoop, BeginBlocks, EndBlocks, EndRound, UpdateMempool, Throw, NewBlock,
         Cuts, EarlyEmpty, boot
<1>2. EarlyEmpty'
  BY <1>1 DEF EarlyEmpty
<1>3. CASE BeginBlocks \/ Throw \/ \E t \in Tx : UpdateMempool(t)
  BY <1>1, <1>2, <1>3, CalmCuts DEF BeginBlocks, Throw, UpdateMempool, Calm, disk, saving
<1>4. ASSUME NEW confirmed \in SUBSET Tx, NEW due \in BOOLEAN, NewBlock(confirmed, due)
      PROVE  Cuts'
  <2>1. CASE due
    <3>1. Save(pool') /\ pool' \in SUBSET Tx
      BY <1>4, <2>1 DEF NewBlock, IInv, RestGood
    <3> DEFINE txs == pool'
    <3> HIDE DEF txs
    <3>2. Save(txs) /\ txs \in SUBSET Tx
      BY <3>1 DEF txs
    <3> QED
      BY <1>1, <1>2, <3>2, SaveCuts DEF IInv
  <2>2. CASE ~due
    BY <1>1, <1>2, <1>4, <2>2, CalmCuts DEF NewBlock, Calm, disk, saving
  <2> QED
    BY <2>1, <2>2
<1>5. CASE EndBlocks \/ EndRound
  <2>1. Unlock
    BY <1>5 DEF EndBlocks, EndRound
  <2>2. CASE calls' = calls
    <3>1. writing' = writing
      BY <2>1 DEF Unlock
    <3> QED
      BY <1>1, <1>2, <2>2, <3>1 DEF Cuts, disk, CallCuts, Renaming
  <2>3. CASE calls' # calls
    <3>1. resume # <<>> /\ calls' = [calls EXCEPT ![Head(resume)].at = "write"] /\ writing' = writing
      BY <2>1, <2>3 DEF Unlock
    <3>2. PICK c \in Call : resume = <<c>> /\ calls[c].at = "wait"
      BY <3>1 DEF IInv, CallsGood
    <3>3. calls' = [calls EXCEPT ![c].at = "write"]
      BY <3>1, <3>2
    <3>4. /\ calls'[c].at = "write" /\ calls'[c].i = calls[c].i /\ calls'[c].from = calls[c].from
          /\ calls'[c].left = calls[c].left
      BY <3>3 DEF IInv, CallsGood, CallTyped
    <3>5. CallCuts(calls[c]) /\ ~Renaming /\ writing
      BY <3>2, CallAlone DEF IInv
    <3>6. CallCuts(calls[c])'
      BY <1>1, <3>2, <3>4, <3>5 DEF CallCuts, disk
    <3>7. ~Renaming'
      BY <3>4 DEF IInv, CallsGood, Renaming
    <3> QED
      BY <1>1, <1>2, <3>1, <3>4, <3>5, <3>6, <3>7 DEF Cuts, disk
  <2> QED
    BY <2>2, <2>3
<1> QED
  BY <1>3, <1>4, <1>5 DEF Rounds, MainLoop

-----------------------------------------------------------------------------
(* What a signal saved                                                     *)

\* A process that dies is down, has no database and nothing under way.
LEMMA DownExit ==
  ASSUME Die
  PROVE  proc' = "down" /\ ~writing' /\ ~ignore'
BY DEF Die

\* Nothing but a start touches what a signal has saved, and a start reads it.
LEMMA ExitKeeps ==
  ASSUME IInv, IInv', Snapshots, [Next]_vars
  PROVE  ExitKept'
<1>1. EarlyEmpty /\ ExitKept
  BY DEF Snapshots, Cuts
<1>2. CASE UNCHANGED vars
  BY <1>1, <1>2 DEF ExitKept, vars, boot, memory, disk, saving
<1>3. ASSUME NEW c \in Call,
             \/ BeginWrite(c) \/ EndWrite(c) \/ Rename(c) \/ SaveRbf(c)
             \/ SaveFails(c) \/ SaveRbfFails(c)
      PROVE  ExitKept'
  <2>1. calls[c].at # "none" /\ exit' = exit /\ ignore' = ignore
    BY <1>3 DEF BeginWrite, EndWrite, Rename, SaveRbf, SaveFails, SaveRbfFails, boot
  <2>2. writing
    BY <2>1 DEF IInv, CallsGood
  <2> QED
    BY <1>1, <2>1, <2>2 DEF ExitKept
<1>4. CASE Rounds
  <2>1. proc = "up" /\ exit' = exit /\ ignore' = ignore
    BY <1>1, <1>4 DEF Rounds, MainLoop, BeginBlocks, EndBlocks, EndRound, UpdateMempool, Throw,
                      NewBlock, EarlyEmpty, boot
  <2> QED
    BY <1>1, <2>1 DEF ExitKept
<1>5. CASE Start
  BY <1>1, <1>5 DEF ExitKept, EarlyEmpty, Start, memory, disk, saving
<1>6. ASSUME NEW changed \in BOOLEAN, LoadPools(changed)
      PROVE  ExitKept'
  <2>1. ~ignore => ~changed
    BY <1>6 DEF LoadPools
  <2> QED
    BY <1>1, <1>6, <2>1 DEF ExitKept, LoadPools, memory, disk, saving
<1>7. CASE LoadNothing \/ LoadForeign \/ \E done \in 0..Chunks, rbfDone \in BOOLEAN : LoadRest(done, rbfDone)
  BY <1>7 DEF ExitKept, LoadNothing, LoadForeign, LoadRest, NoExit
<1>8. CASE LoadMempool
  <2>0. ~ignore => /\ exit.saved \/ exit.rbfSaved => ~writing
                   /\ exit.rbfSaved => rbfFile = exit.rbf
    BY <1>1 DEF ExitKept
  <2>9. CASE ~exit.saved \/ ignore
    BY <1>8, <2>0, <2>9 DEF LoadMempool, ExitKept, disk, saving
  <2>1. SUFFICES ASSUME exit.saved, ~ignore
                 PROVE  ExitKept'
    BY <2>9
  <2>2. /\ ~writing /\ exit.pool \in SUBSET Tx /\ (exit.rbfSaved => rbfFile = exit.rbf)
        /\ DOMAIN files = Chunk /\ Slices(files, Chunk, exit.pool) /\ files[0].height = exit.height
    BY <1>1, <1>8, <2>1 DEF ExitKept, LoadMempool
  <2> DEFINE all == UNION {files[i].txs : i \in Chunk}
  <2>3. all \subseteq exit.pool /\ Cardinality(exit.pool \ all) = Cardinality(exit.pool) % Chunks
    <3>1. PICK from \in SUBSET Tx : from = exit.pool /\ Slices(files, Chunk, from)
      BY <2>2
    <3>2. DOMAIN files = Chunk /\ Cache(files, from)
      BY <2>2, <3>1 DEF Cache
    <3>3. all \subseteq from /\ Cardinality(from \ all) = Cardinality(from) % Chunks
      BY <3>2, CacheCounted
    <3> QED
      BY <3>1, <3>3
  <2>4. pool' = all /\ loaded' = exit.height
    BY <1>8, <2>2 DEF LoadMempool
  <2> HIDE DEF all
  <2> QED
    BY <1>8, <2>2, <2>3, <2>4 DEF ExitKept, LoadMempool, disk, saving
<1>9. ASSUME NEW done \in 0..Chunks, NEW rbfDone \in BOOLEAN, SigInt(done, rbfDone)
      PROVE  ExitKept'
  <2>1. proc' = "down" /\ ~writing' /\ ~ignore'
    BY <1>9, DownExit DEF SigInt
  <2>2. CASE writing
    BY <1>9, <2>2 DEF SigInt, Refused, NoExit, ExitKept
  <2>3. CASE ~writing
    <3>1. /\ SaveAtOnce(done, rbfDone)
          /\ exit' = [saved |-> done = Chunks, rbfSaved |-> rbfDone,
                      pool |-> pool, height |-> height, rbf |-> rbf]
      BY <1>9, <2>3 DEF SigInt, Refused
    <3>2. /\ done = Chunks => /\ DOMAIN files' = Chunk /\ Slices(files', Chunk, pool)
                              /\ files'[0].height = height
          /\ rbfDone => rbfFile' = rbf
      BY <2>3, <3>1, SavedWhole DEF IInv
    <3>3. /\ exit'.saved = (done = Chunks) /\ exit'.rbfSaved = rbfDone /\ exit'.pool = pool
          /\ exit'.height = height /\ exit'.rbf = rbf
      BY <3>1
    <3> QED
      BY <2>1, <3>2, <3>3 DEF ExitKept, IInv, RestGood
  <2> QED
    BY <2>2, <2>3
<1>10. CASE Crash
  BY <1>10 DEF Crash, NoExit, ExitKept
<1> QED
  BY <1>2, <1>3, <1>4, <1>5, <1>6, <1>7, <1>8, <1>9, <1>10 DEF Next, Saving, Loading, Rounds

\* Every step keeps the snapshots.
LEMMA SnapshotsKeep ==
  ASSUME IInv, IInv', Snapshots, [Next]_vars
  PROVE  Snapshots'
<1> SUFFICES Cuts'
  BY ExitKeeps DEF Snapshots
<1>1. Cuts
  BY DEF Snapshots
<1>2. ASSUME NEW c \in Call,
             \/ BeginWrite(c) \/ EndWrite(c) \/ Rename(c) \/ SaveRbf(c)
             \/ SaveFails(c) \/ SaveRbfFails(c)
      PROVE  Cuts'
  BY <1>1, <1>2, SavingCuts
<1>3. CASE Boots
  BY <1>1, <1>3, BootCuts
<1>4. CASE Signal
  BY <1>1, <1>4, DieCuts DEF Signal, AtOnce, SigInt, Refused
<1>5. CASE Crash
  BY <1>1, <1>5, DieCuts DEF Crash
<1>6. CASE Rounds
  BY <1>1, <1>6, RoundCuts
<1>7. CASE UNCHANGED vars
  BY <1>1, <1>7 DEF Cuts, EarlyEmpty, CallCuts, Renaming, vars, boot, memory, disk, saving
<1> QED
  BY <1>2, <1>3, <1>4, <1>5, <1>6, <1>7 DEF Next, Saving, Loading, Boots, Rounds, Signal

\* They are right at the start: there is no file.
LEMMA SnapshotsBegin == Init => Snapshots
<1> SUFFICES ASSUME Init PROVE Snapshots
  OBVIOUS
<1>1. {} \in SUBSET Tx /\ Cache(files, {})
  BY DEF Init, Cache, Slices, NoFiles
<1>2. EarlyEmpty
  BY DEF Init, EarlyEmpty, NoCall
<1>3. ~exit.saved /\ ~exit.rbfSaved
  BY DEF Init, NoExit
<1> QED
  BY <1>1, <1>2, <1>3 DEF Init, Snapshots, Cuts, ExitKept

\* What is cut, and what is on disk, are snapshots in every reachable state.
THEOREM SnapshotsHold == Spec => []Snapshots
<1>1. Snapshots /\ IInv /\ IInv' /\ [Next]_vars => Snapshots'
  BY SnapshotsKeep
<1> QED
  BY <1>1, Inductive, SnapshotsBegin, PTL DEF Spec

\* Unless renaming was cut short, the files hold one mempool but for the remainder of the
\* division, whichever saves met, failed or were interrupted.
THEOREM OneSnapshotHolds == Spec => []OneSnapshot
<1>1. IInv /\ Snapshots => OneSnapshot
  <2> SUFFICES ASSUME IInv, Snapshots, ~torn, ~Renaming, NEW i \in DOMAIN files
               PROVE  LET from == files[i].from
                          saved == UNION {files[j].txs : j \in DOMAIN files}
                      IN  /\ saved \subseteq from
                          /\ Cardinality(from \ saved) = Cardinality(from) % Chunks
    BY DEF OneSnapshot
  <2>1. PICK from \in SUBSET Tx : Cache(files, from)
    BY DEF Snapshots, Cuts
  <2>2. files[i].from = from
    BY <2>1 DEF Cache, Slices
  <2>3. DOMAIN files \subseteq Chunk
    BY DEF IInv, FilesGood
  <2> QED
    BY <2>1, <2>2, <2>3, CacheCounted
<1> QED
  BY <1>1, Inductive, SnapshotsHold, PTL

\* What a process held when a signal stopped it, and what could be written, is there after
\* the next start, but for the remainder of the division.
THEOREM StopKeepsHolds == Spec => StopKeeps
<1> DEFINE Kept == /\ exit.saved =>
                        /\ pool' \subseteq exit.pool
                        /\ Cardinality(exit.pool \ pool') = Cardinality(exit.pool) % Chunks
                        /\ height' = exit.height
                   /\ exit.rbfSaved => rbf' = exit.rbf
<1>1. Snapshots /\ [Next]_vars => [proc = "set" /\ proc' = "up" /\ ~ignore => Kept]_vars
  <2> SUFFICES ASSUME Snapshots, [Next]_vars, proc = "set", proc' = "up", ~ignore
               PROVE  Kept
    OBVIOUS
  <2>1. PICK done \in 0..Chunks, rbfDone \in BOOLEAN : LoadRest(done, rbfDone)
    BY DEF Next, Saving, Loading, MainLoop, BeginWrite, EndWrite, Rename, SaveRbf, LoadPools,
           LoadNothing, LoadForeign, LoadMempool, BeginBlocks, EndBlocks, EndRound,
           UpdateMempool, NewBlock, Throw, SaveFails, SaveRbfFails, Start, SigInt, Crash, Die,
           vars, boot
  <2>2. pool' = pool /\ height' = loaded /\ rbf' = rbfFile
    BY <2>1 DEF LoadRest, disk
  <2> QED
    BY <2>2 DEF Snapshots, ExitKept
<1> QED
  BY <1>1, SnapshotsHold, PTL DEF Spec, StopKeeps
=============================================================================
