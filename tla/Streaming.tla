------------------------------ MODULE Streaming ------------------------------
(***************************************************************************)
(* From a source to a stream that plays: the attempts of transcode workers *)
(* (worker.go) that store the files of one asset one by one, and a player  *)
(* that asks for its playlists (internal/media/playback.go) while they are *)
(* at it. Attempts overlap as they do in TranscodeJob: a new one may begin *)
(* whenever the asset has no verdict yet, and only the last one claimed is *)
(* allowed to give it.                                                     *)
(*                                                                         *)
(* One request reads the asset's row, then a playlist from storage: two    *)
(* steps. Writing one object, or one transaction, is a step. The keys of   *)
(* one asset are named by rung and file; every attempt writes the same     *)
(* contents under a key, as all read the same source: that the client does *)
(* not PUT another file under a presigned URL it still has is assumed.     *)
(*                                                                         *)
(* A definition Name_Something beside Name is a faulty variant of it and   *)
(* takes no part in the specification.                                     *)
(***************************************************************************)
EXTENDS StreamPlan

CONSTANTS
  Source,      \* [out, purpose, declared] of the assets to look at
  Attempt,     \* the attempts at the job, each by some worker
  NoAttempt,   \* the job has not been claimed
  MaxSegments  \* bound: no rung has more segments than that

ASSUME StreamingAssumption == /\ NoAttempt \notin Attempt
                              /\ MaxSegments \in Nat \ {0}
                              /\ Source \subseteq [out      : Output,
                                                   purpose  : STRING,
                                                   declared : STRING]

VARIABLES
  source,   \* the asset's source
  row,      \* the asset's row: status, and the rungs in renditions
  owner,    \* the attempt that holds the job
  step,     \* [Attempt -> ...] where runJob is
  at,       \* [Attempt -> ...] the rung and the file it uploads next
  objects,  \* the keys that are stored
  player,   \* where the player's request is
  known,    \* the rungs in the row as this request read it
  asked,    \* the rung it asks for
  offered,  \* the rungs of the last master playlist it was given
  signed,   \* the keys it was given presigned URLs for
  broken    \* a request for a READY asset came to an error

vars == <<source, row, owner, step, at, objects, player, known, asked,
          offered, signed, broken>>

Probe  == ParseProbe(source.out)
Ladder == LadderFor(DisplayDimensions(Probe)[2])
Master == MasterPlaylist(Ladder, DisplayDimensions(Probe)[1],
                         DisplayDimensions(Probe)[2])

Accepted == Validate(Probe, source.purpose, source.declared) = "none"

RungName  == { r.name : r \in ToSet(FullLadder) }
MasterKey == <<"master.m3u8", 0>>
Index     == 0

(* The segments of 6 seconds that ffmpeg writes for a rung.                *)
SegmentCount ==
  LET n == (Probe.duration + 5) \div 6
  IN IF n < MaxSegments THEN n ELSE MaxSegments

Key == {MasterKey} \cup (RungName \X (0..MaxSegments))

TypeOK ==
  /\ source  \in Source
  /\ row     \in [status : {"UPLOADED", "READY", "REJECTED"},
                  rungs : SUBSET RungName]
  /\ owner   \in Attempt \cup {NoAttempt}
  /\ step    \in [Attempt -> {"new", "probing", "encoding", "uploading",
                              "succeeding", "over"}]
  /\ at      \in [Attempt -> (1..(Len(FullLadder) + 1)) \X (0..MaxSegments)]
  /\ objects \subseteq Key
  /\ player  \in {"idle", "master", "variant"}
  /\ known   \subseteq RungName
  /\ asked   \in RungName \cup {""}
  /\ offered \subseteq RungName
  /\ signed  \subseteq Key
  /\ broken  \in BOOLEAN

Init ==
  /\ source  \in Source
  /\ row     = [status |-> "UPLOADED", rungs |-> {}]
  /\ owner   = NoAttempt
  /\ step    = [w \in Attempt |-> "new"]
  /\ at      = [w \in Attempt |-> <<1, Index>>]
  /\ objects = {}
  /\ player  = "idle" /\ known = {} /\ asked = "" /\ offered = {} /\ signed = {}
  /\ broken  = FALSE

playing == <<player, known, asked, offered, signed, broken>>

----------------------------------------------------------------------------
(* A worker's attempt.                                                     *)

(* The job is queued, or its lease has run out. UPLOADED stands for every  *)
(* state of the asset before READY or REJECTED: a player tells no more.    *)
Claim(w) ==
  /\ step[w] = "new" /\ row.status = "UPLOADED"
  /\ owner' = w
  /\ step'  = [step EXCEPT ![w] = "probing"]
  /\ UNCHANGED <<source, row, at, objects, playing>>

(* A source that is rejected is rejected for good, by the owner.           *)
Judge(w) ==
  /\ step[w] = "probing"
  /\ step' = [step EXCEPT ![w] = IF Accepted THEN "encoding" ELSE "over"]
  /\ row'  = IF Accepted \/ owner # w THEN row
             ELSE [row EXCEPT !.status = "REJECTED"]
  /\ UNCHANGED <<source, owner, at, objects, playing>>

Encode(w) ==
  /\ step[w] = "encoding"
  /\ at'   = [at EXCEPT ![w] = <<1, Index>>]
  /\ step' = [step EXCEPT ![w] = "uploading"]
  /\ UNCHANGED <<source, row, owner, objects, playing>>

(* One file of one rung. uploadDir walks a rung's directory by name: the   *)
(* playlist index.m3u8 goes up before the segments it refers to.           *)
Upload(w) ==
  LET rung == at[w][1]
      file == at[w][2]
  IN /\ step[w] = "uploading" /\ rung <= Len(Ladder)
     /\ objects' = objects \cup {<<Ladder[rung].name, file>>}
     /\ at' = [at EXCEPT ![w] = IF file < SegmentCount THEN <<rung, file + 1>>
                               ELSE <<rung + 1, Index>>]
     /\ UNCHANGED <<source, row, owner, step, playing>>

UploadMaster_Unfinished(w) ==
  /\ step[w] = "uploading"
  /\ objects' = objects \cup {MasterKey}
  /\ step'    = [step EXCEPT ![w] = "succeeding"]
  /\ UNCHANGED <<source, row, owner, at, playing>>

UploadMaster(w) ==
  /\ step[w] = "uploading" /\ at[w][1] > Len(Ladder)
  /\ objects' = objects \cup {MasterKey}
  /\ step'    = [step EXCEPT ![w] = "succeeding"]
  /\ UNCHANGED <<source, row, owner, at, playing>>

Succeed_NoRenditions(w) ==
  /\ step[w] = "succeeding"
  /\ row'  = IF owner # w THEN row
             ELSE [status |-> "READY", rungs |-> {Head(Ladder).name}]
  /\ step' = [step EXCEPT ![w] = "over"]
  /\ UNCHANGED <<source, owner, at, objects, playing>>

(* Filtered on worker_id: a stolen job is left as it is.                   *)
Succeed(w) ==
  /\ step[w] = "succeeding"
  /\ row'  = IF owner # w THEN row
             ELSE [status |-> "READY",
                   rungs  |-> { r.name : r \in ToSet(Ladder) }]
  /\ step' = [step EXCEPT ![w] = "over"]
  /\ UNCHANGED <<source, owner, at, objects, playing>>

(* The attempt ends in an error, or its process dies.                      *)
Abort(w) ==
  /\ step[w] \notin {"new", "over"}
  /\ step' = [step EXCEPT ![w] = "over"]
  /\ UNCHANGED <<source, row, owner, at, objects, playing>>

----------------------------------------------------------------------------
(* The player. A request for an asset that is not READY is answered 409.   *)

AskMaster ==
  /\ player = "idle" /\ row.status = "READY"
  /\ player' = "master" /\ known' = row.rungs
  /\ UNCHANGED <<source, row, owner, step, at, objects, asked, offered,
                 signed, broken>>

(* The playlist is read; its references must be rungs of the row read.     *)
ServeMaster ==
  /\ player = "master"
  /\ player' = "idle" /\ known' = {}
  /\ LET refs == { v.rung : v \in ToSet(Master) } IN
     IF MasterKey \in objects /\ refs \subseteq known
     THEN offered' = refs /\ UNCHANGED broken
     ELSE broken' = TRUE /\ UNCHANGED offered
  /\ UNCHANGED <<source, row, owner, step, at, objects, asked, signed>>

AskVariant(rung) ==
  /\ player = "idle" /\ row.status = "READY"
  /\ rung \in offered
  /\ player' = "variant" /\ known' = row.rungs /\ asked' = rung
  /\ UNCHANGED <<source, row, owner, step, at, objects, offered, signed,
                 broken>>

(* Each segment in the variant's playlist becomes a presigned URL, whether *)
(* the segment is there or not.                                            *)
ServeVariant ==
  /\ player = "variant"
  /\ player' = "idle" /\ known' = {} /\ asked' = ""
  /\ IF asked \in known /\ <<asked, Index>> \in objects
     THEN signed' = signed \cup ({asked} \X (1..SegmentCount)) /\ UNCHANGED broken
     ELSE broken' = TRUE /\ UNCHANGED signed
  /\ UNCHANGED <<source, row, owner, step, at, objects, offered>>

Next ==
  \/ \E w \in Attempt : \/ Claim(w) \/ Judge(w) \/ Encode(w) \/ Upload(w)
                        \/ UploadMaster(w) \/ Succeed(w) \/ Abort(w)
  \/ AskMaster \/ ServeMaster \/ ServeVariant
  \/ \E rung \in RungName : AskVariant(rung)

Spec == Init /\ [][Next]_vars

----------------------------------------------------------------------------
(* Properties.                                                             *)

(* A READY asset plays: every request for its playlists is served, also    *)
(* while a worker that lost the job goes on storing files.                 *)
NothingBroken == ~broken

(* Every presigned URL a player is given leads to a segment that is stored *)
(* (uploads of worker.go against RewriteVariantPlaylist of master.go).     *)
SignedIsStored == signed \subseteq objects

(* Nothing is upscaled (ladder.go, "Never upscale"): of the sources that   *)
(* are accepted none is so low that the fallback of LadderFor is used, and *)
(* every picture a master playlist announces fits into the displayed one,  *)
(* upright or turned, and keeps its proportions to within two pixels.      *)
NothingUpscaled ==
  LET w == DisplayDimensions(Probe)[1]
      h == DisplayDimensions(Probe)[2]
  IN Accepted =>
       \A v \in ToSet(Master) :
         /\ v.height <= h /\ v.width <= w
         /\ v.width * h <= v.height * w
         /\ v.height * w < (v.width + 2) * h
         /\ v.width % 2 = 0

(* A clip is turned the way its container says, by the display matrix or   *)
(* else by the tag, which counts the other way round, whatever the sign    *)
(* and however many full turns: the rotation that is stored differs from   *)
(* that angle by full turns, and the picture that ladder and limits are    *)
(* for lies on its side after an odd number of quarter turns, and only     *)
(* then. An angle between two quarters turns nothing (parseRotation).      *)
SameTurn(rotation, angle) ==
  /\ rotation \in {0, 90, 180, 270}
  /\ IF angle % 90 = 0 THEN (rotation - angle) % 360 = 0 ELSE rotation = 0

AngleOf(s) == IF s.side # << >> THEN -Head(s.side)
              ELSE IF s.tag # << >> THEN Head(s.tag) ELSE 0

IsPicture(i) ==
  /\ source.out.streams[i].type = "video"
  /\ \A k \in 1..(i - 1) : source.out.streams[k].type # "video"

RotationKept ==
  \A i \in DOMAIN source.out.streams :
    LET s == source.out.streams[i] IN
    IsPicture(i) =>
      /\ SameTurn(Probe.rotation, AngleOf(s))
      /\ DisplayDimensions(Probe) = IF AngleOf(s) % 180 = 90
                                    THEN <<s.height, s.width>>
                                    ELSE <<s.width, s.height>>
=============================================================================
