------------------------------- MODULE Produce -------------------------------
(***************************************************************************)
(* The produce scanner (produce/ProduceScanner.tsx, useProduceScanner.ts   *)
(* and cart-engine's produceRecognition.ts): the camera stream, the loop   *)
(* of animation frames that recognises what it sees, and the PLU entry.    *)
(*                                                                         *)
(* A start waits for the camera and then for the video to play; a loop     *)
(* waits for the recognizer.  Stopping or closing meanwhile does not end   *)
(* what waits.  A start, its stream and its loop share a number.           *)
(***************************************************************************)
EXTENDS Naturals, FiniteSets

CONSTANT MaxStarts   \* bound on presses of Start Camera

ASSUME ProduceConstants == MaxStarts \in Nat

VARIABLES
    mounted,     \* the overlay is open
    isScanning,
    starts,      \* [1..MaxStarts -> state of that startScanning]
    streamRef,   \* stream stopScanning would stop
    live,        \* streams whose tracks were not stopped
    loops,       \* [1..MaxStarts -> state of that captureAndRecognize loop]
    rafRef,      \* loop whose frame stopScanning would cancel
    wasm         \* the recognizer's `loading`: "unloaded", "loaded", "failed"

produceVars == <<mounted, isScanning, starts, streamRef, live, loops, rafRef, wasm>>

Scans == 1..MaxStarts

NoScan == 0

ProduceInit ==
    /\ mounted = TRUE /\ isScanning = FALSE
    /\ starts = [s \in Scans |-> "unused"]
    /\ streamRef = NoScan /\ live = {}
    /\ loops = [s \in Scans |-> "none"]
    /\ rafRef = NoScan
    /\ wasm = "unloaded"

\* The video element is there while the scanner shows the preview.
videoRef == mounted /\ isScanning

-----------------------------------------------------------------------------
\* The button is drawn while nothing is scanned.
startScanning(s) ==
    /\ mounted /\ ~isScanning
    /\ starts[s] = "unused" /\ \A r \in 1..(s - 1) : starts[r] # "unused"
    /\ isScanning' = TRUE
    /\ starts' = [starts EXCEPT ![s] = "asking"]
    /\ UNCHANGED <<mounted, streamRef, live, loops, rafRef, wasm>>

requestFrame(s) ==
    /\ loops' = [loops EXCEPT ![s] = "frame"]
    /\ rafRef' = s

\* getUserMedia answers, whether or not anybody still scans.
cameraGranted(s) ==
    /\ starts[s] = "asking"
    /\ streamRef' = s
    /\ live' = live \union {s}
    /\ IF videoRef
       THEN starts' = [starts EXCEPT ![s] = "playing"] /\ UNCHANGED <<loops, rafRef>>
       ELSE starts' = [starts EXCEPT ![s] = "done"] /\ requestFrame(s)
    /\ UNCHANGED <<mounted, isScanning, wasm>>

videoPlays(s) ==
    /\ starts[s] = "playing"
    /\ starts' = [starts EXCEPT ![s] = "done"]
    /\ requestFrame(s)
    /\ UNCHANGED <<mounted, isScanning, streamRef, live, wasm>>

\* The camera is refused, or play() rejects: the stream it has stays on.
startFails(s) ==
    /\ starts[s] \in {"asking", "playing"}
    /\ starts' = [starts EXCEPT ![s] = "done"]
    /\ isScanning' = FALSE
    /\ UNCHANGED <<mounted, streamRef, live, loops, rafRef, wasm>>

\* A frame that waits is cancelled; a recognition under way is not.
stopScanning ==
    /\ loops' = [s \in Scans |-> IF s = rafRef /\ loops[s] = "frame" THEN "none" ELSE loops[s]]
    /\ rafRef' = NoScan
    /\ live' = live \ {streamRef}
    /\ streamRef' = NoScan
    /\ isScanning' = FALSE

\* The close button, or the host unmounts the overlay.
closeScanner ==
    /\ mounted /\ mounted' = FALSE
    /\ stopScanning
    /\ UNCHANGED <<starts, wasm>>

\* A PLU the catalogue has stops the scan; another one is only reported.
handlePluSubmit ==
    /\ mounted
    /\ stopScanning
    /\ UNCHANGED <<mounted, starts, wasm>>

\* Without a video that has data the loop waits for the next frame.
captureAndRecognize(s) ==
    /\ loops[s] = "frame"
    /\ \/ videoRef /\ loops' = [loops EXCEPT ![s] = "busy"] /\ UNCHANGED rafRef
       \/ requestFrame(s)
    /\ UNCHANGED <<mounted, isScanning, starts, streamRef, live, wasm>>

\* A module that failed to load is not asked for again.
load == wasm' \in IF wasm = "unloaded" THEN {"loaded", "failed"} ELSE {wasm}

\* Mutant: the loop goes on only after a recognition that worked.
recognizedOnSuccess(s) ==
    /\ loops[s] = "busy"
    /\ load
    /\ IF wasm' = "loaded" THEN requestFrame(s)
       ELSE loops' = [loops EXCEPT ![s] = "none"] /\ UNCHANGED rafRef
    /\ UNCHANGED <<mounted, isScanning, starts, streamRef, live>>

\* finally: the next frame, after a match, no match or an error.
recognized(s) ==
    /\ loops[s] = "busy"
    /\ load
    /\ requestFrame(s)
    /\ UNCHANGED <<mounted, isScanning, starts, streamRef, live>>

\* What the customer can press.
ProduceScanner ==
    (\E s \in Scans : startScanning(s)) \/ closeScanner \/ handlePluSubmit

ProduceNext ==
    \/ ProduceScanner
    \/ \E s \in Scans :
         \/ cameraGranted(s) \/ videoPlays(s) \/ startFails(s)
         \/ captureAndRecognize(s) \/ recognized(s)

ProduceSpec == ProduceInit /\ [][ProduceNext]_produceVars

-----------------------------------------------------------------------------
(* While the preview is shown and no start is still waiting, a camera is   *)
(* on and a loop looks at it: no stop of an earlier scan, late permission, *)
(* failed recognition or second loop leaves a preview that recognises      *)
(* nothing.                                                                *)
ScanningIsWatched ==
    (mounted /\ isScanning /\ \A s \in Scans : starts[s] \in {"unused", "done"}) =>
      /\ streamRef \in live
      /\ \E s \in Scans : loops[s] # "none"
=============================================================================
