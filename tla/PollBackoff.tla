------------------------------ MODULE PollBackoff ------------------------------
(***************************************************************************)
(* Node::find_tx_with_retries (queriers/node.rs, test.rs 7244-7322) and    *)
(* the Node::average_block_speed it starts with (test.rs 7126-7150),      *)
(* against a chain whose blocks are BlockMs milliseconds apart in block    *)
(* time, height 1 at time 0, served by a node whose latest height advances *)
(* one block every nodeMs of wall time: nodeMs = blockMs for a node that   *)
(* follows the chain, less for one catching up; and a transaction that   *)
(* becomes queryable at a given time, or never.  Times are in             *)
(* milliseconds; the code's sleeps are whole seconds.  The f32 and f64    *)
(* products (x0.7, x1.6) are exact truncations for the integers that      *)
(* occur (block times below 200 s, speeds below 10^5 s).                  *)
(***************************************************************************)
EXTENDS Naturals

CONSTANTS
    BlockTimes,  \* block periods of the chain, in ms
    SyncTimes,   \* wall time per block of a node catching up, in ms
    StartTimes,  \* when find_tx is called, in ms since height 1
    Delays,      \* how long after the call the transaction becomes queryable
    Never,       \* the transaction is never found
    Retries      \* MAX_TX_QUERY_RETRIES (50 in the code)

ASSUME Retries \in Nat \ {0} /\ Never \notin Nat

VARIABLES
    blockMs,     \* the chain's block period
    nodeMs,      \* wall time per block of the node's latest height
    now,         \* the current time
    includedAt,  \* when get_tx starts answering, or Never
    pc,          \* "latest", "loop", "poll" or "done"
    height,      \* latest_block_height
    latestTime,  \* latest_block_time, read once before the wait loop
    blockSpeed,  \* block_speed, in seconds
    tries,       \* get_tx calls made
    first,       \* time of the first get_tx call
    ret          \* "running", "Ok", "NotFound" or "Error"

vars == <<blockMs, nodeMs, now, includedAt, pc, height, latestTime, blockSpeed, tries, first, ret>>

HeightAt(t) == 1 + t \div nodeMs

TimeOf(h) == (h - 1) * blockMs

MinOf(a, b) == IF a < b THEN a ELSE b

MaxOf(a, b) == IF a > b THEN a ELSE b

Init ==
    /\ blockMs \in BlockTimes
    /\ nodeMs \in {blockMs} \cup SyncTimes
    /\ now \in StartTimes
    /\ includedAt \in {now + d : d \in Delays} \cup {Never}
    /\ pc = "latest"
    /\ height = 0
    /\ latestTime = 0
    /\ blockSpeed = 0
    /\ tries = 0
    /\ first = 0
    /\ ret = "running"

(* latest_block(): its height and its time.                                *)
LatestBlock ==
    /\ pc = "latest"
    /\ height' = HeightAt(now)
    /\ latestTime' = TimeOf(HeightAt(now))
    /\ pc' = "loop"
    /\ UNCHANGED <<blockMs, nodeMs, now, includedAt, blockSpeed, tries, first, ret>>

(* while latest_block_height <= 1: sleep one second and re-read the height *)
(* (latest_block_time is not re-read).                                      *)
WaitForHeight ==
    /\ pc = "loop"
    /\ height <= 1
    /\ now' = now + 1000
    /\ height' = HeightAt(now + 1000)
    /\ UNCHANGED <<blockMs, nodeMs, includedAt, pc, latestTime, blockSpeed, tries, first, ret>>

(* Mutant of AverageBlockSpeed: the result is not raised to at least 1.    *)
AverageBlockSpeedNoFloor ==
    /\ pc = "loop"
    /\ height > 1
    /\ LET period == MinOf(height - 1, 50)
           ago == TimeOf(height - period)
       IN  \/ ago > latestTime /\ ret' = "Error" /\ pc' = "done"
                /\ UNCHANGED <<blockSpeed, first>>
           \/ /\ ago <= latestTime
              /\ blockSpeed' = ((((latestTime - ago) \div 1000) \div period) * 7) \div 10
              /\ pc' = "poll"
              /\ first' = now
              /\ UNCHANGED ret
    /\ UNCHANGED <<blockMs, nodeMs, now, includedAt, height, latestTime, tries>>

(* Mutant of AverageBlockSpeed: the block one after the one avg_period   *)
(* back is fetched.                                                        *)
AverageBlockSpeedAgoOffByOne ==
    /\ pc = "loop"
    /\ height > 1
    /\ LET period == MinOf(height - 1, 50)
           ago == TimeOf(height - period + 1)
       IN  \/ ago > latestTime /\ ret' = "Error" /\ pc' = "done"
                /\ UNCHANGED <<blockSpeed, first>>
           \/ /\ ago <= latestTime
              /\ blockSpeed' =
                    MaxOf(((((latestTime - ago) \div 1000) \div period) * 7) \div 10, 1)
              /\ pc' = "poll"
              /\ first' = now
              /\ UNCHANGED ret
    /\ UNCHANGED <<blockMs, nodeMs, now, includedAt, height, latestTime, tries>>

(* The average over min(height - 1, 50) blocks: the block that many blocks *)
(* back, duration_since(..)? (an error when that block is later than the   *)
(* stale latest_block_time), whole seconds divided by the period, times    *)
(* the multiplier 0.7, at least 1.                                          *)
AverageBlockSpeed ==
    /\ pc = "loop"
    /\ height > 1
    /\ LET period == MinOf(height - 1, 50)
           ago == TimeOf(height - period)
       IN  \/ ago > latestTime /\ ret' = "Error" /\ pc' = "done"
                /\ UNCHANGED <<blockSpeed, first>>
           \/ /\ ago <= latestTime
              /\ blockSpeed' =
                    MaxOf(((((latestTime - ago) \div 1000) \div period) * 7) \div 10, 1)
              /\ pc' = "poll"
              /\ first' = now
              /\ UNCHANGED ret
    /\ UNCHANGED <<blockMs, nodeMs, now, includedAt, height, latestTime, tries>>

Found == includedAt # Never /\ now >= includedAt

(* Mutant of Poll: one query more than the retries allow.                  *)
PollPastRetries ==
    /\ pc = "poll"
    /\ tries <= Retries
    /\ tries' = tries + 1
    /\ \/ /\ Found
          /\ ret' = "Ok"
          /\ pc' = "done"
          /\ UNCHANGED <<now, blockSpeed>>
       \/ /\ ~Found
          /\ blockSpeed' = (blockSpeed * 16) \div 10
          /\ now' = now + ((blockSpeed * 16) \div 10) * 1000
          /\ UNCHANGED <<pc, ret>>
    /\ UNCHANGED <<blockMs, nodeMs, includedAt, height, latestTime, first>>

(* One get_tx: the response, or block_speed = block_speed * 1.6 and a     *)
(* sleep of that many seconds.                                             *)
Poll ==
    /\ pc = "poll"
    /\ tries < Retries
    /\ tries' = tries + 1
    /\ \/ /\ Found
          /\ ret' = "Ok"
          /\ pc' = "done"
          /\ UNCHANGED <<now, blockSpeed>>
       \/ /\ ~Found
          /\ blockSpeed' = (blockSpeed * 16) \div 10
          /\ now' = now + ((blockSpeed * 16) \div 10) * 1000
          /\ UNCHANGED <<pc, ret>>
    /\ UNCHANGED <<blockMs, nodeMs, includedAt, height, latestTime, first>>

(* The retries are exhausted: TXNotFound(hash, retries).                   *)
GiveUp ==
    /\ pc = "poll"
    /\ tries = Retries
    /\ ret' = "NotFound"
    /\ pc' = "done"
    /\ UNCHANGED <<blockMs, nodeMs, now, includedAt, height, latestTime, blockSpeed, tries, first>>

Terminated == pc = "done" /\ UNCHANGED vars

Next ==
    \/ LatestBlock
    \/ WaitForHeight
    \/ AverageBlockSpeed
    \/ Poll
    \/ GiveUp
    \/ Terminated

(* Every await completes: the runtime drives the future and the chain     *)
(* keeps producing blocks.                                                  *)
Spec == Init /\ [][Next]_vars

-----------------------------------------------------------------------------
TypeOK ==
    /\ blockMs \in BlockTimes
    /\ nodeMs \in BlockTimes \cup SyncTimes
    /\ now \in Nat
    /\ includedAt \in Nat \cup {Never}
    /\ pc \in {"latest", "loop", "poll", "done"}
    /\ height \in Nat
    /\ latestTime \in Nat
    /\ blockSpeed \in Nat
    /\ tries \in 0..Retries
    /\ first \in Nat
    /\ ret \in {"running", "Ok", "NotFound", "Error"}

(* Every miss waits at least a second (the max(.., 1) of                   *)
(* average_block_speed, and x1.6 never lowers the wait), so TXNotFound     *)
(* means the transaction was not queryable Retries - 1 seconds after the   *)
(* first query.                                                            *)
NotFoundMeansLate ==
    ret = "NotFound" =>
        includedAt = Never \/ includedAt > first + (Retries - 1) * 1000

(* latest_block_time is read before the wait for a second block and not  *)
(* re-read: duration_since(..)? fails only when the node passed more than  *)
(* 50 blocks during a one-second sleep, i.e. for a node catching up, never *)
(* for one that follows the chain.                                         *)
StaleTimeOnlyWhenCatchingUp ==
    ret = "Error" => nodeMs < blockMs

=============================================================================
