----------------------------- MODULE AbuseGuard -----------------------------
(***************************************************************************)
(* Rate windows and cooldowns per sender: the tables abuse_rate_windows    *)
(* and abuse_blocks and the transaction check of abuse_guard.py.           *)
(*                                                                         *)
(* check is one transaction of several statements under READ COMMITTED.    *)
(* Other checks of the sender can come between its first statement, which  *)
(* reads the block FOR UPDATE, and its second, which takes the row of a    *)
(* window and keeps it to the end; so it is two steps.  A row that the     *)
(* first statement found stays locked.  A check uses one time throughout.  *)
(***************************************************************************)
EXTENDS GuardBase

CONSTANTS
    MinuteTicks, HourTicks,    \* lengths of the fixed windows
    MessagesPerMinute, MessagesPerHour, MediaPerHour,
    CooldownBase, CooldownMax, \* ABUSE_COOLDOWN_SECONDS, ABUSE_MAX_COOLDOWN_SECONDS
    NoticeInterval             \* ABUSE_NOTICE_INTERVAL_SECONDS

ASSUME WindowsAssumption ==
    /\ {MinuteTicks, HourTicks} \subseteq Nat \ {0}
    /\ {MessagesPerMinute, MessagesPerHour, MediaPerHour} \subseteq Nat
    /\ {CooldownBase, NoticeInterval} \subseteq Nat \ {0}
    /\ CooldownMax \in Nat /\ CooldownBase <= CooldownMax

VARIABLES
    windows,     \* abuse_rate_windows: per user, bucket and start, count; 0: no row
    blocks,      \* abuse_blocks: per user, strike_count (0: no row), ends and notice
    block_lock,  \* per user, the check that holds the row of abuse_blocks
    passed       \* observer: what windows counted and check allowed

abuseVars == <<windows, blocks, block_lock, passed>>

Buckets == {"messages_minute", "messages_hour", "media_hour"}
Starts == 0..MaxNow
Counts == [Buckets -> [Starts -> Nat]]
Block == [strikes : Nat, until : Nat, noticed : Nat]
NoBlock == [strikes |-> 0, until |-> 0, noticed |-> 0]
NoCounts == [b \in Buckets |-> [s \in Starts |-> 0]]

\* _floor_minute and _floor_hour.
Start(bucket, t) ==
    LET length == IF bucket = "messages_minute" THEN MinuteTicks ELSE HourTicks
    IN  (t \div length) * length

Counted(media) == IF media THEN Buckets ELSE Buckets \ {"media_hour"}

LimitOf(bucket) ==
    CASE bucket = "messages_minute" -> MessagesPerMinute
      [] bucket = "messages_hour" -> MessagesPerHour
      [] OTHER -> MediaPerHour

\* The three upserts: every count of the message's windows goes up by one.
Incremented(counts, t, media) ==
    [b \in Buckets |->
        IF b \in Counted(media) THEN [counts[b] EXCEPT ![Start(b, t)] = @ + 1] ELSE counts[b]]

\* Mutant: a window is only full one message later.
Excessive_OffByOne(counts, t, media) ==
    \E b \in Counted(media) : counts[b][Start(b, t)] > LimitOf(b) + 1

Excessive(counts, t, media) ==
    \E b \in Counted(media) : counts[b][Start(b, t)] > LimitOf(b)

\* min(base * 2 ** max(0, min(strike_count - 1, 6)), maximum)
Powers == <<1, 2, 4, 8, 16, 32, 64>>
Cooldown(strikes) ==
    LET n == IF strikes < 1 THEN 1 ELSE IF strikes > 7 THEN 7 ELSE strikes
        d == CooldownBase * Powers[n]
    IN  IF d < CooldownMax THEN d ELSE CooldownMax

Blocked(u, t) == blocks[u].strikes > 0 /\ blocks[u].until > t
NoticeDue(u, t) == t - blocks[u].noticed >= NoticeInterval

\* First statement, on a block that still runs: the transaction ends here.
CheckBlocked(u, t) ==
    /\ block_lock[u] = Nobody /\ Blocked(u, t)
    /\ blocks' = IF NoticeDue(u, t) THEN [blocks EXCEPT ![u].noticed = t] ELSE blocks
    /\ UNCHANGED <<windows, block_lock, passed>>

\* First statement otherwise.  A block that is over is deleted, which shows at
\* the commit; until then its row stays locked.
CheckClear(u, t, m) ==
    /\ block_lock[u] = Nobody /\ ~Blocked(u, t)
    /\ block_lock' = IF blocks[u].strikes > 0 THEN [block_lock EXCEPT ![u] = m]
                     ELSE block_lock
    /\ UNCHANGED <<windows, blocks, passed>>

\* First statement, behind a check that deletes the row: after that commit it
\* finds no row, not even one inserted in the same transaction.
CheckBehind(u) ==
    /\ block_lock[u] # Nobody
    /\ UNCHANGED abuseVars

\* The windows, and a block if one is over its limit.  strike_count goes up from
\* the row there is: none if this check deleted it, or that of a check in between.
CheckCount(u, t, media, m) ==
    LET counts == Incremented(windows[u], t, media)
        row == IF block_lock[u] = m THEN NoBlock ELSE blocks[u]
        strikes == row.strikes + 1 IN
    /\ block_lock[u] \in {Nobody, m}
    /\ windows' = [windows EXCEPT ![u] = counts]
    /\ block_lock' = [block_lock EXCEPT ![u] = Nobody]
    /\ IF Excessive(counts, t, media)
       THEN /\ blocks' = [blocks EXCEPT ![u] =
                  [strikes |-> strikes, until |-> t + Cooldown(strikes), noticed |-> t]]
            /\ UNCHANGED passed
       ELSE /\ blocks' = [blocks EXCEPT ![u] = row]
            /\ passed' = [passed EXCEPT ![u] = Incremented(@, t, media)]

\* A check that ends without a commit.
DropBlockLock(u, m) ==
    /\ block_lock' = [block_lock EXCEPT ![u] = IF @ = m THEN Nobody ELSE @]
    /\ UNCHANGED <<windows, blocks, passed>>

\* delete_user: both tables, one transaction.
DeleteAbuse(u) ==
    /\ block_lock[u] = Nobody
    /\ windows' = [windows EXCEPT ![u] = NoCounts]
    /\ blocks' = [blocks EXCEPT ![u] = NoBlock]
    /\ passed' = [passed EXCEPT ![u] = NoCounts]
    /\ UNCHANGED block_lock

AbuseData(u) == windows[u] # NoCounts \/ blocks[u] # NoBlock

AbuseInit ==
    /\ windows = [u \in Users |-> NoCounts]
    /\ blocks = [u \in Users |-> NoBlock]
    /\ block_lock = [u \in Users |-> Nobody]
    /\ passed = windows

AbuseTypeOK ==
    /\ {windows, passed} \subseteq [Users -> Counts]
    /\ blocks \in [Users -> Block]
    /\ block_lock \in [Users -> Messages \cup {Nobody}]

\* The fixed windows hold however checks, blocks, retries and deletions
\* overlap: check lets no more messages of a window through than its limit.
WindowsHold ==
    \A u \in Users, b \in Buckets, s \in Starts : passed[u][b][s] <= LimitOf(b)

=============================================================================
