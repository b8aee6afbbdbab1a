---------------------------- MODULE StatusPrinter ---------------------------
(***************************************************************************)
(* ConsoleStatusPrinter.cpp with HumanReadableFormatter.cpp: once a second *)
(* the sum of the handlers' counters is compared with the sample before.   *)
(* bytesRead and bytesWritten are treated alike; one of them is modelled.  *)
(***************************************************************************)
EXTENDS Integers, FiniteSetsExt

CONSTANTS Second,      \* the milliseconds of a second
          Kilo,        \* the factor between two units, 1024 in the code
          MaxBytes,    \* bound: what the handlers count
          MaxTime      \* bound: the wall clock

VARIABLES
  sum,         \* Engine::statisticSummary().bytesRead
  now,         \* QDateTime::currentDateTime(), which the user may set back
  m_previousStatistic,
  m_previousStatisticTimestamp,
  rate,        \* the sign of the last bytesReadPerSecond, 2 for any value
  printed      \* history: the sum of all bytesReadDiff

previous == <<m_previousStatistic, m_previousStatisticTimestamp>>
vars     == <<sum, now, previous, rate, printed>>

Init ==
  /\ sum = 0
  /\ now \in 0..MaxTime
  /\ m_previousStatistic = 0
  /\ m_previousStatisticTimestamp = 0
  /\ rate = 0
  /\ printed = 0

(* Division towards zero, as the conversion of a double does it.           *)
Quotient(a, b) == IF b > 0 THEN a \div b ELSE -(a \div (-b))

(* A difference of zero milliseconds makes an infinity or a NaN, whose     *)
(* conversion to an integer is undefined.                                  *)
Sign(n) == IF n > 0 THEN 1 ELSE IF n < 0 THEN -1 ELSE 0
SignOfRate(bytes, time) == IF time = 0 THEN 2 ELSE Sign(Quotient(bytes * Second, time))

Traffic ==
  /\ \E bytes \in {1, 5} : sum + bytes <= MaxBytes /\ sum' = sum + bytes
  /\ UNCHANGED <<now, previous, rate, printed>>

ClockMoves ==
  /\ now' \in 0..MaxTime
  /\ UNCHANGED <<sum, previous, rate, printed>>

(* Mutant: the sample is kept only when there was something to print.      *)
PrintStatistics_Forgets ==
  /\ rate' = SignOfRate(sum - m_previousStatistic, now - m_previousStatisticTimestamp)
  /\ printed' = printed + (sum - m_previousStatistic)
  /\ m_previousStatistic' = IF rate' # 0 THEN sum ELSE m_previousStatistic
  /\ m_previousStatisticTimestamp' = now
  /\ UNCHANGED <<sum, now>>

PrintStatistics ==
  /\ rate' = SignOfRate(sum - m_previousStatistic, now - m_previousStatisticTimestamp)
  /\ printed' = printed + (sum - m_previousStatistic)
  /\ m_previousStatistic' = sum
  /\ m_previousStatisticTimestamp' = now
  /\ UNCHANGED <<sum, now>>

Next == Traffic \/ ClockMoves \/ PrintStatistics

Spec == Init /\ [][Next]_vars

-----------------------------------------------------------------------------
(* HumanReadableFormatter::fileSize: which of the seven units is chosen.   *)
Unit == <<"Bytes", "KB", "MB", "GB", "TB", "PB", "EB">>

MB == Kilo * Kilo
GB == Kilo * MB
TB == Kilo * GB
PB == Kilo * TB
EB == Kilo * PB
Divider == <<1, Kilo, MB, GB, TB, PB, EB>>

Chosen(size) == Max({1} \cup {k \in 2..7 : size > Divider[k]})

FileSize(size) == [unit |-> Unit[Chosen(size)], divider |-> Divider[Chosen(size)]]

TypeOK ==
  /\ {sum, now, m_previousStatistic, m_previousStatisticTimestamp, printed} \subseteq Nat
  /\ rate \in -1..2

(* Every byte is in exactly one of the samples, whatever the clock did     *)
(* between them: none is lost when a rate rounds to zero or is undefined.  *)
(* And the number shown for them has at most four digits before the point, *)
(* in the smallest unit for which that is so; only EB has no larger one.   *)
EachByteShown ==
  /\ printed = m_previousStatistic /\ printed <= sum
  /\ LET fits == {k \in 1..7 : sum <= Kilo * Divider[k]}
     IN  FileSize(sum).unit = IF fits = {} THEN "EB" ELSE Unit[Min(fits)]

=============================================================================
