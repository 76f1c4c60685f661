--------------------------- MODULE MCTimeSeries ---------------------------
(***************************************************************************)
(* An instance of TimeSeries for TLC: the years from 2023 to 2025, in half *)
(* hours, with requests around the turn of the year 2024 and the end of    *)
(* January 2025, and events at the edges of their ranges and buckets.      *)
(***************************************************************************)
EXTENDS TimeSeries, TLC

CONSTANTS e1, e2, e3

(* The months of three years, the second of which is a leap year.          *)
DaysBefore == <<0, 31, 59, 90, 120, 151, 181, 212, 243, 273, 304, 334>>
MonthsOf3  == (12 * 2023 + 1)..(12 * 2025 + 12)
StartOf3   == [n \in MonthsOf3 |-> LET i == n - 12 * 2023 - 1 IN
                 48 * (365 * (i \div 12) + DaysBefore[(i % 12) + 1]
                       + IF i >= 14 THEN 1 ELSE 0)]

NewYear  == StartOf3[12 * 2025 + 1]
February == StartOf3[12 * 2025 + 2]
Clocks   == {NewYear - 1, NewYear, NewYear + 1, February - 1}

(* The edges of ranges and buckets around these times.                     *)
Edges == {NewYear - 1, NewYear + 1} \union
         UNION {{NewYear - d * 48 - 1, NewYear - d * 48} : d \in {1, 6, 7, 14, 29, 89, 365}}
         \union {February - 366 * 48, NewYear - 24 * 2 + 1, NewYear - 731 * 48}

Stamps == (e1 :> Edges) @@ (e2 :> {NewYear - 1, NewYear}) @@ (e3 :> {NewYear - 1})
=============================================================================
