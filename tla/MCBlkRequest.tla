---------------------------- MODULE MCBlkRequest ----------------------------
(* Values for the constants of BlkRequest that a .cfg cannot write. *)
EXTENDS BlkRequest

D(a, l, w, m, n) == [addr |-> a, len |-> l, write |-> w, more |-> m, next |-> n]

\* Header at 0, data at 2 .. 4, status at 5; 6 is not mapped.
Header    == D(0, 2, FALSE, TRUE, 1)
StatusAt(a) == D(a, 1, TRUE, FALSE, 0)

MCMapped == 0 .. 5
MCDisk == <<7, 8, 9>>
MCMemories ==
  {[a \in MCMapped |-> CASE a = 0 -> t [] a = 1 -> 1 [] a = 5 -> 99 [] OTHER -> 10 + a] :
     t \in {T_IN, T_OUT, T_FLUSH, 3}}

\* What a driver may have put in each descriptor.
Choice == <<
  {Header, D(0, 2, FALSE, TRUE, 3), D(0, 1, FALSE, TRUE, 1), D(0, 2, TRUE, TRUE, 1),
   D(0, 2, FALSE, FALSE, 0)},
  {D(2, 1, w, TRUE, 2) : w \in BOOLEAN} \cup {D(2, 1, TRUE, TRUE, 0), D(2, 1, TRUE, TRUE, 3)},
  {D(3, 2, w, TRUE, 3) : w \in BOOLEAN}
    \cup {D(4, 3, w, TRUE, 3) : w \in BOOLEAN} \cup {D(3, 2, TRUE, TRUE, 4), D(3, 2, TRUE, FALSE, 0)},
  {StatusAt(5), StatusAt(6), D(5, 0, TRUE, FALSE, 0), D(5, 1, FALSE, FALSE, 0),
   D(5, 1, TRUE, TRUE, 1)} >>

MCTables == {t \in [Index -> UNION {Choice[i] : i \in DOMAIN Choice}] : \A i \in Index : t[i] \in Choice[i + 1]}

\* What it may store while the device is at work: another way through the table, a
\* longer one, a chain of one descriptor, one that ends early, a loop, a status byte
\* elsewhere.
MCRewrites ==
  {<<0, D(0, 2, FALSE, TRUE, 3)>>, <<0, D(0, 2, FALSE, FALSE, 0)>>,
   <<1, D(2, 1, TRUE, TRUE, 2)>>,
   <<2, D(3, 2, TRUE, FALSE, 0)>>, <<3, D(5, 1, TRUE, TRUE, 1)>>, <<3, StatusAt(5)>>}

=============================================================================
