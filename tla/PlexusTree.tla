----------------------------- MODULE PlexusTree -----------------------------
(***************************************************************************)
(* The overlay the experiment driver lays out (klink/monitor/tree/         *)
(* BuildTree.h): peers 0..n-1 are the leaves of a binary tree of height    *)
(* ceil(log2 n), the prefix of a leaf is padded with zeros to an overlay   *)
(* id of K bits, and a peer's routing table has the peers that match best  *)
(* its id with one prefix bit toggled, and with all of them toggled.       *)
(***************************************************************************)
EXTENDS Naturals, FiniteSets, FiniteSetsExt

CONSTANTS K,       \* iCode->K(), the bits of an overlay id
          Sizes    \* the sizes of tree considered

\* pow(2.0, h), written out so that the prover knows what it is.
Pow2[h \in 0..K] == IF h = 0 THEN 1 ELSE 2 * Pow2[h - 1]

ASSUME TreeAssumption == K \in Nat \ {0} /\ \A n \in Sizes : n \in 2..Pow2[K - 1]

Oids == 0..(2^K - 1)

\* OverlayID::GetBitAtPosition, ToggleBitAtPosition.
Bit(v, n) == (v \div 2^n) % 2
ToggleBit(v, n) == IF Bit(v, n) = 1 THEN v - 2^n ELSE v + 2^n

\* OverlayID::GetMatchedPrefixLength: bit 0 is never compared.
GetMatchedPrefixLength(a, b) ==
    K - 1 - Max({0} \cup {i \in 1..(K - 1) : Bit(a, i) # Bit(b, i)})

MaxHeight(n) == CHOOSE h \in 0..K : n <= Pow2[h] /\ (h = 0 \/ Pow2[h - 1] < n)

\* BuildTree::execute, "method 2": the first leaves are those at full height.
nodesAtMaxHeight(n) == 2 * n - Pow2[MaxHeight(n)]
Height(n, i) == IF i < nodesAtMaxHeight(n) THEN MaxHeight(n) ELSE MaxHeight(n) - 1
Pattern(n, i) ==
    IF i < nodesAtMaxHeight(n) THEN i
    ELSE Pow2[MaxHeight(n) - 1] - (n - nodesAtMaxHeight(n)) + (i - nodesAtMaxHeight(n))

idArray == [n \in Sizes |-> [i \in 0..(n - 1) |-> Pattern(n, i) * Pow2[K - Height(n, i)]]]

GetIndexOfLongestMatchedPrefix(n, v) ==
    LET len(i) == GetMatchedPrefixLength(v, idArray[n][i])
        best == Max({len(i) : i \in 0..(n - 1)})
    IN  IF best = 0 THEN 0 ELSE Min({i \in 0..(n - 1) : len(i) = best})

\* idArray[i] with the bits of the positions in J counted from the top toggled.
Toggled(v, J) ==
    LET f[j \in 0..K] == IF j = 0 THEN v
                         ELSE IF (j - 1) \in J THEN ToggleBit(f[j - 1], K - j) ELSE f[j - 1]
    IN  f[K]

rtArrayOf(n, i) ==
    LET id == idArray[n][i]
        bits == 0..(Height(n, i) - 1)
        patterns == {Toggled(id, {j}) : j \in bits} \cup {Toggled(id, bits)}
    IN  {GetIndexOfLongestMatchedPrefix(n, v) : v \in patterns} \ {i}

rtArray == [n \in Sizes |-> [i \in 0..(n - 1) |-> rtArrayOf(n, i)]]
=============================================================================
