----------------------------- MODULE MCStartup -----------------------------
(***************************************************************************)
(* Starts with up to four Cores, one of them configured twice, an entry    *)
(* that does not parse, and rows that were written under the same Cores,   *)
(* fewer, or the same in another order.                                    *)
(***************************************************************************)
EXTENDS Startup

CONSTANTS A, B, C, D, bad

MCConfigs ==
    { <<>>, <<A>>, <<A, B>>, <<A, B, C>>, <<A, B, A>>, <<A, A, B>>, <<A, B, C, D>>,
      <<A, bad>> }

MCReportOf ==
    [a \in Address |-> CASE a = A -> [Memory |-> 1, Disk |-> 5]
                         [] a = B -> [Memory |-> 2, Disk |-> 6]
                         [] a = C -> [Memory |-> 3, Disk |-> 7]
                         [] a = D -> [Memory |-> 4, Disk |-> 8]]

MCDatabases ==
    UNION {{[cores |-> c, row |-> r] : r \in [VM -> 0..Len(c)]} :
              c \in { <<A>>, <<A, B>>, <<B, A>>, <<A, B, C>> }}

=============================================================================
