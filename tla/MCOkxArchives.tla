---------------------------- MODULE MCOkxArchives ----------------------------
(***************************************************************************)
(* Four source days of two ticks in two months; an instrument that trades  *)
(* on all of them and goes on, one listed on the third day and one that is *)
(* gone after it, all of one family; every kind of call.                   *)
(***************************************************************************)
EXTENDS OkxArchives

MCKeys ==
    {[product |-> k[1], dataset |-> k[2]] :
        k \in {<<"spot", "klines">>, <<"linear_swap", "funding_rates">>, <<"linear_futures", "klines">>,
               <<"spot", "order_book_400">>, <<"margin", "borrow_rates">>}}

MCInstruments == {"A", "New", "Old"}
MCFamilyOf == [i \in MCInstruments |-> "F"]
MCLife == [i \in MCInstruments |-> CASE i = "A" -> <<1, 9>> [] i = "New" -> <<3, 9>> [] OTHER -> <<1, 3>>]

Call(c, v, s, t) == [call |-> c, value |-> v, from |-> s[1], to |-> s[2], transport |-> t,
                     refresh |-> FALSE, offline |-> FALSE, dry |-> FALSE]

\* A UTC day, which two source days share, the second month, all four days.
MCAsks ==
    LET pairs == {Call("pair", "A", <<5, 9>>, "auto"), Call("pair", "New", <<5, 9>>, "auto"),
                  [Call("pair", "Old", <<1, 9>>, "auto") EXCEPT !.refresh = TRUE]}
        whole == Call("cache", "ANY", <<1, 9>>, "bulk")
    IN pairs \cup {whole}
        \cup {Call("chain", "F", s, "specific") : s \in {<<1, 2>>, <<1, 9>>}}
        \cup {Call("currency", "A", <<2, 4>>, "auto"), Call("currency", "A", <<1, 9>>, "bulk")}
        \cup {Call("discover", "A", <<1, 9>>, "specific"), Call("pair", "A", <<0, 1>>, "auto")}
        \cup {[Call("pair", "A", <<1, 9>>, "auto") EXCEPT !.offline = TRUE],
              [whole EXCEPT !.dry = TRUE]}
=============================================================================
