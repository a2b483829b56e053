---------------------------- MODULE MCLiveIngest ----------------------------
(* A district of Seoul and one outside, months that make a month-on-month  *)
(* step over a new year, a year-on-year step and a gap.                     *)
EXTENDS LiveIngest

Options(source, gu, gus, month, months) ==
  [source |-> source, gu |-> gu, gus |-> gus, month |-> month, months |-> months]

MCRequests ==
  {Options("live", {11110}, {}, {}, {<<<<2024, 1>>, <<2023, 12>>>>}),
   Options("live", {}, {<<11110>>}, {}, {<<<<2023, 1>>, <<2024, 1>>>>}),
   Options("live", {11110}, {}, {}, {<<<<2024, 1>>, <<2024, 1>>>>}),
   Options("live", {}, {<<11110, 41110>>}, {<<2024, 2>>}, {}),
   Options("live", {}, {<<11110>>}, {}, {}),
   Options("fixture", {}, {}, {}, {}),
   Options("fixture", {}, {<<11110, 11680, 11110>>}, {}, {<<<<2025, 1>>, <<2024, 12>>, <<2024, 13>>>>}),
   Options("fixture", {41110}, {}, {<<2024, 2>>}, {}),
   Options("fixture", {11110}, {<<11110>>}, {}, {}),
   Options("fixture", {}, {}, {}, {<<>>})}

Sale(fetch, amount, day) ==
  [sgg |-> Text("int", fetch.gu), year |-> Text("int", fetch.month[1]),
   month |-> Text("int", fetch.month[2]), day |-> Text("int", day),
   amount |-> amount, area |-> Text("decimal", 84955), floor |-> Text("int", 3),
   build |-> Text("int", 1999), cancel |-> Text("nan", 0)]

MolitResponses(fetch) ==
  LET three == Sale(fetch, Text("int", 3), 1)
      five == Sale(fetch, Text("commas", 5), 29)
  IN  {<<>>, <<three>>, <<[drift |-> TRUE]>>,
       <<five, [three EXCEPT !.cancel = Text("word", 0)]>>,
       <<[five EXCEPT !.floor = Text("float", 2000), !.area = Text("float", 60000)],
         [three EXCEPT !.sgg = Text("nan", 0)], [three EXCEPT !.day = Text("int", 31)]>>,
       <<[three EXCEPT !.amount = Text("float", 3000)],
         [three EXCEPT !.floor = Text("float", 500)]>>}

Ecos(month, value) ==
  [time |-> [form |-> "ym", y |-> month[1], m |-> month[2], d |-> 0], value |-> value]

Flow(fetch, c1, c2, itm, n) ==
  [c1 |-> c1, c2 |-> c2, itm |-> itm, prd |-> fetch.month, dt |-> Text("int", n)]

KosisResponses(fetch) ==
  LET in == Flow(fetch, 0, 11, "T70", 7)
      out == Flow(fetch, 11, 0, "T70", 9)
      net == Flow(fetch, 0, 11, "T80", -2)
  IN  {<<>>, <<in, out, net, Flow(fetch, 26, 11, "T70", 1)>>, <<in, net>>, <<in, in>>}

MCResponses(fetch) ==
  CASE fetch.source = "molit" -> MolitResponses(fetch)
    [] fetch.source = "bok" ->
         {<<>>, <<Ecos(<<2023, 12>>, Text("decimal", 3245)), Ecos(<<2024, 1>>, Text("decimal", 3255))>>}
    [] fetch.source = "kostat" -> KosisResponses(fetch)
=============================================================================
