--------------------------------- MODULE Numbers --------------------------------
(***************************************************************************)
(* The document that the font is generated from, src/tool/numbers.svg: its *)
(* paths, command by command, in millionths of its unit.                   *)
(***************************************************************************)
EXTENDS Integers, Sequences

m(ps) == [letter |-> "m", params |-> ps]
l(ps) == [letter |-> "l", params |-> ps]
L(ps) == [letter |-> "L", params |-> ps]
h(ps) == [letter |-> "h", params |-> ps]
H(ps) == [letter |-> "H", params |-> ps]
v(ps) == [letter |-> "v", params |-> ps]
V(ps) == [letter |-> "V", params |-> ps]

numbers_svg == <<
  << m(<<40048003, 45057684, -265290, 90310, -180622, 265290, -87490, 445912>>), v(<<265290>>),
  l(<<87490, 445912, 180622, 266701, 265290, 88900>>), h(<<177800>>), l(<<268112, -88900, 174979,
  -266701, 90310, -445912>>), v(<<-265290>>), l(<<-90310, -445912, -174979, -265290, -268112,
  -90310>>), h(<<-177800>>) >>,
  << m(<<39782713, 49815985, 174979, -87490, 268111, -268112>>), V(<<51328700>>) >>,
  << m(<<39602091, 54308996>>), v(<<-90310>>), l(<<90310, -174979, 90310, -90310, 174979,
  -90310>>), h(<<355601>>), l(<<180622, 90310, 87490, 90310, 87490, 174979>>), v(<<180622>>),
  l(<<-87490, 174979, -177800, 268112, -889003, 889002>>), h(<<1244604>>) >>,
  << m(<<39692402, 58265684>>), h(<<976492>>), l(<<-530580, 711202>>), h(<<265290>>), l(<<177800,
  90310, 87490, 90310, 90310, 265290>>), v(<<177801>>), l(<<-90310, 266700, -174979, 177801,
  -268112, 88900>>), h(<<-268111>>), l(<<-265290, -88900, -90310, -88900, -87490, -177801>>) >>,
  << m(<<40849516, 63915809>>), h(<<-1334915>>), l(<<889003, -1247425>>), V(<<64536700>>) >>,
  << m(<<40581404, 67071084>>), h(<<-889002>>), l(<<-90310, 801513, 90310, -90310, 265290,
  -87490>>), h(<<268111>>), l(<<268112, 87490, 174979, 180622, 90310, 265290>>), V(<<68406000>>),
  l(<<-90310, 266700, -174979, 177801, -268112, 88900>>), h(<<-268111>>), l(<<-265290, -88900,
  -90310, -88900, -87490, -177801>>) >>,
  << m(<<40668894, 71741896, -87490, -177801, -268111, -90310>>), h(<<-174979>>), l(<<-268112,
  90310, -177800, 265290, -90310, 445912>>), v(<<445912>>), l(<<90310, 354190, 177800, 177801,
  268112, 88900>>), h(<<87490>>), l(<<268112, -88900, 174979, -177801, 90310, -266700>>),
  v(<<-87490>>), l(<<-90310, -268111, -174979, -177801, -268112, -90310>>), h(<<-87490>>),
  l(<<-268112, 90310, -177800, 177801, -90310, 268111>>) >>,
  << m(<<39514601, 75876484>>), h(<<1244604>>), L(<<39870202, 77744800>>) >>,
  << m(<<39957692, 80279084, -265290, 90310, -90310, 177801>>), v(<<177800>>), l(<<90310, 177801,
  177800, 87490, 355601, 90310, 268112, 90310, 174979, 174979, 90310, 180622>>), v(<<265290>>),
  l(<<-90310, 177801, -87490, 88900, -268111, 88900>>), h(<<-355601>>), l(<<-265290, -88900,
  -90310, -88900, -87490, -177801>>), v(<<-265290>>), l(<<87490, -180622, 180622, -174979, 265290,
  -90310, 355601, -90310, 177800, -87490, 87490, -177801>>), v(<<-177800>>), l(<<-87490, -177801,
  -268111, -90310>>), h(<<-355601>>) >>,
  << m(<<40668894, 85305497, -87490, 268111, -177800, 174979, -265290, 90310>>), h(<<-90310>>),
  l(<<-265290, -90310, -180622, -174979, -87490, -268111>>), v(<<-87490>>), l(<<87490, -268111,
  180622, -177801, 265290, -90310>>), h(<<90310>>), l(<<265290, 90310, 177800, 177801, 87490,
  355601>>), v(<<443090>>), l(<<-87490, 445912, -177800, 266701, -265290, 88900>>), h(<<-180622>>),
  l(<<-265290, -88900, -90310, -177801>>) >>,
  << m(<<41826003, 89084484, -265290, 90310, -180622, 265290, -87490, 445912>>), v(<<265290>>),
  l(<<87490, 445912, 180622, 266701, 265290, 88900>>), h(<<177800>>), l(<<268112, -88900, 174979,
  -266701, 90310, -445912>>), v(<<-265290>>), l(<<-90310, -445912, -174979, -265290, -268112,
  -90310>>), h(<<-177800>>), m(<<-2043290, 355601, 174979, -87490, 268111, -268112>>),
  V(<<90952800>>) >>,
  << m(<<41560713, 93842785, 174979, -87490, 268111, -268112>>), V(<<95355500>>), m(<<-2221090,
  -1512715, 174979, -87490, 268111, -268112>>), V(<<95355500>>) >>,
  << m(<<41380091, 98335596, 27100, -142827, 125889, -185145, 202607, -117940, 362208, 3300,
  225415, 140065, 123579, 212232, -6600, 193837, -187033, 321832, -165673, 202068, -794976,
  794982>>), h(<<1244603>>), m(<<-2754497, -1512715, 232438, -144948, 210652, -210653>>),
  V(<<99758000>>) >>,
  << m(<<41200877, 104160790>>), v(<<-1868310>>), l(<<711200, 1868310, 711200, -1868310>>),
  v(<<1868310>>), m(<<-3287890, 0, 711200, -1868310, 711200, 1868310>>), m(<<-1157110, -620890>>),
  h(<<891820>>) >>,
  << m(<<41202289, 108155620>>), v(<<-1868320>>), l(<<711202, 1868320, 711203, -1868320>>),
  v(<<1868320>>), m(<<-3290725, 0>>), v(<<-1868320>>), h(<<801513>>), l(<<265290, 90300, 90310,
  90300, 90310, 174970>>), v(<<268120>>), l(<<-90310, 177800, -90310, 90300, -265290, 87500>>),
  H(<<39333970>>) >> >>
==============================================================================
