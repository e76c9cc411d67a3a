---------------------------------- MODULE Font ----------------------------------
(***************************************************************************)
(* The pictograms of src/src/font.rs: the numbers 0 to 12, AM and PM.      *)
(* Each is a sequence of lines, a line a sequence of points, a coordinate  *)
(* the nearest integer in units of 1/10000: enough digits for every point  *)
(* to land on the same pixel at the scales the clock uses.                 *)
(***************************************************************************)
EXTENDS Integers, Sequences

UNIT == 10000

Digits0To5 == <<
  << << <<-889,-9342>>, <<-3542,-8438>>, <<-5348,-5786>>, <<-6223,-1326>>,
        <<-6223,1326>>, <<-5348,5786>>, <<-3542,8453>>, <<-889,9342>>,
        <<889,9342>>, <<3570,8453>>, <<5320,5786>>, <<6223,1326>>,
        <<6223,-1326>>, <<5320,-5786>>, <<3570,-8438>>, <<889,-9342>>,
        <<-889,-9342>> >> >>,
  << << <<-2215,-5786>>, <<-466,-6660>>, <<2215,-9342>>, <<2215,9342>> >> >>,
  << << <<-5348,-4883>>, <<-5348,-5786>>, <<-4445,-7535>>, <<-3542,-8438>>,
        <<-1792,-9342>>, <<1764,-9342>>, <<3570,-8438>>, <<4445,-7535>>,
        <<5320,-5786>>, <<5320,-3979>>, <<4445,-2230>>, <<2667,452>>,
        <<-6223,9342>>, <<6223,9342>> >> >>,
  << << <<-4445,-9342>>, <<5320,-9342>>, <<14,-2230>>, <<2667,-2230>>,
        <<4445,-1326>>, <<5320,-423>>, <<6223,2230>>, <<6223,4008>>,
        <<5320,6675>>, <<3570,8453>>, <<889,9342>>, <<-1792,9342>>,
        <<-4445,8453>>, <<-5348,7564>>, <<-6223,5786>> >> >>,
  << << <<6675,3133>>, <<-6675,3133>>, <<2215,-9342>>, <<2215,9342>> >> >>,
  << << <<4445,-9342>>, <<-4445,-9342>>, <<-5348,-1326>>, <<-4445,-2230>>,
        <<-1792,-3104>>, <<889,-3104>>, <<3570,-2230>>, <<5320,-423>>,
        <<6223,2230>>, <<6223,4008>>, <<5320,6675>>, <<3570,8453>>,
        <<889,9342>>, <<-1792,9342>>, <<-4445,8453>>, <<-5348,7564>>,
        <<-6223,5786>> >> >> >>

Digits6To9 == <<
  << << <<4882,-6660>>, <<4008,-8438>>, <<1326,-9342>>, <<-423,-9342>>,
        <<-3104,-8438>>, <<-4882,-5786>>, <<-5786,-1326>>, <<-5786,3133>>,
        <<-4882,6675>>, <<-3104,8453>>, <<-423,9342>>, <<452,9342>>,
        <<3133,8453>>, <<4882,6675>>, <<5786,4008>>, <<5786,3133>>,
        <<4882,452>>, <<3133,-1326>>, <<452,-2230>>, <<-423,-2230>>,
        <<-3104,-1326>>, <<-4882,452>>, <<-5786,3133>> >> >>,
  << << <<-6223,-9342>>, <<6223,-9342>>, <<-2667,9342>> >> >>,
  << << <<-1792,-9342>>, <<-4445,-8438>>, <<-5348,-6660>>, <<-5348,-4882>>,
        <<-4445,-3104>>, <<-2667,-2230>>, <<889,-1326>>, <<3570,-423>>,
        <<5320,1326>>, <<6223,3133>>, <<6223,5786>>, <<5320,7564>>,
        <<4445,8453>>, <<1764,9342>>, <<-1792,9342>>, <<-4445,8453>>,
        <<-5348,7564>>, <<-6223,5786>>, <<-6223,3133>>, <<-5348,1326>>,
        <<-3542,-423>>, <<-889,-1326>>, <<2667,-2230>>, <<4445,-3104>>,
        <<5320,-4882>>, <<5320,-6660>>, <<4445,-8438>>, <<1764,-9342>>,
        <<-1792,-9342>> >> >>,
  << << <<5771,-3104>>, <<4897,-423>>, <<3119,1326>>, <<466,2230>>,
        <<-437,2230>>, <<-3090,1326>>, <<-4897,-423>>, <<-5771,-3104>>,
        <<-5771,-3979>>, <<-4897,-6660>>, <<-3090,-8438>>, <<-437,-9342>>,
        <<466,-9342>>, <<3119,-8438>>, <<4897,-6660>>, <<5771,-3104>>,
        <<5771,1326>>, <<4897,5786>>, <<3119,8453>>, <<466,9342>>,
        <<-1341,9342>>, <<-3993,8453>>, <<-4897,6675>> >> >> >>

Numerals == <<
  << << <<6660,-9342>>, <<4008,-8438>>, <<2201,-5786>>, <<1326,-1326>>,
        <<1326,1326>>, <<2201,5786>>, <<4008,8453>>, <<6660,9342>>,
        <<8438,9342>>, <<11120,8453>>, <<12869,5786>>, <<13772,1326>>,
        <<13772,-1326>>, <<12869,-5786>>, <<11120,-8438>>, <<8438,-9342>>,
        <<6660,-9342>> >>,
     << <<-13772,-5786>>, <<-12023,-6660>>, <<-9342,-9342>>, <<-9342,9342>> >> >>,
  << << <<6674,-5786>>, <<8424,-6660>>, <<11105,-9342>>, <<11105,9342>> >>,
     << <<-11105,-5786>>, <<-9356,-6660>>, <<-6675,-9342>>, <<-6675,9342>> >> >>,
  << << <<2201,-4882>>, <<2472,-6311>>, <<3731,-8162>>, <<5757,-9342>>,
        <<9379,-9309>>, <<11634,-7908>>, <<12869,-5786>>, <<12803,-3847>>,
        <<10933,-629>>, <<9276,1392>>, <<1326,9342>>, <<13773,9342>> >>,
     << <<-13772,-5786>>, <<-11448,-7235>>, <<-9342,-9342>>, <<-9342,9342>> >> >> >>

Letters == <<
  << << <<2215,9342>>, <<2215,-9342>>, <<9327,9342>>, <<16439,-9342>>,
        <<16439,9342>> >>,
     << <<-16439,9342>>, <<-9327,-9342>>, <<-2215,9342>> >>,
     << <<-13787,3133>>, <<-4868,3133>> >> >>,
  << << <<2230,9342>>, <<2230,-9342>>, <<9342,9342>>, <<16454,-9342>>,
        <<16454,9342>> >>,
     << <<-16454,9342>>, <<-16454,-9342>>, <<-8438,-9342>>, <<-5786,-8439>>,
        <<-4883,-7536>>, <<-3979,-5786>>, <<-3979,-3105>>, <<-4883,-1327>>,
        <<-5786,-424>>, <<-8438,451>>, <<-16454,451>> >> >> >>

\* FONT[index]; Rust counts from 0.
FONT(index) == (Digits0To5 \o Digits6To9 \o Numerals \o Letters)[index + 1]
=================================================================================
