------------------------------ MODULE MCFontTool ------------------------------
(* The generator on all short paths, on all pairs of paths of a few        *)
(* commands, and on the document that the font was generated from.         *)
EXTENDS FontTool, Numbers

F == INSTANCE Font

Commands ==
  {m(ps) : ps \in {<<>>, <<1, 0>>, <<2, 3, -4, 1>>}} \union {l(ps) : ps \in {<<-2, 5>>, <<1, 1, 0, -3>>}}
  \union {L(ps) : ps \in {<<7, 2>>, <<0, 4, 3, 3>>}}
  \union {c : c \in {h(<<2>>), h(<<1, -3>>), H(<<5>>), v(<<-1>>), V(<<4>>), V(<<6, 2>>)}}
Broken == {[letter |-> "M", params |-> <<1, 1>>], l(<<1>>), [letter |-> "z", params |-> <<>>]}

OnePath == {<<p>> : p \in BoundedSeq(Commands, 3) \union BoundedSeq(Commands \union Broken, 2)}
Few == {m(<<1, 0>>), l(<<2, -1, 0, 4>>), V(<<3>>)}
TwoPaths == (BoundedSeq(Few, 3) \X BoundedSeq(Few, 2)) \union
            {<<p, q, p>> : p \in BoundedSeq(Few, 2), q \in BoundedSeq(Few, 1)}
ShortDocuments == OnePath \union TwoPaths

AllDocuments == ShortDocuments \union {numbers_svg}

\* The table in font.rs is what the generator prints for the document, up to
\* the rounding of f32 and of the model's units.
FontGenerated ==
  document = numbers_svg /\ phase = "printed" =>
    /\ Len(printed) = 15
    /\ \A n \in 1..15 :
         LET font == F!FONT(n - 1)
         IN /\ DOMAIN font = DOMAIN printed[n]
            /\ \A i \in DOMAIN font :
                 /\ DOMAIN font[i] = DOMAIN printed[n][i]
                 /\ \A k \in DOMAIN font[i], axis \in {1, 2} :
                      printed[n][i][k][axis] - 200 * font[i][k][axis] \in -160..160
==============================================================================
