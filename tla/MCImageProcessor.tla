---------------------------- MODULE MCImageProcessor ----------------------------
(* ImageProcessor on small pictures, with and without padding.              *)
EXTENDS ImageProcessor, TLC

F(name)  == [dash |-> TRUE, text |-> name]
P(param) == [dash |-> FALSE, text |-> param]

MCNames      == {"a.bmp", "b.bmp", "locked.bmp", "sealed.bmp"}
MCPresent    == {"a.bmp", "locked.bmp", "sealed.bmp"}
MCUnwritable == {"locked.bmp"}
MCUnreadable == {"sealed.bmp"}

Picture(bits, width, height, bytes, seed) ==
  [bits |-> bits, width |-> width, height |-> height,
   size |-> 54 + bytes, imageSize |-> seed,
   data |-> [k \in 1..bytes |-> (seed * k * k) % 256]]

\* Rows with and without padding, pictures of one row, one column and no pixel,
\* one whose data end early, one with rows from the top and one of other pixels
MCPictures ==
  {Picture(24, 3, 2, 24, 37), Picture(24, 1, 3, 12, 91), Picture(24, 2, 1, 8, 150),
   Picture(24, 1, 1, 4, 60), Picture(24, 0, 2, 0, 0), Picture(24, 3, 2, 17, 53),
   Picture(24, 3, 4, 48, 83), Picture(24, 2, -2, 16, 11), Picture(32, 1, 1, 4, 5)}

\* Memory that looks like the headers of a picture, and other memory
MCLeftovers == {Picture(24, 2, 1, 0, 77), Picture(0, 1, 1, 0, 3)}
MCCutAt     == {5}

\* Coefficients of crosspoly: of a pixel's own colours, their products, and 1
Mix(linear, product, constant) ==
  [k \in 1..30 |-> P(CASE k % 10 \in 1..3 -> linear
                       [] k % 10 = 7 -> product
                       [] k % 10 = 0 -> constant
                       [] OTHER -> IF k = 14 THEN "0.5" ELSE "0")]

MCCommandLines ==
  {<<>>, <<P("1")>>,
   <<F("crop"), P("2"), P("1")>>, <<F("crop"), P("0"), P("9")>>,
   <<F("crop"), P("99999999999"), P("1")>>, <<F("crop"), P("2")>>,
   <<F("neg"), F("crop"), P("2"), P("x")>>,
   <<F("sharp")>>, <<F("neg"), F("sharp")>>, <<F("edge"), P("0.1")>>,
   <<F("edge"), P("2")>>, <<F("gs"), F("crop"), P("1"), P("2")>>,
   <<F("crop"), P("2"), P("2"), F("sharp"), F("crop"), P("9"), P("1")>>, <<F("blu")>>,
   <<F("blur"), P("1.2"), F("sharp")>>, <<F("gs"), F("blur"), P("0.1")>>, <<F("blur"), P("x")>>,
   <<F("crosspoly")>> \o Mix("0.1", "0.5", "0"), <<F("crosspoly")>> \o Mix("0", "1", "0.1"),
   <<F("crosspoly")>> \o Mix("2", "0", "0")}

MCDigits    == {"0", "1", "2", "9", "99999999999"}
MCValue     == "0" :> 0 @@ "1" :> 1 @@ "2" :> 2 @@ "9" :> 9
MCHundredths ==
  "0" :> 0 @@ "0.1" :> 10 @@ "0.5" :> 50 @@ "1" :> 100 @@ "1.2" :> 120 @@ "2" :> 200
    @@ "9" :> 900 @@ "99999999999" :> 1000

\* Some fractions that are whole, and some that are just below a whole number
MCRoundedUp   == {f \in Nat \X Nat : (f[1] + 1) % f[2] = 0 /\ f[1] % 2 = 0}
MCRoundedDown == {f \in Nat \X Nat : f[1] % f[2] = 0 /\ f[1] % 3 = 0}

=============================================================================
