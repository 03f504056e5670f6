----------------------------- MODULE ImageProcessor -----------------------------
(***************************************************************************)
(* image_processor/: a command-line program that reads a BMP file, applies *)
(* a pipeline of filters and writes the result to another file, or to the  *)
(* same one.  It is run several times over one set of files, so that what  *)
(* one run wrote is read by the next.                                      *)
(*                                                                         *)
(* Rows and columns count from 1 here and from 0 in the code.  Row 1 is    *)
(* the first in the file, which is the lowest of the picture.              *)
(*                                                                         *)
(* Numbers the code has in floating point are exact here, as fractions;    *)
(* which of them rounding moves over a whole number, so that another byte  *)
(* is made of them, is left to two parameters.                             *)
(***************************************************************************)
EXTENDS Integers, Sequences, SequencesExt, FiniteSetsExt

CONSTANTS
  Names,        \* names of files
  Present,      \* names of the files that are there at first
  Unwritable,   \* names of which no file can be created or written,
  Unreadable,   \* and names whose file cannot be read
  Pictures,     \* what a file may hold at first
  Leftovers,    \* what headers hold that a file was too short to fill
  CutAt,        \* how many bytes of the pixels may be written before writing fails
  CommandLines, \* what follows the two file names: sequences of arguments
  Digits,       \* arguments made of digits only
  Value,        \* std::stoi, on the arguments that fit an int
  Hundredths,   \* a hundred times std::stod, on the arguments it accepts
  RoundedUp,    \* fractions <<num, den>> that floating point lifts to the next
                \* whole number,
  RoundedDown,  \* and those that it leaves below the whole number they are
  Word,         \* how many values a uint32_t has (2^32 in the code)
  MaxRuns       \* bound: times the program is run

VARIABLES
  files,        \* the files, by name
  pc,           \* what main does next; "idle" when the program does not run
  input, output, filters,  \* CommandLineParser
  header,       \* size and image_size in the headers of the BMPStream
  image,        \* Image
  todo,         \* the filters that Pipeline::Apply has still to apply
  exit,         \* how the last run ended, "none" while one goes on
  runs,         \* runs begun
  loaded,       \* the image as it was read (history)
  spoilt,       \* a filter has done what C++ leaves undefined (history)
  before,       \* the files when the run began (history)
  shown         \* the images written, by name of the file (history)

vars == <<files, pc, input, output, filters, header, image, todo, exit, runs,
          loaded, spoilt, before, shown>>

ASSUME NamesAssumption == Names # {} /\ Present \subseteq Names
ASSUME WordAssumption == Word \in Nat \ {0}
ASSUME MaxRunsAssumption == MaxRuns \in Nat

Byte    == 0..255
Colours == 1..3      \* B, G, R
White   == [c \in Colours |-> 255]
Black   == [c \in Colours |-> 0]

BitsPerPixel == 24
NoHeader == [size |-> 0, imageSize |-> 0]
NoImage == [width |-> 0, height |-> 0, pixels |-> <<>>]

\* An int for each of the sizes in the headers, and unsigned ones
ASSUME PicturesAssumption ==
  Pictures \subseteq [bits : Nat, width : Int, height : Int, size : 0..(Word - 1),
                     imageSize : 0..(Word - 1), data : Seq(Byte)]
ASSUME LeftoversAssumption ==
  Leftovers \subseteq [bits : Nat, width : Int, height : Int, size : 0..(Word - 1),
                      imageSize : 0..(Word - 1), data : {<<>>}]
ASSUME CutAtAssumption == CutAt \subseteq Nat

\* A file that ends before its headers do, as an empty one does
Headless == [bits |-> -1, width |-> 0, height |-> 0, size |-> 0, imageSize |-> 0,
             data |-> <<>>]

\* The files fs after file has been given the name
Put(fs, name, file) ==
  [n \in {name} \cup DOMAIN fs |-> IF n = name THEN file ELSE fs[n]]

\* An argument is [dash, text]
ASSUME CommandLinesAssumption ==
  \A args \in CommandLines :
    args \in Seq([dash : BOOLEAN, text : {args[i].text : i \in DOMAIN args}])

\* Digits alone are no number below zero
ASSUME NumbersAssumption ==
  /\ \A arg \in Digits \cap DOMAIN Value : Value[arg] \in Nat
  /\ \A arg \in DOMAIN Hundredths : Hundredths[arg] \in Int

-----------------------------------------------------------------------------
(* Variants of the operations below with one mistake each.                 *)

\* Sums are cut at 255 only
ClampHigh(n) == IF n > 255 THEN 255 ELSE n

\* Beyond an edge the opposite edge is taken
InwardWrapped(k, n) == IF k > n THEN 1 ELSE IF k < 1 THEN n ELSE k

\* Rows are written one after the other
BytesUnpadded(img) ==
  FlattenSeq([i \in DOMAIN img.pixels |-> FlattenSeq(img.pixels[i])])

\* image_size is set before size is corrected by it
HeaderSwapped(h, img) ==
  [size |-> h.size, imageSize |-> (img.width * img.height) % Word]

-----------------------------------------------------------------------------
(* Image and BMPStream.                                                    *)

\* The bytes that fill a row of the file up to a multiple of four
Padding(width) == (4 - ((width * 3) % 4)) % 4

\* A byte that the file does not have leaves the pixel as it was created, 0
ByteAt(data, k) == IF k \in DOMAIN data THEN data[k] ELSE 0

ReadRGBData(file) ==
  [width |-> file.width, height |-> file.height,
   pixels |-> [i \in 1..file.height |-> [j \in 1..file.width |-> [c \in Colours |->
     ByteAt(file.data, (i - 1) * (3 * file.width + Padding(file.width))
                       + 3 * (j - 1) + c)]]]]

WriteRGBData(img) ==
  FlattenSeq([i \in DOMAIN img.pixels |->
    FlattenSeq(img.pixels[i]) \o [k \in 1..Padding(img.width) |-> 0]])

\* A size below zero is a huge size_t, and resize throws
Readable(file) == file.bits = BitsPerPixel /\ file.width >= 0 /\ file.height >= 0

\* What is read from a file.  Nobody looks whether the headers were read: those
\* that were not hold what was in the memory of the BMPStream.
Contents(file) == IF file = Headless THEN Leftovers ELSE {file}

\* Files are opened for reading and writing at once
Opens(name) == name \in DOMAIN files \ (Unwritable \cup Unreadable)

\* The size fields WriteBmp leaves: image_size counts pixels, and size follows
HeaderOf(h, img) ==
  LET pixels == (img.width * img.height) % Word
  IN  [size |-> (h.size - h.imageSize + pixels) % Word, imageSize |-> pixels]

SetImageHeight(img, height) ==
  [img EXCEPT !.height = height,
     !.pixels = [i \in 1..height |-> IF i \in DOMAIN @ THEN @[i] ELSE <<>>]]

SetImageWidth(img, width) ==
  [img EXCEPT !.width = width,
     !.pixels = [i \in DOMAIN @ |-> [j \in 1..width |->
                   IF j \in DOMAIN @[i] THEN @[i][j] ELSE Black]]]

MapPixels(img, F(_)) ==
  [img EXCEPT !.pixels = [i \in DOMAIN @ |-> [j \in DOMAIN @[i] |-> F(@[i][j])]]]

-----------------------------------------------------------------------------
(* The filters.                                                            *)

Smaller(m, n) == IF m < n THEN m ELSE n

\* nearest_pixel of ApplyMatrix, for a row or a column
Inward(k, n) == IF k > n THEN k - 1 ELSE IF k < 1 THEN k + 1 ELSE k

Clamp(n) == IF n > 255 THEN 255 ELSE IF n < 0 THEN 0 ELSE n

\* The sum of the first n numbers of a list
Total(s, n) ==
  LET sum[k \in 0..n] == IF k = 0 THEN 0 ELSE sum[k - 1] + s[k]
  IN  sum[n]

\* What becomes of num / den when it is converted to a uint8_t
Truncated(num, den) ==
  ((num \div den) + (IF <<num, den>> \in RoundedUp THEN 1 ELSE 0)
                 - (IF <<num, den>> \in RoundedDown THEN 1 ELSE 0)) % 256

ApplyMatrix(img, matrix) ==
  LET Term(i, j, c, di, dj) ==
        matrix[2 + di][2 + dj] *
          img.pixels[Inward(i + di, img.height)][Inward(j + dj, img.width)][c]
      Weighed(i, j, c) ==
        Total([k \in 1..9 |-> Term(i, j, c, ((k - 1) \div 3) - 1, ((k - 1) % 3) - 1)], 9)
  IN  [img EXCEPT !.pixels = [i \in DOMAIN @ |-> [j \in DOMAIN @[i] |->
        [c \in Colours |-> Clamp(Weighed(i, j, c))]]]]

Cross(centre) == <<<<0, -1, 0>>, <<-1, centre, -1>>, <<0, -1, 0>>>>

\* The same thousandths of each colour in all three
Gray(pixel) == [c \in Colours |->
  Truncated(114 * pixel[1] + 587 * pixel[2] + 299 * pixel[3], 1000)]
Negated(pixel) == [c \in Colours |-> 255 - pixel[c]]

Crop(img, params) ==
  LET width  == Smaller(img.width, Value[params[1]])
      height == Smaller(img.height, Value[params[2]])
  IN  [SetImageWidth(SetImageHeight(img, height), width) EXCEPT
         !.pixels = [i \in DOMAIN @ |-> [j \in DOMAIN @[i] |->
           img.pixels[img.height - height + i][j]]]]

EdgeDetection(img, params) ==
  MapPixels(ApplyMatrix(MapPixels(img, Gray), Cross(4)),
            LAMBDA pixel : IF \A c \in Colours : 100 * pixel[c] > 255 * Hundredths[params[1]]
                           THEN White ELSE Black)

\* StdToBox: the radii of three boxes that together are as wide as the Gaussian
\* of a deviation of sigma hundredths; of the two widths lower and lower + 2
\* the first is for the boxes before number m, which is rounded
Boxes(sigma) ==
  LET floor == Max({n \in 1..(1 + Max({sigma, -sigma})) :
                      2500 * n * n <= sigma * sigma + 2500})
      lower == IF floor % 2 = 0 THEN floor - 1 ELSE floor
      num   == 2500 * (3 * lower * lower + 12 * lower + 9) - 3 * sigma * sigma
      den   == 10000 * (lower + 1)
      m     == (2 * num + den) \div (2 * den)
  IN  [i \in 1..3 |-> IF i <= m THEN (lower - 1) \div 2 ELSE (lower + 1) \div 2]

\* The inner loops of HorBlur and TotalBlur: val slides along a row or a column,
\* whose first and last element go on beyond its ends.  The division by the
\* width of the box is left to the end of the filter.
Slide(line, r) ==
  LET n == Len(line)
      Change(j) == line[Smaller(j + r, n)]
                     - (IF j <= r + 1 THEN line[1] ELSE line[j - r - 1])
      first == (r + 1) * line[1] + Total(line, r)
      Added(out, j) ==
        Append(out, (IF out = <<>> THEN first ELSE Last(out)) + Change(j))
      slid[j \in 0..n] == IF j = 0 THEN <<>> ELSE Added(slid[j - 1], j)
  IN  slid[n]

Transposed(rows) ==
  IF rows = <<>> THEN rows
  ELSE [j \in DOMAIN rows[1] |-> [i \in DOMAIN rows |-> rows[i][j]]]

HorBlur(rows, r) ==
  LET out[i \in 0..Len(rows)] ==
        IF i = 0 THEN <<>> ELSE Append(out[i - 1], Slide(rows[i], r))
  IN  out[Len(rows)]
TotalBlur(rows, r) == Transposed(HorBlur(Transposed(rows), r))

\* BoxBlur swaps the two arrays and leaves the result in the one it was to read
\* from, which is by then called out; the second call is given them crossed
BoxBlur(arrays, r) ==
  LET row == HorBlur(arrays.in, r)
  IN  [in |-> row, out |-> TotalBlur(row, r)]
Crossed(arrays) == [in |-> arrays.out, out |-> arrays.in]

FastGaussianBlur(plane, boxes) ==
  LET first  == BoxBlur([in |-> plane, out |-> plane], boxes[1])
      second == Crossed(BoxBlur(Crossed(first), boxes[2]))
  IN  BoxBlur(second, boxes[3]).out

\* What FastGaussianBlur has multiplied every element by
Weight(boxes) ==
  LET w(i) == (2 * boxes[i] + 1) * (2 * boxes[i] + 1) IN w(1) * w(2) * w(3)

Blur(img, params) ==
  LET boxes == Boxes(Hundredths[params[1]])
      Plane(c) == [i \in DOMAIN img.pixels |-> [j \in DOMAIN img.pixels[i] |->
                     img.pixels[i][j][c]]]
      blurred == [c \in Colours |-> FastGaussianBlur(Plane(c), boxes)]
  IN  [img EXCEPT !.pixels = [i \in DOMAIN @ |-> [j \in DOMAIN @[i] |->
        [c \in Colours |-> Truncated(blurred[c][i][j], Weight(boxes))]]]]

\* Blur walks out of its arrays if a box is wider than the image is
Overruns(img, params) ==
  \E r \in ToSet(Boxes(Hundredths[params[1]])) :
    \/ img.height > 0 /\ 2 * r + 1 > img.width
    \/ img.width > 0 /\ 2 * r + 1 > img.height

\* One colour of a pixel under CrossPolynomial, over 25500: the ten
\* coefficients of red come first, then those of green, then those of blue
Polynomial(pixel, c, params) ==
  LET blue == pixel[1]
      green == pixel[2]
      red == pixel[3]
      terms == <<255 * red, 255 * green, 255 * blue, red * red, green * green,
                 blue * blue, red * green, green * blue, blue * red, 255 * 255>>
  IN  Total([i \in 1..10 |-> Hundredths[params[10 * (3 - c) + i]] * terms[i]], 10)

\* A sum above 255 does not fit the uint8_t it is converted to
Overflows(img, params) ==
  \E i \in DOMAIN img.pixels : \E j \in DOMAIN img.pixels[i] :
    \E c \in Colours : Polynomial(img.pixels[i][j], c, params) >= 256 * 25500

CrossPolynomial(pixel, params) ==
  [c \in Colours |-> Truncated(Polynomial(pixel, c, params), 25500)]

Share(param) == param \in DOMAIN Hundredths /\ Hundredths[param] \in 0..100

\* FilterFactory::CreateFilter gives a filter and not nullptr
Accepts(fs) ==
  \/ fs.name = "crop" /\ Len(fs.params) = 2 /\ ToSet(fs.params) \subseteq Digits
  \/ fs.name \in {"gs", "neg", "sharp"} /\ fs.params = <<>>
  \/ fs.name = "edge" /\ Len(fs.params) = 1 /\ Share(fs.params[1])
  \/ fs.name = "blur" /\ Len(fs.params) = 1 /\ fs.params[1] \in DOMAIN Hundredths
  \/ fs.name = "crosspoly" /\ Len(fs.params) = 30
       /\ \A k \in DOMAIN fs.params : Share(fs.params[k])

\* std::stoi throws when the filter is applied
Throws(fs) == fs.name = "crop" /\ ~ (ToSet(fs.params) \subseteq DOMAIN Value)

\* The filter is not defined on the image
Undefined(fs, img) ==
  \/ fs.name = "blur" /\ Overruns(img, fs.params)
  \/ fs.name = "crosspoly" /\ Overflows(img, fs.params)

ApplyFilter(fs, img) ==
  CASE fs.name = "crop"  -> Crop(img, fs.params)
    [] fs.name = "gs"    -> MapPixels(img, Gray)
    [] fs.name = "neg"   -> MapPixels(img, Negated)
    [] fs.name = "sharp" -> ApplyMatrix(img, Cross(5))
    [] fs.name = "edge"  -> EdgeDetection(img, fs.params)
    [] fs.name = "blur"  -> Blur(img, fs.params)
    [] fs.name = "crosspoly" ->
         MapPixels(img, LAMBDA pixel : CrossPolynomial(pixel, fs.params))

-----------------------------------------------------------------------------
(* CommandLineParser::Parse.  An argument is [dash, text]: one that begins  *)
(* with a dash is a filter, and the others are parameters of the last one. *)

Parse(args) ==
  LET Added(fs, arg) ==
        IF arg.dash THEN Append(fs, [name |-> arg.text, params |-> <<>>])
        ELSE [fs EXCEPT ![Len(fs)].params = Append(@, arg.text)]
      parsed[n \in 0..Len(args)] ==
        IF n = 0 THEN <<>> ELSE Added(parsed[n - 1], args[n])
  IN  parsed[Len(args)]

\* A parameter comes before the first filter
ParseThrows(args) == args # <<>> /\ ~ args[1].dash

-----------------------------------------------------------------------------
(* main.                                                                   *)

Init ==
  /\ \E picture \in Pictures \cup {Headless} : files = [name \in Present |-> picture]
  /\ pc = "idle" /\ exit = "none" /\ runs = 0
  /\ input = CHOOSE name \in Names : TRUE
  /\ output = input
  /\ filters = <<>> /\ todo = <<>>
  /\ header = NoHeader /\ image = NoImage /\ loaded = NoImage
  /\ spoilt = FALSE /\ before = files /\ shown = <<>>

Return(how) == pc' = "idle" /\ exit' = how

\* The program is started, and parses its command line
Start(in, out, args) ==
  /\ pc = "idle" /\ runs < MaxRuns
  /\ runs' = runs + 1 /\ before' = files
  /\ input' = in /\ output' = out
  /\ IF ParseThrows(args)
     THEN Return("error") /\ filters' = <<>>
     ELSE pc' = "read" /\ exit' = "none" /\ filters' = Parse(args)
  /\ header' = NoHeader /\ image' = NoImage /\ loaded' = NoImage
  /\ todo' = <<>> /\ spoilt' = FALSE
  /\ UNCHANGED <<files, shown>>

\* A variant of ReadBmp: the output file is created before the input is read
ReadBmpCreating ==
  /\ pc = "read"
  /\ files' = Put(files, output, Headless)
  /\ IF Opens(input) /\ Readable(files[input])
     THEN /\ image' = ReadRGBData(files[input]) /\ loaded' = image'
          /\ pc' = "create" /\ UNCHANGED exit
     ELSE Return("error") /\ UNCHANGED <<image, loaded>>
  /\ UNCHANGED <<input, output, filters, header, todo, runs, spoilt, before, shown>>

\* BMPStream::Open, ReadBmp and Close on the input file, and the Image.  A wrong
\* signature changes nothing, as ReadBmp catches the exception it gives.
ReadBmp ==
  /\ pc = "read"
  /\ \/ /\ Opens(input)
        /\ \E file \in Contents(files[input]) :
             /\ Readable(file)
             /\ header' = [size |-> file.size, imageSize |-> file.imageSize]
             /\ image' = ReadRGBData(file) /\ loaded' = image'
        /\ pc' = "create" /\ UNCHANGED exit
     \/ /\ Opens(input) => \E file \in Contents(files[input]) : ~ Readable(file)
        /\ Return("error") /\ UNCHANGED <<header, image, loaded>>
  /\ UNCHANGED <<files, input, output, filters, todo, runs, spoilt, before, shown>>

CreateFilters ==
  /\ pc = "create"
  /\ IF \A i \in DOMAIN filters : Accepts(filters[i])
     THEN pc' = "apply" /\ todo' = filters /\ UNCHANGED exit
     ELSE Return("error") /\ UNCHANGED todo
  /\ UNCHANGED <<files, input, output, filters, header, image, runs, loaded,
                 spoilt, before, shown>>

\* One filter of Pipeline::Apply.  Nothing catches what it throws.
Apply ==
  /\ pc = "apply" /\ todo # <<>>
  /\ ~ Undefined(Head(todo), image)
  /\ IF Throws(Head(todo))
     THEN Return("terminated") /\ UNCHANGED <<image, todo>>
     ELSE /\ image' = ApplyFilter(Head(todo), image) /\ todo' = Tail(todo)
          /\ UNCHANGED <<pc, exit>>
  /\ UNCHANGED <<files, input, output, filters, header, runs, loaded, spoilt,
                 before, shown>>

\* One that is not defined on the image: the program goes down, or goes on with
\* pixels nobody can tell
ApplySpoils ==
  /\ pc = "apply" /\ todo # <<>>
  /\ Undefined(Head(todo), image)
  /\ spoilt' = TRUE
  /\ \/ Return("terminated") /\ UNCHANGED <<image, todo>>
     \/ /\ \E pixel \in {Black, White} :
             image' = MapPixels(image, LAMBDA p : pixel)
        /\ todo' = Tail(todo) /\ UNCHANGED <<pc, exit>>
  /\ UNCHANGED <<files, input, output, filters, header, runs, loaded, before,
                 shown>>

\* What is shown once nothing is known of one file
Without(name) == [n \in DOMAIN shown \ {name} |-> shown[n]]

\* The std::ofstream of main: the output file is created, or the one that is
\* there is emptied.  Nobody looks whether it could be.
CreateOutput ==
  /\ pc = "apply" /\ todo = <<>>
  /\ pc' = "write"
  /\ IF output \in Unwritable
     THEN UNCHANGED <<files, shown>>
     ELSE files' = Put(files, output, Headless) /\ shown' = Without(output)
  /\ UNCHANGED <<input, output, filters, header, image, todo, exit, runs, loaded,
                 spoilt, before>>

\* The file that BMPStream::WriteBmp writes, given its headers
Written(h) == [bits |-> BitsPerPixel, width |-> image.width, height |-> image.height,
               size |-> h.size, imageSize |-> h.imageSize, data |-> WriteRGBData(image)]

\* BMPStream::Open, WriteBmp and Close on the output file
WriteBmp ==
  /\ pc = "write"
  /\ IF Opens(output)
     THEN /\ header' = HeaderOf(header, image)
          /\ files' = Put(files, output, Written(header'))
          /\ shown' = Put(shown, output, image)
          /\ Return("success")
     ELSE Return("error") /\ UNCHANGED <<files, header, shown>>
  /\ UNCHANGED <<input, output, filters, image, todo, runs, loaded, spoilt,
                 before>>

\* The same when the device takes no more in the headers or in the pixels.
\* Nobody looks whether the writes fail, and the program returns 0 all the same.
WriteBmpCut ==
  /\ pc = "write" /\ Opens(output)
  /\ header' = HeaderOf(header, image)
  /\ \/ files' = Put(files, output, Headless)
     \/ \E n \in CutAt :
          /\ n < Len(WriteRGBData(image))
          /\ files' = Put(files, output,
                          [Written(header') EXCEPT !.data = SubSeq(@, 1, n)])
  /\ shown' = Without(output)
  /\ Return("success")
  /\ UNCHANGED <<input, output, filters, image, todo, runs, loaded, spoilt,
                 before>>

Next ==
  \/ \E in, out \in Names, args \in CommandLines : Start(in, out, args)
  \/ ReadBmp \/ CreateFilters \/ Apply \/ ApplySpoils
  \/ CreateOutput \/ WriteBmp \/ WriteBmpCut

Spec == Init /\ [][Next]_vars

-----------------------------------------------------------------------------
(* Properties.                                                             *)

IsImage(img) ==
  /\ img.width \in Nat /\ img.height \in Nat
  /\ Len(img.pixels) = img.height
  /\ \A i \in DOMAIN img.pixels :
       /\ Len(img.pixels[i]) = img.width
       /\ \A j \in DOMAIN img.pixels[i] : img.pixels[i][j] \in [Colours -> Byte]

\* Every variable has its type.  An image always has as many rows, and each row
\* as many pixels, as the sizes that Image keeps apart from them say, through
\* crops to nothing and reads of short files; and every colour is a byte.
TypeOK ==
  /\ DOMAIN files \subseteq Names
  /\ \A name \in DOMAIN files : ToSet(files[name].data) \subseteq Byte
  /\ pc \in {"idle", "read", "create", "apply", "write"}
  /\ exit \in {"none", "success", "error", "terminated"}
  /\ input \in Names /\ output \in Names
  /\ header \in [size : 0..(Word - 1), imageSize : 0..(Word - 1)]
  /\ IsImage(image) /\ IsImage(loaded) /\ spoilt \in BOOLEAN
  /\ runs \in 0..MaxRuns
  /\ DOMAIN shown \subseteq DOMAIN files

\* What a run wrote with no write failing is what the next run reads: the padding
\* of the rows, the sizes in the header and the order of the rows agree in
\* ReadRGBData and WriteRGBData, which compute them apart, whatever the sizes of
\* the image.  The two size fields stay as far apart as they were in the first
\* picture (or in headers nobody filled in): no run adds to what it takes for the
\* rest of the file.
ReadsBack ==
  \A name \in DOMAIN shown :
    /\ Readable(files[name]) /\ ReadRGBData(files[name]) = shown[name]
    /\ \E picture \in Pictures \cup Leftovers :
         (files[name].size - files[name].imageSize) % Word
           = (picture.size - picture.imageSize) % Word

\* A run that does not succeed leaves every file as it was, with one exception:
\* if its filters have all been applied and its output can be written but not
\* read, the output is left empty, as main creates it (line 68 says: if there is
\* none yet) before BMPStream opens it for both.  A bad command line, an input
\* that cannot be read, a filter that cannot be created and one that throws cost
\* no file, and nothing costs the input, which may be the output as well.
FailureLosesOutputOnly ==
  exit \in {"error", "terminated"} /\ files # before =>
    /\ exit = "error" /\ todo = <<>>
    /\ output \in Unreadable \ Unwritable /\ output # input
    /\ files = Put(before, output, Headless)

\* The inductive invariant behind it.  A run has written nothing until all its
\* filters are applied, and the file that it read can be opened again.
NothingWritten ==
  /\ pc # "idle" => exit = "none"
  /\ pc \in {"read", "create", "apply"} => files = before
  /\ pc \in {"create", "apply", "write"} => input \notin Unwritable \cup Unreadable
  /\ pc = "write" =>
       /\ todo = <<>>
       /\ files = IF output \in Unwritable THEN before
                  ELSE Put(before, output, Headless)

-----------------------------------------------------------------------------
(* What the filters are for, on the picture as it is seen: pixel <<x, y>>   *)
(* of a picture is y rows below its highest.                               *)

Seen(img) == [width |-> img.width, height |-> img.height,
              at |-> [p \in (1..img.width) \X (1..img.height) |->
                        img.pixels[img.height + 1 - p[2]][p[1]]]]

Distance(k, n) == IF k > n THEN k - n ELSE n - k

\* The element of 1..n that is nearest to k
Nearest(k, n) == CHOOSE m \in 1..n : \A o \in 1..n : Distance(k, m) <= Distance(k, o)

\* centre times a pixel, less the four nearest to its sides, within a byte
Contrast(seen, centre) ==
  [seen EXCEPT !.at = [p \in DOMAIN @ |-> [c \in Colours |->
    LET At(x, y) == seen.at[<<Nearest(x, seen.width), Nearest(y, seen.height)>>][c]
        x == p[1]
        y == p[2]
        sum == centre * At(x, y)
                 - At(x - 1, y) - At(x + 1, y) - At(x, y - 1) - At(x, y + 1)
    IN  Max({0, Min({255, sum})})]]]

OnSeen(seen, F(_)) == [seen EXCEPT !.at = [p \in DOMAIN @ |-> F(@[p])]]

\* Every pixel is three times over the mean of the square around it; where the
\* square leaves the picture its nearest pixels count
Smoothed(seen, boxes) ==
  LET Around(at, p, dx, dy) ==
        at[<<Nearest(p[1] + dx, seen.width), Nearest(p[2] + dy, seen.height)>>]
      Sums(at, r) ==
        LET n == 2 * r + 1
        IN  [p \in DOMAIN at |-> [c \in Colours |->
              Total([k \in 1..n |->
                Total([l \in 1..n |-> Around(at, p, l - r - 1, r + 1 - k)[c]], n)], n)]]
      sums == Sums(Sums(Sums(seen.at, boxes[1]), boxes[2]), boxes[3])
  IN  [seen EXCEPT !.at = [p \in DOMAIN @ |-> [c \in Colours |->
        Truncated(sums[p][c], Weight(boxes))]]]

Promised(fs, seen) ==
  CASE fs.name = "crop" ->
         LET width  == Min({seen.width, Value[fs.params[1]]})
             height == Min({seen.height, Value[fs.params[2]]})
         IN  [width |-> width, height |-> height,
              at |-> [p \in (1..width) \X (1..height) |-> seen.at[p]]]
    [] fs.name = "gs"    -> OnSeen(seen, Gray)
    [] fs.name = "neg"   -> OnSeen(seen, Negated)
    [] fs.name = "sharp" -> Contrast(seen, 5)
    [] fs.name = "edge"  ->
         OnSeen(Contrast(OnSeen(seen, Gray), 4), LAMBDA p :
           IF \A c \in Colours : 100 * p[c] > 255 * Hundredths[fs.params[1]]
           THEN White ELSE Black)
    [] fs.name = "blur"  -> Smoothed(seen, Boxes(Hundredths[fs.params[1]]))
    [] fs.name = "crosspoly" ->
         OnSeen(seen, LAMBDA p : CrossPolynomial(p, fs.params))

\* What is promised of the filters fs of a command line, one after the other
PromisedOf(fs, seen) ==
  LET promised[n \in 0..Len(fs)] ==
        IF n = 0 THEN seen ELSE Promised(fs[n], promised[n - 1])
  IN  promised[Len(fs)]

\* The image that is written is the image that was read with the filters of the
\* command line applied in their order: a crop keeps the upper left of what the
\* filters before it left, and a filter with a matrix takes, for every pixel, the
\* old values of its neighbours, at the edges of images of any size the nearest;
\* the sums that a blur slides over rows and columns, from one array to the other
\* and back, are those of the squares around the pixels.  (Nothing is promised
\* once a box is wider than the image, or a polynomial exceeds a byte.)
FilteredAsAsked ==
  exit = "success" /\ ~ spoilt =>
    Seen(image) = PromisedOf(filters, Seen(loaded))

=============================================================================
