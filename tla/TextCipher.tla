------------------------------- MODULE TextCipher -------------------------------
(* Comp 206/ASS2/cipher.c: a text is typed into a square matrix; to encrypt it is
   to rotate its letters and transpose it, to decrypt it is to rotate them back
   and transpose it again. The menu allows any order. Of the two alphabets there
   is one, the other is treated alike. *)
EXTENDS Integers, Sequences, FiniteSetsExt

CONSTANTS Side,         \* of the matrix: 50
          Letters,      \* of the alphabet: 26
          Typed,        \* characters that are typed
          Numbers,      \* numbers that are asked for
          MaxTurns      \* bound: how often a text is encrypted or decrypted

ASSUME CipherAssumption == (Side \in Nat) /\ Side > 1 /\ Letters \in Nat \ {0}

VARIABLES matrix,       \* the matrix
          text,         \* history: the lines typed
          turns,        \* history: how often it was transposed since
          shift,        \* history: how far the letters are rotated
          sane          \* history: no negative number was used to encrypt

cipherVars == <<matrix, text, turns, shift, sane>>

Null == 0
Blank == 1
LetterA == 10
IsLetter(c) == c \in LetterA..(LetterA + Letters - 1)
Cell == 0..(Side - 1)

(* The % of C takes the sign of its left side. *)
Rem(a, b) == IF a >= 0 THEN a % b ELSE -((-a) % b)

Initialised == [i \in Cell |-> [j \in Cell |-> IF j = 0 THEN Null ELSE Blank]]
EmptyLine(m, i) == m[i][0] = Null
ColumnIsEmpty(m, col) == \A i \in Cell : m[i][col] \in {Null, Blank}

(* The first of some indices, or Side. *)
FirstOrSize(indices) == Min(indices \cup {Side})

(* Columns become lines up to the first blank one; a line has as many characters
   as there are lines before the first empty one, and a Null if there is room,
   though not in the last place. *)
Transposed(m) ==
    LET width == FirstOrSize({i \in Cell : ColumnIsEmpty(m, i)})
        height == FirstOrSize({j \in Cell : EmptyLine(m, j)})
        char(i, j) == IF j < height
                      THEN IF m[j][i] = Null THEN Blank ELSE m[j][i]
                      ELSE IF j = height /\ j < Side - 1 THEN Null ELSE Initialised[i][j]
    IN [i \in Cell |-> IF i < width THEN [j \in Cell |-> char(i, j)] ELSE Initialised[i]]

EncryptChar(c, number) ==
    IF IsLetter(c) THEN Rem(c - LetterA + Rem(number, Letters), Letters) + LetterA ELSE c
DecryptBelow(c, number) ==
    IF IsLetter(c) THEN Rem(c - LetterA - Rem(number, Letters), Letters) + LetterA ELSE c
DecryptChar(c, number) ==
    IF IsLetter(c) THEN Rem(c - LetterA + Letters - Rem(number, Letters), Letters) + LetterA
    ELSE c
--------------------------------------------------------------------------------
CipherInit ==
    /\ matrix = Initialised
    /\ text = <<>>
    /\ turns = 0
    /\ shift = 0
    /\ sane = TRUE

TypedLine == UNION {[1..n -> Typed] : n \in 1..(Side - 1)}

(* More lines than the matrix has would be written behind it. The matrix is
   initialised first, whatever was in it: typing a second text leads nowhere new. *)
InputText ==
    /\ text = <<>>
    /\ \E n \in 1..Side : \E lines \in [1..n -> TypedLine] :
          /\ text' = lines
          /\ matrix' = [i \in Cell |->
                 IF i >= n THEN Initialised[i]
                 ELSE [j \in Cell |-> IF j < Len(lines[i + 1]) THEN lines[i + 1][j + 1]
                                      ELSE IF j = Len(lines[i + 1]) THEN Null ELSE Blank]]
    /\ turns' = 0
    /\ shift' = 0
    /\ sane' = TRUE

Mapped(m, Op(_)) == [i \in Cell |-> [j \in Cell |-> Op(m[i][j])]]

Encrypt(number) ==
    LET rotated(c) == EncryptChar(c, number) IN
    /\ turns < MaxTurns
    /\ matrix' = Transposed(Mapped(matrix, rotated))
    /\ turns' = turns + 1
    /\ sane' = (sane /\ number >= 0)
    /\ shift' = IF sane' THEN (shift + number) % Letters ELSE 0
    /\ UNCHANGED text

Decrypt(number) ==
    LET rotated(c) == DecryptChar(c, number) IN
    /\ turns < MaxTurns
    /\ matrix' = Transposed(Mapped(matrix, rotated))
    /\ turns' = turns + 1
    /\ shift' = IF sane THEN (shift - number) % Letters ELSE 0
    /\ UNCHANGED <<text, sane>>

CipherNext == InputText \/ \E number \in Numbers : Encrypt(number) \/ Decrypt(number)

CipherSpec == CipherInit /\ [][CipherNext]_cipherVars
--------------------------------------------------------------------------------
CipherTypeOK ==
    /\ \A i, j \in Cell : matrix[i][j] \in 0..(LetterA + Letters)
    /\ turns \in 0..MaxTurns
    /\ shift \in 0..(Letters - 1)
    /\ sane \in BOOLEAN

(* A character of the text, blank beside it. *)
InText(i, j) == (i + 1) \in DOMAIN text /\ (j + 1) \in DOMAIN text[i + 1]
TextAt(i, j) == IF InText(i, j) THEN text[i + 1][j + 1] ELSE Blank
Rotated(c) == IF IsLetter(c) THEN LetterA + ((c - LetterA + shift) % Letters) ELSE c

(* What displayMatrix shows in a place, blank where it shows nothing. *)
Shown(i, j) ==
    IF (\E k \in 0..i : EmptyLine(matrix, k)) \/ (\E k \in 0..j : matrix[i][k] = Null)
    THEN Blank ELSE matrix[i][j]

(* No line and no column of the text is blank: transposing stops at one. *)
Solid ==
    \A i, j \in Cell : InText(i, j) =>
        (\E k \in Cell : TextAt(i, k) # Blank) /\ (\E k \in Cell : TextAt(k, j) # Blank)

(* In whatever order a text is encrypted and decrypted, with whatever numbers, what
   is shown is the text, rotated by their sum and transposed if it was done an odd
   number of times: so decrypting with the same number gives back the text, up to
   blanks at the ends of the lines. The program fails to do so for texts with a
   blank line or column, and for negative numbers. *)
Deciphers ==
    (sane /\ text # <<>> /\ Solid) =>
        \A i, j \in Cell :
            Shown(i, j) = Rotated(IF turns % 2 = 0 THEN TextAt(i, j) ELSE TextAt(j, i))
================================================================================
