------------------------------- MODULE MultRs -------------------------------
(***************************************************************************)
(* The MULTI implementation in its build without CUDA:                     *)
(* multi_rs_soft_gen_syndrome() with mult_gf() and its tables, for one     *)
(* byte of each disk.  Check row y is the sum of y^(d+1) * data[d]; the    *)
(* code multiplies by adding logarithms in an unsigned char.               *)
(*                                                                         *)
(* Both tables have 255 entries, as setup_tables() of the prototype prints *)
(* them: the logarithm of 255 is whatever byte follows the table.          *)
(***************************************************************************)
EXTENDS Sequences, Gf256

CONSTANTS
  DataBytes,   \* the bytes that occur on the data disks
  HighDisks,   \* the numbers of data disks
  LogBeyond    \* what may be read as gflog[255]

ASSUME RsAssumption ==
  /\ DataBytes \subseteq 0 .. 255
  /\ HighDisks \subseteq Nat \ {0}
  /\ LogBeyond \subseteq 0 .. 255

VARIABLES
  column,      \* the byte of each data disk, <<>>: no call in progress
  beyond,      \* the byte behind gflog
  d,           \* data disk of the inner loop
  matrix_pos_x,
  check,       \* the check bytes begun so far; the last is the current row
  exact        \* history: in this row no sum of logarithms has overflowed

rsVars == <<column, beyond, d, matrix_pos_x, check, exact>>

CHECK_SYMBOLS == 4
matrix_pos_y == Len(check)
high_disk == Len(column)

-----------------------------------------------------------------------------
(* Tables and multiplication                                                *)

gflog_bytes ==
  <<0, 0, 1, 25, 2, 50, 26, 198, 3, 223, 51, 238, 27, 104, 199, 75, 4, 100, 224, 14, 52, 141,
    239, 129, 28, 193, 105, 248, 200, 8, 76, 113, 5, 138, 101, 47, 225, 36, 15, 33, 53, 147,
    142, 218, 240, 18, 130, 69, 29, 181, 194, 125, 106, 39, 249, 185, 201, 154, 9, 120, 77, 228,
    114, 166, 6, 191, 139, 98, 102, 221, 48, 253, 226, 152, 37, 179, 16, 145, 34, 136, 54, 208,
    148, 206, 143, 150, 219, 189, 241, 210, 19, 92, 131, 56, 70, 64, 30, 66, 182, 163, 195, 72,
    126, 110, 107, 58, 40, 84, 250, 133, 186, 61, 202, 94, 155, 159, 10, 21, 121, 43, 78, 212,
    229, 172, 115, 243, 167, 87, 7, 112, 192, 247, 140, 128, 99, 13, 103, 74, 222, 237, 49, 197,
    254, 24, 227, 165, 153, 119, 38, 184, 180, 124, 17, 68, 146, 217, 35, 32, 137, 46, 55, 63,
    209, 91, 149, 188, 207, 205, 144, 135, 151, 178, 220, 252, 190, 97, 242, 86, 211, 171, 20,
    42, 93, 158, 132, 60, 57, 83, 71, 109, 65, 162, 31, 45, 67, 216, 183, 123, 164, 118, 196,
    23, 73, 236, 127, 12, 111, 246, 108, 161, 59, 82, 41, 157, 85, 170, 251, 96, 134, 177, 187,
    204, 62, 90, 203, 89, 95, 176, 156, 169, 160, 81, 11, 245, 22, 235, 122, 117, 44, 215, 79,
    174, 213, 233, 230, 231, 173, 232, 116, 214, 244, 234, 168, 80, 88>>

gfilog_bytes ==
  <<1, 2, 4, 8, 16, 32, 64, 128, 29, 58, 116, 232, 205, 135, 19, 38, 76, 152, 45, 90, 180, 117,
    234, 201, 143, 3, 6, 12, 24, 48, 96, 192, 157, 39, 78, 156, 37, 74, 148, 53, 106, 212, 181,
    119, 238, 193, 159, 35, 70, 140, 5, 10, 20, 40, 80, 160, 93, 186, 105, 210, 185, 111, 222,
    161, 95, 190, 97, 194, 153, 47, 94, 188, 101, 202, 137, 15, 30, 60, 120, 240, 253, 231, 211,
    187, 107, 214, 177, 127, 254, 225, 223, 163, 91, 182, 113, 226, 217, 175, 67, 134, 17, 34,
    68, 136, 13, 26, 52, 104, 208, 189, 103, 206, 129, 31, 62, 124, 248, 237, 199, 147, 59, 118,
    236, 197, 151, 51, 102, 204, 133, 23, 46, 92, 184, 109, 218, 169, 79, 158, 33, 66, 132, 21,
    42, 84, 168, 77, 154, 41, 82, 164, 85, 170, 73, 146, 57, 114, 228, 213, 183, 115, 230, 209,
    191, 99, 198, 145, 63, 126, 252, 229, 215, 179, 123, 246, 241, 255, 227, 219, 171, 75, 150,
    49, 98, 196, 149, 55, 110, 220, 165, 87, 174, 65, 130, 25, 50, 100, 200, 141, 7, 14, 28, 56,
    112, 224, 221, 167, 83, 166, 81, 162, 89, 178, 121, 242, 249, 239, 195, 155, 43, 86, 172,
    69, 138, 9, 18, 36, 72, 144, 61, 122, 244, 245, 247, 243, 251, 235, 203, 139, 11, 22, 44,
    88, 176, 125, 250, 233, 207, 131, 27, 54, 108, 216, 173, 71, 142>>

gflog(a) == IF a < 255 THEN gflog_bytes[a + 1] ELSE beyond
gfilog(a) == gfilog_bytes[a + 1]

\* a ^ b
Xor(a, b) == Value(Plus(Polynomial(a), Polynomial(b)))

\* setup_tables(): b runs through the powers of x modulo 0435 (octal); bit 8
\* of the shifted b and that of 0435 cancel.
NextPower(b) == IF 2 * b >= 256 THEN Xor(2 * b - 256, 29) ELSE 2 * b

\* The tables in the code are what setup_tables() generates: the powers of
\* two and, inversely, their exponents.  TLC computes this once.
ASSUME TablesGenerated ==
  /\ gfilog_bytes[1] = 1
  /\ \A log \in 0 .. 253 : gfilog_bytes[log + 2] = NextPower(gfilog_bytes[log + 1])
  /\ \A a \in 1 .. 254 :
       gflog_bytes[a + 1] \in 0 .. 254 /\ gfilog_bytes[gflog_bytes[a + 1] + 1] = a

\* Mutant: a sum of exactly 255 is not reduced; a zero follows gfilog.
mult_gfStrict(a, b) ==
  IF a = 0 \/ b = 0 THEN 0
  ELSE LET sum == (gflog(a) + gflog(b)) % 256
       IN  IF sum = 255 THEN 0 ELSE gfilog(sum)

\* sum is an unsigned char: it is reduced modulo 256 before modulo 255.
mult_gf(a, b) ==
  IF a = 0 \/ b = 0 THEN 0
  ELSE LET sum == (gflog(a) + gflog(b)) % 256
       IN  gfilog(IF sum >= 255 THEN sum - 255 ELSE sum)

-----------------------------------------------------------------------------
(* multi_rs_soft_gen_syndrome(), one round of the loop over the bytes       *)

RsInit ==
  /\ column = <<>> /\ check = <<>>
  /\ beyond = 0 /\ d = 0 /\ matrix_pos_x = 0 /\ exact = TRUE

\* matrix_pos_y++, dptrs[j][i] = 0
BeginRow ==
  /\ check' = Append(check, 0)
  /\ matrix_pos_x' = matrix_pos_y + 1
  /\ d' = 1
  /\ exact' = TRUE

RsCall(bytes, behind) ==
  /\ column = <<>>
  /\ column' = bytes
  /\ beyond' = behind
  /\ BeginRow

\* The sum of logarithms fits, so that the result is the product.
Fits(a, b) == a = 0 \/ b = 0 \/ (a < 255 /\ b < 255 /\ gflog(a) + gflog(b) <= 255)

\* One round of the inner loop.  (Data disks are counted from 1 here.)
Round ==
  /\ column # <<>>
  /\ d <= high_disk
  /\ check' = [check EXCEPT ![matrix_pos_y] = Xor(@, mult_gf(matrix_pos_x, column[d]))]
  /\ matrix_pos_x' = mult_gf(matrix_pos_x, matrix_pos_y)
  /\ d' = d + 1
  /\ exact' = (exact /\ Fits(matrix_pos_x, column[d]) /\ Fits(matrix_pos_x, matrix_pos_y))
  /\ UNCHANGED <<column, beyond>>

NextRow ==
  /\ column # <<>> /\ d > high_disk
  /\ matrix_pos_y < CHECK_SYMBOLS
  /\ BeginRow
  /\ UNCHANGED <<column, beyond>>

\* All check bytes of this column are stored.
RsReturn ==
  /\ matrix_pos_y = CHECK_SYMBOLS /\ d > high_disk
  /\ column' = <<>> /\ check' = <<>>
  /\ beyond' = 0 /\ d' = 0 /\ matrix_pos_x' = 0 /\ exact' = TRUE

RsNext ==
  \/ \E n \in HighDisks : \E bytes \in [1 .. n -> DataBytes] :
       \E behind \in LogBeyond : RsCall(bytes, behind)
  \/ Round
  \/ NextRow
  \/ RsReturn

RsSpec == RsInit /\ [][RsNext]_rsVars

-----------------------------------------------------------------------------
(* Properties                                                               *)

\* What the current row should be: the sum of y^k * the byte of data disk k.
RowSum ==
  Sum([k \in 1 .. high_disk |-> Mul(Power[k][Polynomial(matrix_pos_y)], Polynomial(column[k]))])

\* A check byte is the Reed-Solomon sum of its row whenever no sum of
\* logarithms in that row was above 255 and no byte was 255: the tables are
\* right, a sum of exactly 255 is reduced, and the factors of the row are
\* the powers of its number.
RowsExact ==
  column # <<>> /\ d > high_disk /\ exact => Polynomial(check[matrix_pos_y]) = RowSum

-----------------------------------------------------------------------------
(* What the documentation says and the code does not do                     *)

\* "This function implements multiplication": every check byte is the
\* Reed-Solomon sum of its row, whatever the data.  In fact mult_gf() returns
\* half of the product whenever the sum of the logarithms overflows the
\* unsigned char.
CheckBytesExact ==
  column # <<>> /\ d > high_disk => Polynomial(check[matrix_pos_y]) = RowSum
=============================================================================
