-------------------------- MODULE MCFirmwareUpdate --------------------------
(***************************************************************************)
(* Constants for the run of FirmwareUpdate: a memory of four blocks of two *)
(* bytes, chips of half of it and all of it, and files that have every     *)
(* kind of line.                                                           *)
(***************************************************************************)
EXTENDS FirmwareUpdate

Line(code, addr, data, base, sum) ==
    [frame |-> TRUE, code |-> code, addr |-> addr, data |-> data, base |-> base, sum |-> sum]
Data(addr, data) == Line(0, addr, data, 0, TRUE)
Base(code, base, sum) == Line(code, 0, <<0, 0>>, base, sum)
EndRecord == Line(1, 0, <<>>, 0, TRUE)
Garbage == [EndRecord EXCEPT !.frame = FALSE]

MCFiles == {
    \* two lines over one block, a base replaced by another, and a line after
    \* the end
    <<Data(2, <<3, 4>>), Base(4, 3, TRUE), Data(0, <<5>>), Base(2, 1, TRUE), Data(0, <<2>>),
      EndRecord, Data(0, <<9>>)>>,
    \* a base with a wrong sum is ignored, and so is a line of another kind; no
    \* end record, and the last byte the reader accepts
    <<Base(2, 4, FALSE), Line(3, 0, <<0, 0>>, 2, TRUE), Data(0, <<1>>), Data(5, <<6, 7>>)>>,
    \* a wrong sum, a line over the end of the memory, and no line at all
    <<Data(0, <<1>>), Line(0, 1, <<2>>, 0, FALSE), EndRecord>>,
    <<Base(2, 4, TRUE), Data(2, <<1, 1>>), EndRecord>>,
    <<Data(0, <<4>>), Garbage>>,
    \* a line across the last address
    <<Base(4, 9, TRUE), Data(0, <<6, 7>>), EndRecord>>}
MCChips == {4, 8}
MCStrays == {1, 6}
=============================================================================
