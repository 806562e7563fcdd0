------------------------------ MODULE MCI2cBus ------------------------------
(* Message lists of the tree's callers, with short buffers.                *)
EXTENDS I2cBus

W(n) == [rd |-> FALSE, nostart |-> FALSE, len |-> n]
Wn(n) == [rd |-> FALSE, nostart |-> TRUE, len |-> n]
R(n) == [rd |-> TRUE, nostart |-> FALSE, len |-> n]
Rn(n) == [rd |-> TRUE, nostart |-> TRUE, len |-> n]

(* Plain writes and reads, register reads with a stop (kxte9_read_data)    *)
(* and with a repeated start (wmt_i2c_xfer_continue_if_4), and longer      *)
(* combinations in which the restart flag survives a message; and the      *)
(* write of no bytes that i2c_default_probe sends, the quick command of    *)
(* i2c_smbus_xfer.                                                         *)
Mixed == {<<W(1)>>, <<W(3)>>, <<R(1)>>, <<R(3)>>, <<W(1), R(2)>>,
          <<Wn(1), R(2)>>, <<Wn(2), R(1)>>, <<Rn(2), R(1)>>,
          <<Wn(1), Rn(1), W(1)>>, <<W(1), W(2)>>, <<W(0)>>, <<W(1), W(0)>>}

(* Register reads: every request ends with a read.                         *)
Reads == {<<R(1)>>, <<R(2)>>, <<W(1), R(2)>>, <<Wn(1), R(3)>>}

(* With requests that end with a write.                                    *)
WithWrites == {<<W(1)>>, <<W(1), R(3)>>}
=============================================================================
