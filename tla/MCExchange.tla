------------------------------ MODULE MCExchange ------------------------------
(***************************************************************************)
(* Exchange for TLC, with the sizes of the code.  Every kind of request,   *)
(* with arguments at and around the ends of the memories and of a byte.    *)
(***************************************************************************)
EXTENDS Exchange

Req(ops, as, bs) == [op : ops, a : as, b : bs, payload : {<<>>}]

PlainOps == Req(Plain \cup {"FIRMWARE"}, {0}, {0})
MaskedOps == Req(Masked, {0, 16777215}, {66051})
BlinkOps == Req({"BLINKLED"}, {0, 255}, {0})
ReadOps == Req(MemRead, {0, 14, 15, 255, 3823}, {0, 1, 2, 16})
LongReads == Req({"BOOT_MEM_R"}, {0}, {31, 300})
WriteOps == [op : MemWrite, a : {0, 65535}, b : {0}, payload : {<<>>, <<0>>, <<255, 255>>}]

AllOps == PlainOps \cup MaskedOps \cup BlinkOps \cup ReadOps \cup LongReads \cup WriteOps
FewOps == Req({"DIN_R", "CONF_MEM_R", "RESET", "BLINKLED"}, {14, 15}, {1})
NoLines == {}

(* Lines as in testcmds.txt. *)
Ln(words, x, y, payload) == [word : words, x : {x}, y : {y}, payload : {payload}]
ScriptLines ==
    Ln(DOMAIN PlainWords, 0, 0, <<>>) \cup Ln(DOMAIN ReadWords, 18, 57, <<>>)
      \cup Ln({"ConfigMemoryR"}, 1, 5, <<>>) \cup Ln({"SettingsMemoryR"}, 31, 1, <<>>)
      \cup Ln({"DOutW", "DConfigW"}, 255, 49, <<>>) \cup Ln({"BlinkLED"}, 1, 0, <<>>)
      \cup Ln({"ConfigMemoryW", "SettingsMemoryW", "BootloaderMemoryW"}, 18, 0, <<49, 57, 36>>)
      \cup Ln({"UserMemoryR"}, 291, 21, <<>>)
=============================================================================
