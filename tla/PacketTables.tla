---------------------------- MODULE PacketTables ----------------------------
(***************************************************************************)
(* The tables of packets.c: the fields of every message between the client *)
(* and its two servers, and the size that the table gives for the message  *)
(* in memory (MsgFormat.unpack_size).  NetConn_DispatchPackets clears and  *)
(* fills that much of a PacketBuffer; SendPacket and the handlers assert   *)
(* that their structs have that size.                                      *)
(*                                                                         *)
(* M(n, fields) is the message whose first field is {TYPE_MSG_HEADER, n}.  *)
(* A definition holds the messages of about 150 lines of the file, from    *)
(* the one in its name on.                                                 *)
(***************************************************************************)
EXTENDS Integers, SequencesExt

\* MsgField, by the Type it has.
Field(type, param) == [type |-> type, param |-> param]

MSG_HEADER(n) == Field("MSG_HEADER", n)
AGENT_ID == Field("AGENT_ID", 0)
FLOAT == Field("FLOAT", 0)
VECT2 == Field("VECT2", 0)
VECT3 == Field("VECT3", 0)
BYTE == Field("BYTE", 0)
WORD == Field("WORD", 0)
DWORD == Field("DWORD", 0)
BLOB(n) == Field("BLOB", n)
STRING_16(n) == Field("STRING_16", n)
ARRAY_8(n) == Field("ARRAY_8", n)
ARRAY_16(n) == Field("ARRAY_16", n)
ARRAY_32(n) == Field("ARRAY_32", n)
NESTED_STRUCT(n) == Field("NESTED_STRUCT", n)

M(n, fields) == <<MSG_HEADER(n)>> \o fields

-----------------------------------------------------------------------------
(* The messages, and MsgFormat.unpack_size of each.                        *)

AuthClientFrom0 == <<
  M(0, <<DWORD>>), M(1, <<STRING_16(32), STRING_16(32)>>), M(2, <<DWORD, BLOB(16)>>),
  M(3, <<DWORD, STRING_16(64), BLOB(20), STRING_16(26)>>), M(4, <<>>),
  M(5, <<DWORD, DWORD, BLOB(20), BLOB(20), STRING_16(64)>>), M(6, <<DWORD, DWORD>>),
  M(7, <<DWORD, STRING_16(20)>>), M(8, <<DWORD, STRING_16(20)>>),
  M(9, <<DWORD, STRING_16(20), ARRAY_8(64)>>), M(10, <<DWORD, STRING_16(20)>>),
  M(11, <<DWORD, DWORD, DWORD, DWORD>>), M(12, <<DWORD, DWORD, BLOB(16)>>), M(13, <<DWORD>>),
  M(14, <<DWORD>>), M(15, <<>>), M(16, <<DWORD>>), M(17, <<STRING_16(256)>>), M(18, <<>>),
  M(19, <<>>), M(20, <<DWORD, DWORD, STRING_16(64), STRING_16(64), STRING_16(256)>>),
  M(21, <<DWORD>>), M(22, <<DWORD>>), M(23, <<DWORD>>), M(24, <<DWORD, STRING_16(64)>>) >>

AuthClientFrom25 == <<
  M(25, <<DWORD, DWORD, BLOB(20), BLOB(20)>>),
  M(26, <<DWORD, DWORD, STRING_16(20), STRING_16(20)>>),
  M(27, <<DWORD, BLOB(16), STRING_16(20)>>), M(28, <<DWORD, STRING_16(26)>>),
  M(29, <<DWORD, DWORD>>), M(30, <<DWORD, DWORD, STRING_16(26)>>),
  M(31, <<DWORD, DWORD, DWORD, DWORD, DWORD, DWORD, STRING_16(64), STRING_16(16), STRING_16(256), STRING_16(32), STRING_16(28), STRING_16(28), STRING_16(32), STRING_16(32), STRING_16(28), STRING_16(4), STRING_16(32), STRING_16(4), STRING_16(28), STRING_16(12), STRING_16(20), STRING_16(64)>>),
  M(32, <<DWORD, ARRAY_8(512)>>), M(33, <<DWORD, DWORD>>), M(34, <<DWORD>>), M(35, <<DWORD>>),
  M(36, <<DWORD, STRING_16(64), STRING_16(16)>>),
  M(37, <<DWORD, DWORD, DWORD, DWORD, DWORD, BLOB(16)>>), M(38, <<BYTE>>), M(39, <<DWORD>>),
  M(40, <<DWORD, STRING_16(28), STRING_16(28), STRING_16(32), STRING_16(32), STRING_16(12), STRING_16(28), STRING_16(28)>>),
  M(41, <<DWORD, DWORD, DWORD, DWORD, DWORD, DWORD>>),
  M(42, <<DWORD, STRING_16(20), STRING_16(20)>>) >>

AuthClientFrom43 == <<
  M(43, <<DWORD, ARRAY_32(128), ARRAY_32(128)>>),
  M(44, <<DWORD, DWORD, DWORD, DWORD, DWORD, DWORD, STRING_16(32), STRING_16(64), STRING_16(64), STRING_16(28), STRING_16(4), STRING_16(4), STRING_16(12), STRING_16(8), STRING_16(32), STRING_16(28), STRING_16(64), STRING_16(64), STRING_16(10), STRING_16(6), ARRAY_32(128), ARRAY_32(128)>>),
  M(45, <<DWORD>>), M(46, <<>>), M(47, <<>>), M(48, <<DWORD>>), M(49, <<DWORD>>),
  M(50, <<DWORD, STRING_16(10)>>), M(51, <<DWORD, DWORD, DWORD, DWORD, STRING_16(18)>>),
  M(52, <<DWORD, DWORD, DWORD>>), M(53, <<DWORD>>),
  M(54, <<DWORD, DWORD, DWORD, DWORD, DWORD, DWORD, BLOB(256), STRING_16(32), STRING_16(64), STRING_16(64), STRING_16(28), STRING_16(4), STRING_16(4), STRING_16(12), STRING_16(8), STRING_16(32), STRING_16(28), STRING_16(64), STRING_16(64), STRING_16(10), ARRAY_32(128), ARRAY_32(128)>>),
  M(55, <<DWORD, STRING_16(20), STRING_16(20)>>),
  M(56, <<DWORD, BLOB(16), BLOB(16), STRING_16(20)>>) >>

AuthClientFields == AuthClientFrom0 \o AuthClientFrom25 \o AuthClientFrom43

AuthClientSizes == <<
  6, 130, 22, 206, 2, 178, 10, 46, 46, 114, 46, 18, 26, 6, 6, 2, 6, 514, 2, 2, 778, 6, 6, 6,
  134, 50, 90, 62, 58, 10, 62, 1386, 522, 10, 6, 6, 166, 38, 3, 6, 382, 26, 86, 1038, 1898, 6,
  2, 2, 6, 6, 26, 54, 14, 6, 2142, 86, 78 >>

AuthServerFrom0 == <<
  M(0, <<DWORD>>), M(1, <<DWORD, DWORD>>), M(2, <<DWORD, DWORD>>), M(3, <<DWORD, DWORD>>),
  M(4, <<DWORD, STRING_16(2048)>>), M(5, <<>>),
  M(6, <<DWORD, BLOB(8), BLOB(8), BLOB(8), BLOB(8), DWORD>>),
  M(7, <<DWORD, BLOB(16), DWORD, STRING_16(20), ARRAY_8(64)>>),
  M(8, <<DWORD, DWORD, BLOB(24), DWORD>>), M(9, <<DWORD, DWORD, DWORD, BLOB(24), DWORD>>),
  M(10, <<DWORD, DWORD, BLOB(16), STRING_16(20)>>),
  M(11, <<DWORD, BLOB(16), STRING_16(20), STRING_16(20)>>),
  M(12, <<DWORD, STRING_16(20), STRING_16(256)>>),
  M(13, <<DWORD, DWORD, STRING_16(256), STRING_16(256)>>), M(14, <<DWORD, DWORD, ARRAY_8(32)>>),
  M(15, <<>>), M(16, <<DWORD, DWORD, BLOB(16), STRING_16(20), STRING_16(20), STRING_16(256)>>),
  M(17, <<DWORD, DWORD, DWORD, BLOB(8), BLOB(8), BLOB(16), BLOB(16), DWORD, ARRAY_8(200), BYTE, DWORD>>),
  M(18, <<DWORD, DWORD, BLOB(16), STRING_16(20), STRING_16(20), STRING_16(256)>>),
  M(19, <<DWORD>>) >>

AuthServerFrom20 == <<
  M(20, <<DWORD, DWORD>>), M(21, <<DWORD, BLOB(8), BLOB(8), DWORD, DWORD, DWORD>>),
  M(22, <<DWORD, ARRAY_8(2048)>>), M(23, <<ARRAY_8(4096)>>),
  M(24, <<DWORD, BLOB(8), BLOB(8), ARRAY_8(200)>>), M(25, <<>>),
  M(26, <<DWORD, NESTED_STRUCT(11), BYTE, BYTE>>), M(27, <<DWORD, DWORD, DWORD, DWORD>>),
  M(28, <<DWORD, DWORD>>), M(29, <<DWORD, DWORD, DWORD>>),
  M(30, <<DWORD, DWORD, DWORD, DWORD, DWORD, DWORD, DWORD, DWORD, DWORD>>),
  M(31, <<DWORD, ARRAY_32(16), ARRAY_32(16)>>),
  M(32, <<DWORD, WORD, BYTE, BYTE, STRING_16(20)>>),
  M(33, <<DWORD, WORD, BYTE, BYTE, STRING_16(20)>>), M(34, <<DWORD, BLOB(12)>>),
  M(35, <<DWORD, DWORD, BLOB(16), BLOB(16), BLOB(16), STRING_16(16)>>),
  M(36, <<DWORD, DWORD, DWORD, STRING_16(4), STRING_16(20), STRING_16(16)>>), M(37, <<>>),
  M(38, <<DWORD, DWORD>>) >>

AuthServerFields == AuthServerFrom0 \o AuthServerFrom20

AuthServerSizes == <<
  6, 10, 10, 10, 4102, 2, 42, 134, 38, 42, 66, 102, 558, 1034, 46, 2, 618, 275, 618, 6, 10, 34,
  2058, 4102, 226, 2, 32, 18, 10, 14, 38, 142, 50, 50, 18, 90, 94, 2, 10 >>

GameClientFrom0 == <<
  M(0, <<DWORD>>), M(1, <<>>), M(2, <<DWORD, BYTE>>), M(3, <<DWORD>>), M(4, <<>>),
  M(5, <<DWORD, BYTE>>), M(6, <<>>), M(7, <<>>), M(8, <<>>), M(9, <<DWORD>>),
  M(10, <<BLOB(16), DWORD, DWORD, DWORD, BLOB(12), DWORD, DWORD, DWORD, DWORD, DWORD, DWORD, DWORD, STRING_16(64), STRING_16(20)>>),
  M(11, <<>>), M(12, <<>>), M(13, <<AGENT_ID, DWORD, DWORD>>),
  M(14, <<AGENT_ID, DWORD, DWORD>>), M(15, <<AGENT_ID, ARRAY_32(16), ARRAY_32(16)>>),
  M(16, <<DWORD>>), M(17, <<DWORD>>), M(18, <<>>), M(19, <<DWORD, BYTE>>),
  M(20, <<AGENT_ID, DWORD>>), M(21, <<AGENT_ID, AGENT_ID>>), M(22, <<AGENT_ID>>),
  M(23, <<DWORD>>), M(24, <<AGENT_ID, DWORD>>), M(25, <<AGENT_ID, VECT2, DWORD>>) >>

GameClientFrom26 == <<
  M(26, <<VECT2, DWORD>>), M(27, <<AGENT_ID, DWORD, DWORD, AGENT_ID>>),
  M(28, <<AGENT_ID, DWORD, DWORD>>), M(29, <<WORD>>), M(30, <<WORD>>), M(31, <<BYTE>>),
  M(32, <<AGENT_ID, DWORD>>), M(33, <<AGENT_ID, DWORD>>), M(34, <<BYTE, AGENT_ID>>),
  M(35, <<AGENT_ID, DWORD>>), M(36, <<AGENT_ID, DWORD, DWORD>>), M(37, <<AGENT_ID, BYTE>>),
  M(38, <<AGENT_ID, DWORD, DWORD, BYTE>>), M(39, <<>>), M(40, <<DWORD>>), M(41, <<DWORD>>),
  M(42, <<DWORD, ARRAY_32(16)>>), M(43, <<DWORD, BYTE>>), M(44, <<>>), M(45, <<>>),
  M(46, <<DWORD>>), M(47, <<DWORD>>), M(48, <<AGENT_ID, DWORD>>), M(49, <<BYTE>>),
  M(50, <<AGENT_ID>>), M(51, <<DWORD, BYTE, ARRAY_32(4)>>) >>

GameClientFrom52 == <<
  M(52, <<DWORD, BYTE, DWORD>>), M(53, <<DWORD, STRING_16(32), STRING_16(6)>>),
  M(54, <<DWORD, ARRAY_32(4)>>), M(55, <<DWORD, BYTE, BYTE, BYTE, BYTE, BYTE, WORD, BYTE>>),
  M(56, <<AGENT_ID, BYTE>>), M(57, <<DWORD, ARRAY_32(4)>>), M(58, <<DWORD>>), M(59, <<DWORD>>),
  M(60, <<VECT2, DWORD, VECT2, DWORD>>), M(61, <<VECT2, DWORD>>), M(62, <<AGENT_ID, BYTE>>),
  M(63, <<DWORD, DWORD>>), M(64, <<AGENT_ID, BYTE>>), M(65, <<AGENT_ID>>), M(66, <<BYTE>>),
  M(67, <<DWORD>>), M(68, <<ARRAY_8(256)>>), M(69, <<DWORD, DWORD, AGENT_ID, BYTE>>),
  M(70, <<VECT2, DWORD>>), M(71, <<VECT2, DWORD>>), M(72, <<AGENT_ID>>),
  M(73, <<BYTE, DWORD, ARRAY_32(16), DWORD, ARRAY_32(16)>>), M(74, <<BYTE>>) >>

GameClientFrom75 == <<
  M(75, <<BYTE, BYTE, DWORD, ARRAY_32(16), DWORD, ARRAY_32(16)>>),
  M(76, <<BYTE, DWORD, ARRAY_32(16), ARRAY_8(16), DWORD, ARRAY_32(16), ARRAY_8(16)>>),
  M(77, <<BYTE, STRING_16(122)>>), M(78, <<BYTE, WORD, BYTE>>),
  M(79, <<AGENT_ID, BYTE, WORD, BYTE>>), M(80, <<AGENT_ID, BYTE>>), M(81, <<AGENT_ID, DWORD>>),
  M(82, <<DWORD>>), M(83, <<DWORD, DWORD, BYTE, BYTE, BYTE, BYTE, BYTE>>), M(84, <<DWORD>>),
  M(85, <<WORD, DWORD>>), M(86, <<DWORD, DWORD>>), M(87, <<DWORD>>), M(88, <<>>), M(89, <<>>),
  M(90, <<DWORD>>), M(91, <<AGENT_ID, DWORD, DWORD, DWORD>>), M(92, <<AGENT_ID, ARRAY_32(8)>>),
  M(93, <<AGENT_ID, DWORD, DWORD, DWORD, DWORD>>), M(94, <<AGENT_ID, DWORD, DWORD, DWORD>>),
  M(95, <<BYTE, BYTE>>), M(96, <<STRING_16(32)>>) >>

GameClientFrom97 == <<
  M(97, <<STRING_16(32), BYTE>>), M(98, <<>>), M(99, <<AGENT_ID, STRING_16(138)>>),
  M(100, <<DWORD>>), M(101, <<DWORD, DWORD, BYTE>>), M(102, <<DWORD, BYTE, WORD, BYTE>>),
  M(103, <<WORD>>), M(104, <<DWORD>>), M(105, <<DWORD, ARRAY_32(4)>>), M(106, <<DWORD, BYTE>>),
  M(107, <<DWORD, DWORD>>), M(108, <<DWORD, DWORD>>), M(109, <<DWORD, DWORD>>),
  M(110, <<DWORD, DWORD>>), M(111, <<DWORD>>), M(112, <<BYTE, NESTED_STRUCT(6), BYTE, DWORD>>),
  M(113, <<DWORD, WORD, BYTE>>), M(114, <<WORD>>), M(115, <<BYTE, BYTE>>),
  M(116, <<DWORD, DWORD, WORD, BYTE>>), M(117, <<>>), M(118, <<WORD, DWORD, DWORD>>),
  M(119, <<>>), M(120, <<>>), M(121, <<>>), M(122, <<BYTE>>) >>

GameClientFrom123 == <<
  M(123, <<DWORD, DWORD>>), M(124, <<DWORD, WORD, BYTE>>), M(125, <<DWORD>>),
  M(126, <<BYTE, DWORD>>), M(127, <<WORD, DWORD>>), M(128, <<>>), M(129, <<>>),
  M(130, <<BYTE>>), M(131, <<BYTE, BYTE>>), M(132, <<WORD>>),
  M(133, <<WORD, WORD, ARRAY_16(4), BYTE, BYTE, BYTE>>), M(134, <<BYTE, BYTE, BYTE>>),
  M(135, <<>>), M(136, <<>>), M(137, <<>>), M(138, <<STRING_16(20), BLOB(8)>>), M(139, <<>>),
  M(140, <<WORD, BYTE>>), M(141, <<DWORD>>), M(142, <<>>), M(143, <<BLOB(16)>>),
  M(144, <<BYTE, BYTE>>), M(145, <<ARRAY_8(112)>>), M(146, <<WORD>>), M(147, <<BYTE>>),
  M(148, <<BYTE>>), M(149, <<DWORD, WORD, BYTE>>), M(150, <<>>) >>

GameClientFrom151 == <<
  M(151, <<>>), M(152, <<>>), M(153, <<>>), M(154, <<BYTE>>), M(155, <<WORD>>),
  M(156, <<WORD>>), M(157, <<WORD>>), M(158, <<WORD>>), M(159, <<WORD>>),
  M(160, <<STRING_16(20)>>), M(161, <<>>), M(162, <<>>), M(163, <<BYTE, STRING_16(64)>>),
  M(164, <<BYTE>>), M(165, <<WORD, DWORD, BYTE>>), M(166, <<>>), M(167, <<WORD>>),
  M(168, <<WORD>>), M(169, <<BYTE, STRING_16(32), WORD>>), M(170, <<>>), M(171, <<WORD>>),
  M(172, <<WORD>>), M(173, <<BYTE>>), M(174, <<BYTE>>), M(175, <<BLOB(16), BYTE>>),
  M(176, <<WORD, BYTE, WORD, BYTE, BYTE>>), M(177, <<BYTE>>), M(178, <<DWORD, STRING_16(20)>>),
  M(179, <<DWORD, STRING_16(20)>>) >>

GameClientFrom180 == <<
  M(180, <<DWORD, STRING_16(32), BYTE>>), M(181, <<DWORD, BLOB(16), BYTE>>),
  M(182, <<DWORD, BLOB(16), BYTE>>), M(183, <<DWORD, STRING_16(20)>>), M(184, <<DWORD, WORD>>),
  M(185, <<DWORD, STRING_16(20)>>), M(186, <<DWORD>>), M(187, <<DWORD>>),
  M(188, <<DWORD, STRING_16(20)>>), M(189, <<DWORD, STRING_16(256)>>),
  M(190, <<DWORD, BYTE, STRING_16(32)>>), M(191, <<STRING_16(32), BYTE>>),
  M(192, <<AGENT_ID, AGENT_ID>>) >>

GameClientFields == FlattenSeq(<<GameClientFrom0, GameClientFrom26, GameClientFrom52,
    GameClientFrom75, GameClientFrom97, GameClientFrom123, GameClientFrom151, GameClientFrom180 >>)

GameClientSizesFrom0 == <<
  6, 2, 7, 6, 2, 7, 2, 2, 2, 6, 238, 2, 2, 14, 14, 142, 6, 6, 2, 7, 10, 10, 6, 6, 10, 18, 14,
  18, 14, 4, 4, 3, 10, 10, 7, 10, 14, 7, 15, 2, 6, 6, 74, 7, 2, 2, 6, 6, 10, 3, 6, 27, 11, 82,
  26, 14, 7, 26, 6, 6, 26, 14, 7, 10, 7, 6, 3, 6, 262, 15, 14, 14, 6, 147, 3, 148, 187, 247, 6,
  10, 7, 10, 6, 15, 6, 8, 10, 6, 2, 2, 6, 18, 42, 22, 18, 4, 66, 67, 2, 282, 6, 11, 10, 4, 6,
  26, 7, 10, 10, 10, 10, 6, 37, 9, 4, 4, 13, 2, 12, 2, 2, 2, 3, 10, 9, 6, 7, 8, 2, 2, 3, 4, 4,
  21, 5, 2, 2, 2, 50, 2 >>

GameClientSizesFrom140 == <<
  5, 6, 2, 18, 4, 118, 4, 3, 3, 9, 2, 2, 2, 2, 3, 4, 4, 4, 4, 4, 42, 2, 2, 131, 3, 9, 2, 4, 4,
  69, 2, 4, 4, 3, 3, 19, 9, 3, 46, 46, 71, 23, 23, 46, 8, 46, 6, 6, 46, 518, 71, 67, 10 >>

GameClientSizes == GameClientSizesFrom0 \o GameClientSizesFrom140

GameServerFrom0 == <<
  M(0, <<DWORD>>), M(1, <<BYTE>>), M(2, <<BYTE, DWORD>>), M(3, <<DWORD>>),
  M(4, <<DWORD, BYTE>>), M(5, <<DWORD>>), M(6, <<>>), M(7, <<>>), M(8, <<>>), M(9, <<>>),
  M(10, <<DWORD, DWORD>>), M(11, <<DWORD>>), M(12, <<>>), M(13, <<DWORD>>),
  M(14, <<DWORD, DWORD, STRING_16(256), STRING_16(256)>>), M(15, <<WORD, WORD, WORD>>),
  M(16, <<BYTE>>), M(17, <<WORD>>), M(18, <<WORD>>), M(19, <<BYTE>>),
  M(20, <<BYTE, DWORD, DWORD>>), M(21, <<BYTE, DWORD>>), M(22, <<STRING_16(122)>>),
  M(23, <<BYTE, BYTE, DWORD, DWORD, BYTE>>), M(24, <<ARRAY_32(8)>>),
  M(25, <<WORD, BYTE, NESTED_STRUCT(64), DWORD>>), M(26, <<WORD, NESTED_STRUCT(64), DWORD>>) >>

GameServerFrom27 == <<
  M(27, <<>>), M(28, <<WORD, BYTE>>), M(29, <<ARRAY_32(128)>>), M(30, <<DWORD>>),
  M(31, <<DWORD>>),
  M(32, <<DWORD, DWORD, BYTE, BYTE, VECT2, WORD, VECT2, BYTE, FLOAT, FLOAT, DWORD, DWORD, DWORD, DWORD, DWORD, DWORD, DWORD, VECT2, VECT2, WORD, DWORD, VECT2, WORD>>),
  M(33, <<DWORD>>), M(34, <<DWORD, DWORD>>), M(35, <<DWORD, DWORD>>), M(36, <<DWORD, DWORD>>),
  M(37, <<DWORD, VECT2, BYTE>>), M(38, <<DWORD, BYTE>>), M(39, <<DWORD, FLOAT>>),
  M(40, <<DWORD>>), M(41, <<DWORD, VECT2, WORD, WORD>>),
  M(42, <<DWORD, VECT2, WORD, WORD, DWORD>>), M(43, <<DWORD, FLOAT, BYTE>>),
  M(44, <<DWORD, VECT2, WORD>>), M(45, <<DWORD>>), M(46, <<DWORD, DWORD, DWORD>>),
  M(47, <<DWORD, DWORD>>) >>

GameServerFrom48 == <<
  M(48, <<STRING_16(32), DWORD, DWORD, DWORD, DWORD, DWORD, DWORD>>), M(49, <<STRING_16(32)>>),
  M(50, <<DWORD, DWORD, DWORD, DWORD, DWORD, DWORD>>), M(51, <<STRING_16(64)>>),
  M(52, <<WORD, AGENT_ID>>), M(53, <<AGENT_ID, DWORD, DWORD>>), M(54, <<AGENT_ID, DWORD>>),
  M(55, <<AGENT_ID, BYTE, BYTE>>), M(56, <<AGENT_ID, BYTE>>), M(57, <<AGENT_ID, BYTE>>),
  M(58, <<AGENT_ID, ARRAY_32(48)>>), M(59, <<AGENT_ID, BYTE, BYTE, BYTE>>),
  M(60, <<STRING_16(8), STRING_16(128), BYTE, DWORD>>), M(61, <<AGENT_ID>>),
  M(62, <<AGENT_ID, AGENT_ID, WORD, DWORD, DWORD>>), M(63, <<AGENT_ID, DWORD>>),
  M(64, <<AGENT_ID, AGENT_ID, WORD, DWORD, DWORD>>),
  M(65, <<AGENT_ID, WORD, DWORD, DWORD, DWORD>>), M(66, <<AGENT_ID, DWORD, DWORD, DWORD>>),
  M(67, <<AGENT_ID, DWORD>>), M(68, <<DWORD, DWORD>>) >>

GameServerFrom69 == <<
  M(69, <<DWORD, DWORD, AGENT_ID>>), M(70, <<DWORD, DWORD, VECT2, WORD>>),
  M(71, <<AGENT_ID, BYTE>>),
  M(72, <<DWORD, VECT2, WORD, WORD, DWORD, STRING_16(8), STRING_16(8), STRING_16(8), WORD>>),
  M(73, <<DWORD>>), M(74, <<ARRAY_32(64)>>), M(75, <<DWORD, STRING_16(128), STRING_16(128)>>),
  M(76, <<DWORD, VECT2, WORD, WORD>>), M(77, <<DWORD, DWORD, DWORD>>), M(78, <<>>),
  M(79, <<DWORD, DWORD, STRING_16(8), STRING_16(8), STRING_16(8), WORD>>),
  M(80, <<DWORD, VECT2, WORD, WORD>>), M(81, <<DWORD>>), M(82, <<DWORD, VECT2, WORD, WORD>>),
  M(83, <<DWORD, STRING_16(128)>>), M(84, <<>>),
  M(85, <<DWORD, DWORD, DWORD, DWORD, DWORD, DWORD, BYTE, BYTE, STRING_16(8)>>),
  M(86, <<DWORD, ARRAY_32(8)>>), M(87, <<DWORD, STRING_16(32)>>),
  M(88, <<DWORD, AGENT_ID, DWORD, BYTE, DWORD, DWORD, STRING_16(32)>>) >>

GameServerFrom89 == <<
  M(89, <<DWORD>>), M(90, <<DWORD>>), M(91, <<AGENT_ID, AGENT_ID, DWORD>>),
  M(92, <<STRING_16(122)>>), M(93, <<WORD, BYTE>>), M(94, <<AGENT_ID, BYTE, STRING_16(8)>>),
  M(95, <<BYTE, STRING_16(32), STRING_16(6)>>), M(96, <<WORD, BYTE>>),
  M(97, <<AGENT_ID, DWORD>>), M(98, <<AGENT_ID, AGENT_ID>>), M(99, <<AGENT_ID, BYTE, BYTE>>),
  M(100, <<AGENT_ID, BYTE>>), M(101, <<AGENT_ID, VECT2, WORD>>), M(102, <<VECT2, WORD>>),
  M(103, <<AGENT_ID, WORD, DWORD>>), M(104, <<AGENT_ID>>), M(105, <<DWORD>>),
  M(106, <<BYTE, DWORD>>), M(107, <<DWORD, DWORD, DWORD>>), M(108, <<AGENT_ID, DWORD, DWORD>>),
  M(109, <<AGENT_ID, DWORD, DWORD, DWORD, DWORD, DWORD, DWORD, DWORD, DWORD, DWORD>>),
  M(110, <<AGENT_ID, DWORD, DWORD>>), M(111, <<BYTE>>) >>

GameServerFrom112 == <<
  M(112, <<AGENT_ID>>), M(113, <<WORD, AGENT_ID, DWORD, DWORD>>),
  M(114, <<WORD, BYTE, BYTE, BYTE, DWORD, DWORD, BYTE, BYTE>>),
  M(115, <<WORD, BYTE, BYTE, BYTE, DWORD, DWORD, BYTE, BYTE, DWORD, DWORD, DWORD, DWORD, DWORD, DWORD, DWORD, DWORD, DWORD, DWORD, DWORD, STRING_16(32)>>),
  M(116, <<AGENT_ID>>), M(117, <<WORD>>), M(118, <<WORD>>),
  M(119, <<BYTE, NESTED_STRUCT(32), WORD, BYTE, DWORD, DWORD, BYTE>>), M(120, <<WORD, DWORD>>),
  M(121, <<DWORD, STRING_16(8), DWORD, DWORD, DWORD>>), M(122, <<DWORD>>), M(123, <<DWORD>>),
  M(124, <<DWORD>>), M(125, <<BYTE, STRING_16(128), DWORD, DWORD>>), M(126, <<>>),
  M(127, <<STRING_16(122)>>), M(128, <<AGENT_ID>>), M(129, <<AGENT_ID, WORD>>),
  M(130, <<AGENT_ID, BYTE, DWORD>>), M(131, <<ARRAY_32(16)>>), M(132, <<BYTE>>) >>

GameServerFrom133 == <<
  M(133, <<BYTE>>),
  M(134, <<BYTE, DWORD, DWORD, DWORD, DWORD, DWORD, DWORD, DWORD, WORD, WORD, WORD, WORD, WORD, BYTE, BYTE, BYTE, BYTE, BYTE>>),
  M(135, <<BYTE>>), M(136, <<BYTE, VECT3, VECT2>>), M(137, <<ARRAY_32(64)>>),
  M(138, <<DWORD, DWORD, DWORD>>), M(139, <<DWORD, DWORD>>),
  M(140, <<DWORD, VECT2, WORD, BYTE, DWORD, DWORD, STRING_16(8)>>), M(141, <<DWORD>>),
  M(142, <<DWORD, BYTE>>), M(143, <<DWORD, DWORD>>), M(144, <<WORD, DWORD, ARRAY_32(16)>>),
  M(145, <<DWORD, DWORD>>), M(146, <<AGENT_ID, DWORD>>),
  M(147, <<ARRAY_32(32), ARRAY_32(32), ARRAY_32(32), ARRAY_32(32), ARRAY_32(32)>>),
  M(148, <<WORD, DWORD>>), M(149, <<DWORD, DWORD, DWORD, DWORD, DWORD>>),
  M(150, <<BYTE, STRING_16(128)>>), M(151, <<BYTE, DWORD, DWORD, DWORD>>),
  M(152, <<WORD, BYTE>>) >>

GameServerFrom153 == <<
  M(153, <<AGENT_ID, DWORD>>), M(154, <<AGENT_ID, STRING_16(32)>>), M(155, <<AGENT_ID, DWORD>>),
  M(156, <<AGENT_ID, DWORD, DWORD>>), M(157, <<AGENT_ID, STRING_16(32), BYTE, STRING_16(122)>>),
  M(158, <<DWORD, AGENT_ID, DWORD>>), M(159, <<DWORD, AGENT_ID, AGENT_ID, DWORD>>),
  M(160, <<VECT2, WORD, AGENT_ID, WORD, BYTE, BYTE>>), M(161, <<DWORD, AGENT_ID, DWORD>>),
  M(162, <<DWORD, AGENT_ID, AGENT_ID, DWORD>>),
  M(163, <<AGENT_ID, VECT2, WORD, DWORD, DWORD, DWORD, BYTE>>),
  M(164, <<AGENT_ID, STRING_16(122)>>), M(165, <<AGENT_ID, BYTE, BYTE>>),
  M(166, <<AGENT_ID, DWORD, DWORD>>), M(167, <<VECT2, WORD, DWORD>>),
  M(168, <<AGENT_ID, DWORD>>), M(169, <<AGENT_ID, DWORD, DWORD>>), M(170, <<>>),
  M(171, <<AGENT_ID, BYTE>>), M(172, <<DWORD, BYTE>>), M(173, <<AGENT_ID, DWORD>>),
  M(174, <<STRING_16(32)>>) >>

GameServerFrom175 == <<
  M(175, <<WORD, BYTE>>), M(176, <<WORD, WORD>>),
  M(177, <<AGENT_ID, AGENT_ID, STRING_16(32), DWORD, DWORD, DWORD>>), M(178, <<AGENT_ID>>),
  M(179, <<AGENT_ID, STRING_16(32)>>), M(180, <<ARRAY_8(256)>>), M(181, <<AGENT_ID, DWORD>>),
  M(182, <<AGENT_ID, BYTE, BYTE, BYTE>>), M(183, <<>>), M(184, <<STRING_16(128), DWORD>>),
  M(185, <<>>), M(186, <<DWORD, DWORD, STRING_16(128)>>), M(187, <<DWORD>>),
  M(188, <<DWORD, STRING_16(128)>>), M(189, <<AGENT_ID>>), M(190, <<ARRAY_32(64)>>),
  M(191, <<DWORD, DWORD, DWORD, STRING_16(128), STRING_16(128)>>), M(192, <<DWORD, DWORD>>),
  M(193, <<DWORD, DWORD>>), M(194, <<BYTE, DWORD>>), M(195, <<AGENT_ID>>),
  M(196, <<BYTE, STRING_16(122)>>), M(197, <<BYTE, DWORD>>),
  M(198, <<BYTE, DWORD, ARRAY_32(16)>>) >>

GameServerFrom199 == <<
  M(199, <<BYTE, DWORD, DWORD>>), M(200, <<BYTE, BYTE>>), M(201, <<BYTE, DWORD>>),
  M(202, <<BYTE>>), M(203, <<BYTE>>), M(204, <<BYTE, DWORD, BYTE, BYTE>>),
  M(205, <<DWORD, DWORD>>), M(206, <<AGENT_ID, DWORD>>), M(207, <<AGENT_ID>>),
  M(208, <<AGENT_ID, WORD, DWORD, DWORD>>), M(209, <<AGENT_ID, WORD, DWORD>>),
  M(210, <<ARRAY_32(128)>>), M(211, <<>>), M(212, <<>>), M(213, <<WORD, WORD, DWORD>>),
  M(214, <<ARRAY_32(8)>>), M(215, <<ARRAY_32(4)>>), M(216, <<AGENT_ID, BYTE, WORD, DWORD>>),
  M(217, <<AGENT_ID, ARRAY_32(8), ARRAY_32(8), BYTE>>), M(218, <<ARRAY_32(128)>>),
  M(219, <<WORD, DWORD>>), M(220, <<WORD, DWORD>>), M(221, <<WORD>>),
  M(222, <<AGENT_ID, DWORD>>), M(223, <<BYTE, ARRAY_32(16)>>) >>

GameServerFrom224 == <<
  M(224, <<BYTE>>), M(225, <<AGENT_ID, WORD, DWORD>>), M(226, <<AGENT_ID, WORD, DWORD>>),
  M(227, <<AGENT_ID, WORD, DWORD>>), M(228, <<AGENT_ID, WORD, DWORD, DWORD>>),
  M(229, <<AGENT_ID, WORD, DWORD>>), M(230, <<AGENT_ID, WORD, DWORD>>),
  M(231, <<AGENT_ID, WORD, DWORD, DWORD, DWORD>>),
  M(232, <<DWORD, DWORD, DWORD, DWORD, DWORD, DWORD, DWORD, DWORD, DWORD, DWORD, DWORD, DWORD, DWORD, DWORD, DWORD>>),
  M(233, <<DWORD>>), M(234, <<DWORD>>), M(235, <<DWORD>>), M(236, <<DWORD>>),
  M(237, <<DWORD, DWORD>>), M(238, <<DWORD, DWORD>>), M(239, <<AGENT_ID, DWORD>>),
  M(240, <<AGENT_ID, DWORD>>), M(241, <<DWORD>>), M(242, <<DWORD, DWORD, DWORD, STRING_16(8)>>),
  M(243, <<WORD, DWORD>>), M(244, <<DWORD, DWORD>>) >>

GameServerFrom245 == <<
  M(245, <<DWORD, DWORD, DWORD, DWORD, DWORD, DWORD, DWORD, DWORD, DWORD, STRING_16(8), STRING_16(8)>>),
  M(246, <<DWORD, DWORD>>), M(247, <<AGENT_ID>>), M(248, <<ARRAY_32(16)>>),
  M(249, <<ARRAY_32(32)>>), M(250, <<WORD, DWORD, DWORD>>), M(251, <<DWORD, DWORD>>),
  M(252, <<STRING_16(32), BYTE>>), M(253, <<>>), M(254, <<BYTE, BYTE>>), M(255, <<BYTE>>),
  M(256, <<BYTE>>), M(257, <<DWORD, WORD, STRING_16(80)>>), M(258, <<>>),
  M(259, <<ARRAY_8(1024)>>), M(260, <<>>), M(261, <<DWORD>>),
  M(262, <<AGENT_ID, DWORD, DWORD, BYTE, STRING_16(32)>>), M(263, <<AGENT_ID>>),
  M(264, <<DWORD, STRING_16(122)>>), M(265, <<BYTE, STRING_16(122), DWORD, WORD>>),
  M(266, <<STRING_16(122)>>), M(267, <<DWORD>>), M(268, <<DWORD>>),
  M(269, <<WORD, BYTE, DWORD>>) >>

GameServerFrom270 == <<
  M(270, <<WORD, BYTE>>), M(271, <<WORD, DWORD>>), M(272, <<WORD, DWORD, DWORD>>),
  M(273, <<DWORD, BYTE>>), M(274, <<DWORD, STRING_16(32)>>), M(275, <<DWORD, DWORD>>),
  M(276, <<DWORD, DWORD>>), M(277, <<WORD, BLOB(16), BYTE, DWORD>>), M(278, <<BLOB(16)>>),
  M(279, <<WORD, BLOB(16), BYTE>>), M(280, <<>>),
  M(281, <<WORD, BYTE, BYTE, DWORD, STRING_16(32), STRING_16(6), BYTE, BYTE, BYTE, BYTE, BYTE, WORD, BYTE>>),
  M(282, <<DWORD, BYTE>>), M(283, <<>>), M(284, <<BYTE>>), M(285, <<WORD, DWORD>>),
  M(286, <<DWORD, STRING_16(64)>>),
  M(287, <<WORD, BLOB(16), STRING_16(32), STRING_16(6), BYTE, BYTE, BYTE, BYTE, BYTE, BYTE, WORD, BYTE, BYTE, DWORD, BYTE>>) >>

GameServerFrom288 == <<
  M(288, <<WORD, BLOB(16), STRING_16(32), STRING_16(6), BYTE, BYTE, BYTE, BYTE, BYTE, BYTE, BYTE, WORD, BYTE, BYTE, DWORD, DWORD, DWORD, DWORD, BYTE>>),
  M(289, <<WORD, BYTE, DWORD>>),
  M(290, <<BLOB(16), STRING_16(32), STRING_16(6), STRING_16(20), DWORD, DWORD, BYTE>>),
  M(291, <<BLOB(16), BYTE>>), M(292, <<WORD, DWORD>>), M(293, <<WORD, BYTE>>),
  M(294, <<STRING_16(20), STRING_16(20), STRING_16(20), STRING_16(64), DWORD, DWORD, DWORD, DWORD, BYTE>>),
  M(295, <<STRING_16(20)>>), M(296, <<STRING_16(20)>>), M(297, <<STRING_16(20)>>),
  M(298, <<DWORD, STRING_16(64)>>), M(299, <<DWORD, DWORD>>), M(300, <<BYTE>>),
  M(301, <<WORD>>), M(302, <<STRING_16(256), STRING_16(20)>>), M(303, <<WORD, DWORD>>),
  M(304, <<>>), M(305, <<DWORD, BYTE>>), M(306, <<DWORD>>), M(307, <<>>),
  M(308, <<DWORD, WORD, DWORD>>) >>

GameServerFrom309 == <<
  M(309, <<DWORD>>), M(310, <<DWORD, DWORD>>),
  M(311, <<DWORD, BYTE, STRING_16(8), STRING_16(8), STRING_16(8), STRING_16(8)>>),
  M(312, <<DWORD, DWORD>>), M(313, <<DWORD, STRING_16(32)>>), M(314, <<DWORD, DWORD>>),
  M(315, <<BYTE, DWORD>>), M(316, <<DWORD, WORD, BYTE>>), M(317, <<WORD, DWORD, WORD, BYTE>>),
  M(318, <<WORD, BYTE, BYTE, WORD, BYTE, DWORD>>), M(319, <<WORD, DWORD>>),
  M(320, <<WORD, DWORD>>), M(321, <<WORD>>), M(322, <<WORD, WORD>>), M(323, <<WORD, BYTE>>),
  M(324, <<WORD>>), M(325, <<WORD, BYTE, WORD, BYTE, DWORD>>),
  M(326, <<WORD, BYTE, DWORD, DWORD>>), M(327, <<WORD, BYTE>>), M(328, <<WORD, WORD, BYTE>>),
  M(329, <<>>), M(330, <<WORD, DWORD, WORD, BYTE>>) >>

GameServerFrom331 == <<
  M(331, <<WORD, BYTE, BYTE>>), M(332, <<WORD, DWORD>>), M(333, <<WORD, WORD>>),
  M(334, <<WORD, DWORD>>), M(335, <<WORD, DWORD>>), M(336, <<WORD, DWORD>>),
  M(337, <<WORD, DWORD, DWORD>>), M(338, <<WORD, DWORD, WORD, BYTE>>),
  M(339, <<DWORD, BYTE, BYTE>>), M(340, <<DWORD, DWORD>>), M(341, <<DWORD>>),
  M(342, <<DWORD, DWORD, DWORD, DWORD>>), M(343, <<BYTE, BYTE>>), M(344, <<DWORD, WORD>>),
  M(345, <<DWORD, BYTE>>), M(346, <<DWORD, DWORD>>),
  M(347, <<WORD, NESTED_STRUCT(7), BYTE, WORD, BYTE, WORD, WORD, WORD, WORD>>),
  M(348, <<DWORD, DWORD>>),
  M(349, <<DWORD, DWORD, BYTE, BYTE, WORD, WORD, BYTE, DWORD, DWORD>>),
  M(350, <<DWORD, DWORD, BYTE, BYTE, WORD, WORD, BYTE, DWORD, DWORD>>) >>

GameServerFrom351 == <<
  M(351, <<DWORD, DWORD, DWORD, STRING_16(64), NESTED_STRUCT(64), DWORD>>),
  M(352, <<DWORD, DWORD, BYTE, BYTE, WORD, WORD, BYTE, DWORD, DWORD, DWORD, DWORD, STRING_16(64), NESTED_STRUCT(64), DWORD>>),
  M(353, <<DWORD, DWORD, BYTE, BYTE, WORD, WORD, BYTE, DWORD, DWORD, DWORD, DWORD, STRING_16(64), NESTED_STRUCT(64), DWORD>>),
  M(354, <<WORD, DWORD, ARRAY_32(3)>>), M(355, <<>>), M(356, <<>>), M(357, <<>>),
  M(358, <<BYTE>>), M(359, <<WORD, WORD>>), M(360, <<BYTE, DWORD>>),
  M(361, <<WORD, DWORD, ARRAY_32(3)>>), M(362, <<>>), M(363, <<>>), M(364, <<BYTE>>),
  M(365, <<BYTE>>), M(366, <<>>), M(367, <<>>),
  M(368, <<DWORD, BYTE, DWORD, DWORD, DWORD, DWORD, DWORD, DWORD, BYTE, BYTE, BYTE, BYTE, BYTE, WORD, WORD, WORD, WORD, WORD, DWORD, BYTE, BYTE, DWORD, BYTE>>),
  M(369, <<DWORD>>) >>

GameServerFrom370 == <<
  M(370, <<DWORD>>),
  M(371, <<DWORD, BYTE, DWORD, DWORD, DWORD, DWORD, DWORD, DWORD, BYTE, BYTE, BYTE, BYTE, BYTE, WORD, WORD, WORD, WORD, WORD, DWORD, BYTE, BYTE, DWORD, BYTE>>),
  M(372, <<DWORD, WORD, BYTE, STRING_16(64)>>), M(373, <<DWORD, WORD>>),
  M(374, <<DWORD, WORD, BYTE, STRING_16(64)>>),
  M(375, <<WORD, STRING_16(64), STRING_16(6), WORD, BYTE, BYTE, BYTE, BYTE, WORD, WORD, BYTE, BYTE, BYTE, BYTE, WORD, WORD, DWORD, DWORD, DWORD, BYTE>>),
  M(376, <<DWORD, WORD, BYTE>>), M(377, <<BYTE>>), M(378, <<>>),
  M(379, <<BYTE, BYTE, BYTE, BYTE>>), M(380, <<STRING_16(20)>>), M(381, <<>>),
  M(382, <<DWORD>>), M(383, <<STRING_16(122), BYTE, DWORD, DWORD>>), M(384, <<DWORD>>),
  M(385, <<STRING_16(122), BYTE>>), M(386, <<STRING_16(128), DWORD>>),
  M(387, <<STRING_16(128), STRING_16(256)>>) >>

GameServerFrom388 == <<
  M(388, <<STRING_16(128), DWORD>>), M(389, <<>>), M(390, <<DWORD>>),
  M(391, <<BLOB(16), STRING_16(20), WORD, ARRAY_8(1024)>>), M(392, <<>>), M(393, <<>>),
  M(394, <<DWORD>>), M(395, <<BYTE>>), M(396, <<WORD>>), M(397, <<>>),
  M(398, <<WORD, WORD, DWORD>>), M(399, <<BYTE, DWORD>>), M(400, <<WORD>>),
  M(401, <<WORD, BYTE, BYTE, BYTE, DWORD, STRING_16(64), NESTED_STRUCT(8), STRING_16(20)>>),
  M(402, <<WORD, BYTE>>), M(403, <<BYTE>>), M(404, <<DWORD, VECT2, WORD, BYTE, BYTE, BLOB(8)>>),
  M(405, <<ARRAY_8(1024)>>), M(406, <<BYTE, WORD, DWORD>>), M(407, <<BYTE>>),
  M(408, <<AGENT_ID, WORD, BYTE, DWORD, BYTE, BYTE>>), M(409, <<DWORD, DWORD>>),
  M(410, <<WORD>>), M(411, <<STRING_16(122)>>) >>

GameServerFrom412 == <<
  M(412, <<DWORD, WORD, WORD, BYTE, BYTE, BYTE, NESTED_STRUCT(2), BYTE, BYTE, BYTE, BYTE, BYTE, BYTE, BYTE, WORD, BYTE, STRING_16(48)>>),
  M(413, <<>>), M(414, <<NESTED_STRUCT(16), WORD, DWORD>>),
  M(415, <<BYTE, STRING_16(122), STRING_16(122), BYTE, DWORD, DWORD, DWORD, DWORD>>),
  M(416, <<BYTE>>), M(417, <<BYTE, BYTE, DWORD, DWORD, DWORD, DWORD>>),
  M(418, <<BYTE, STRING_16(122), STRING_16(122)>>),
  M(419, <<AGENT_ID, WORD, BYTE, DWORD, BYTE, BYTE, DWORD, VECT2, WORD, BYTE, BYTE, STRING_16(20), BLOB(8)>>),
  M(420, <<BLOB(24), DWORD, BYTE, WORD, BYTE, DWORD>>),
  M(421, <<BYTE, BYTE, DWORD, STRING_16(122), DWORD, STRING_16(122), DWORD, BYTE, BYTE>>),
  M(422, <<BYTE>>), M(423, <<BYTE, DWORD>>), M(424, <<BYTE, DWORD>>), M(425, <<BYTE>>),
  M(426, <<DWORD>>), M(427, <<WORD, DWORD, DWORD, STRING_16(20)>>),
  M(428, <<WORD, DWORD, BYTE, BYTE, BYTE, STRING_16(20)>>) >>

GameServerFrom429 == <<
  M(429, <<WORD, BYTE, BYTE, BYTE, BYTE, BYTE, WORD, BYTE, DWORD, DWORD, STRING_16(32), STRING_16(6)>>),
  M(430, <<STRING_16(122)>>), M(431, <<DWORD>>), M(432, <<WORD, BYTE, DWORD>>),
  M(433, <<WORD, BYTE>>), M(434, <<BYTE, BYTE, STRING_16(32), DWORD, BYTE, DWORD>>),
  M(435, <<>>), M(436, <<BYTE, BYTE, STRING_16(32), DWORD, BYTE, DWORD>>), M(437, <<>>),
  M(438, <<BYTE>>), M(439, <<BYTE>>), M(440, <<>>), M(441, <<>>),
  M(442, <<WORD, BYTE, STRING_16(122)>>), M(443, <<BYTE>>), M(444, <<DWORD>>), M(445, <<BYTE>>),
  M(446, <<WORD, WORD, STRING_16(20), BYTE, BYTE>>), M(447, <<WORD, WORD>>), M(448, <<WORD>>),
  M(449, <<WORD, WORD, WORD, BYTE, BYTE>>), M(450, <<WORD, WORD, WORD>>), M(451, <<WORD>>) >>

GameServerFrom452 == <<
  M(452, <<WORD>>), M(453, <<WORD>>), M(454, <<WORD>>), M(455, <<WORD>>), M(456, <<WORD>>),
  M(457, <<BYTE>>), M(458, <<WORD, WORD, BYTE>>), M(459, <<WORD, WORD>>),
  M(460, <<WORD, WORD>>), M(461, <<WORD, WORD>>), M(462, <<WORD, WORD>>),
  M(463, <<WORD, WORD>>), M(464, <<WORD, WORD, BYTE>>), M(465, <<WORD>>), M(466, <<WORD>>),
  M(467, <<STRING_16(122)>>), M(468, <<>>), M(469, <<BYTE>>),
  M(470, <<ARRAY_16(16), NESTED_STRUCT(16), DWORD, DWORD, DWORD>>), M(471, <<>>),
  M(472, <<BYTE, BYTE, STRING_16(122)>>), M(473, <<WORD, BYTE>>), M(474, <<WORD, WORD>>),
  M(475, <<WORD, WORD>>) >>

GameServerFrom476 == <<
  M(476, <<WORD, WORD, BYTE, BYTE, BYTE, BYTE, BYTE, STRING_16(32), STRING_16(20), BYTE, BYTE, BYTE, DWORD>>),
  M(477, <<WORD>>), M(478, <<WORD>>), M(479, <<WORD, BYTE, BYTE>>),
  M(480, <<WORD, BYTE, BYTE>>), M(481, <<BYTE>>), M(482, <<STRING_16(122)>>), M(483, <<BYTE>>),
  M(484, <<BYTE>>) >>

GameServerFields == FlattenSeq(<<GameServerFrom0, GameServerFrom27, GameServerFrom48,
    GameServerFrom69, GameServerFrom89, GameServerFrom112, GameServerFrom133, GameServerFrom153,
    GameServerFrom175, GameServerFrom199, GameServerFrom224, GameServerFrom245,
    GameServerFrom270, GameServerFrom288, GameServerFrom309, GameServerFrom331,
    GameServerFrom351, GameServerFrom370, GameServerFrom388, GameServerFrom412,
    GameServerFrom429, GameServerFrom452, GameServerFrom476 >>)

GameServerSizesFrom0 == <<
  6, 3, 7, 6, 7, 6, 2, 2, 2, 2, 10, 6, 2, 6, 1034, 8, 3, 4, 4, 3, 11, 7, 246, 13, 38, 265, 264,
  2, 5, 518, 6, 6, 99, 6, 10, 10, 10, 15, 7, 10, 6, 18, 22, 11, 16, 6, 14, 10, 90, 66, 26, 130,
  8, 14, 10, 8, 7, 7, 202, 9, 279, 6, 20, 10, 20, 20, 18, 10, 10, 14, 20, 7, 72, 6, 262, 518,
  18, 14, 2, 60, 18, 6, 18, 262, 2, 44, 42, 70, 87, 6, 6, 14, 246, 5, 23, 79, 5, 10, 10, 8, 7,
  16, 12, 12, 6, 6, 7, 14, 14, 42, 14, 3, 6, 16, 17, 125, 6, 4, 4, 391, 8, 34, 6, 6, 6, 267, 2,
  246, 6, 8, 11, 70, 3, 3, 46, 3, 23, 262, 14, 10 >>

GameServerSizesFrom140 == <<
  41, 6, 7, 10, 76, 10, 10, 662, 8, 22, 259, 15, 5, 10, 70, 10, 14, 315, 14, 18, 20, 14, 18, 29,
  250, 8, 14, 16, 10, 14, 2, 7, 7, 10, 66, 5, 6, 86, 6, 70, 262, 10, 9, 2, 262, 2, 266, 6, 262,
  6, 262, 526, 10, 10, 7, 6, 247, 7, 75, 11, 4, 7, 3, 3, 9, 10, 10, 6, 16, 12, 518, 2, 2, 10,
  38, 22, 13, 79, 518, 8, 8, 4, 10, 71, 3, 12, 12, 12, 16, 12, 12, 20, 62, 6, 6, 6, 6, 10, 10,
  10, 10, 6, 30, 8, 10, 70, 10, 6, 70, 134, 12, 10, 67, 2, 4, 3, 3, 168, 2, 1030, 2, 6, 79, 6,
  250, 253, 246, 6, 6, 9, 5, 8, 12, 7, 70, 10, 10, 25, 18, 21 >>

GameServerSizesFrom280 == <<
  2, 94, 7, 2, 3, 8, 134, 111, 124, 9, 143, 19, 8, 5, 267, 42, 42, 42, 134, 10, 3, 4, 554, 8, 2,
  7, 6, 2, 12, 6, 10, 71, 10, 70, 10, 7, 9, 11, 13, 8, 8, 4, 6, 5, 4, 12, 13, 5, 7, 2, 11, 6, 8,
  6, 8, 8, 8, 12, 11, 8, 10, 6, 18, 4, 8, 7, 10, 92, 10, 25, 25, 402, 421, 421, 24, 2, 2, 2, 3,
  6, 7, 24, 2, 2, 3, 3, 2, 2, 57, 6, 6, 57, 137, 8, 137, 175, 9, 3, 2, 6, 42, 2, 6, 255, 6, 247,
  262, 770, 262, 2, 6, 1088, 2, 2, 6, 3, 4, 2, 10, 7, 4, 463, 5, 3, 26, 1030, 9, 3, 15, 10, 4,
  246, 229, 2, 102, 508, 3, 20, 491, 79 >>

GameServerSizesFrom420 == <<
  38, 506, 3, 7, 7, 3, 6, 52, 51, 96, 246, 6, 9, 5, 77, 2, 77, 2, 3, 3, 2, 2, 249, 3, 6, 3, 48,
  6, 4, 10, 8, 4, 4, 4, 4, 4, 4, 3, 7, 6, 6, 6, 6, 6, 7, 4, 4, 246, 2, 3, 234, 2, 248, 5, 6, 6,
  122, 4, 4, 6, 6, 3, 246, 3, 3 >>

GameServerSizes == GameServerSizesFrom0 \o GameServerSizesFrom140 \o GameServerSizesFrom280 \o GameServerSizesFrom420

-----------------------------------------------------------------------------
(* Sizes in bytes.                                                         *)

Arrays == {"ARRAY_8", "ARRAY_16", "ARRAY_32"}
Counted == Arrays \cup {"STRING_16", "NESTED_STRUCT"}

\* Mutant: a vector is taken for two floats in both cases.
ElementSizeFlat(f) ==
    CASE f.type \in {"BYTE", "ARRAY_8"} -> 1
      [] f.type \in {"MSG_HEADER", "WORD", "STRING_16", "ARRAY_16"} -> 2
      [] f.type \in {"AGENT_ID", "FLOAT", "DWORD", "ARRAY_32"} -> 4
      [] f.type \in {"VECT2", "VECT3"} -> 8
      [] f.type = "BLOB" -> f.param

get_element_size(f) ==
    CASE f.type \in {"BYTE", "ARRAY_8"} -> 1
      [] f.type \in {"MSG_HEADER", "WORD", "STRING_16", "ARRAY_16"} -> 2
      [] f.type \in {"AGENT_ID", "FLOAT", "DWORD", "ARRAY_32"} -> 4
      [] f.type = "VECT2" -> 8
      [] f.type = "VECT3" -> 12
      [] f.type = "BLOB" -> f.param

get_prefix_size(f) ==
    IF f.type = "NESTED_STRUCT" THEN 1 ELSE IF f.type \in Counted THEN 2 ELSE 0

\* The size in memory of the fields from f on, if rest is that of those behind it: an
\* array has its size in front, in 4 bytes, and a string has none.
UnpackedFrom(f, rest) ==
    CASE f.type \in Arrays         -> 4 + f.param * get_element_size(f) + rest
      [] f.type = "STRING_16"      -> f.param * get_element_size(f) + rest
      [] f.type = "NESTED_STRUCT"  -> 4 + f.param * rest
      [] OTHER                     -> get_element_size(f) + rest

\* The longest form on the wire, likewise.
WireFrom(f, rest) ==
    get_prefix_size(f) +
    CASE f.type = "NESTED_STRUCT"                -> f.param * rest
      [] f.type \in Arrays \cup {"STRING_16"}    -> f.param * get_element_size(f) + rest
      [] OTHER                                   -> get_element_size(f) + rest

UnpackSize(fields) == FoldRight(UnpackedFrom, fields, 0)
WireSize(fields) == FoldRight(WireFrom, fields, 0)

\* Mutant: a buffer for the messages that are often seen.
SmallPacketBuffer == 1024

\* sizeof(PacketBuffer), and what NetConn_Reset reserves for Connection.in and out.
PacketBufferSize == 4096
BufferSize == 5840

-----------------------------------------------------------------------------
(* What the code takes for granted of a message                            *)

Tables == { <<AuthClientFields, AuthClientSizes>>, <<AuthServerFields, AuthServerSizes>>,
            <<GameClientFields, GameClientSizes>>, <<GameServerFields, GameServerSizes>> }

\* Message i of table t stands at its own number, its fields have in memory exactly
\* the size of the table, and a nested field has fields behind it, none of them nested.
WellSized(t, i) ==
    LET fields == t[1][i] IN
    /\ fields[1] = MSG_HEADER(i - 1)
    /\ UnpackSize(fields) = t[2][i]
    /\ \A j \in DOMAIN fields :
          fields[j].type = "NESTED_STRUCT" =>
              /\ j < Len(fields)
              /\ \A k \in j + 1 .. Len(fields) : fields[k].type # "NESTED_STRUCT"

\* Messages of the auth server that are larger than a PacketBuffer.  Nobody handles
\* them: the client would overrun its stack when they came.
Oversized == {AuthServerFields[5], AuthServerFields[24]}

\* What a server may send fits the PacketBuffer that it is unpacked to, and every
\* message in its longest form fits the buffer it is received in or sent from.
FitsInBuffers(t, i) ==
    /\ t[1] \in {AuthServerFields, GameServerFields} /\ t[1][i] \notin Oversized =>
          UnpackSize(t[1][i]) <= PacketBufferSize
    /\ WireSize(t[1][i]) <= BufferSize
=============================================================================
