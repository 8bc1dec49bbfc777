------------------------------- MODULE MCCodec -------------------------------
(* Texts that meet the limits of the decoders, and messages to encode.     *)
EXTENDS Codec

Line(words) == FlattenSeq(words) \o <<CR, LF>>
Start == Line(<<<<"M", SP, "*", SP>>, Rtsp20>>)
OK200 == Line(<<Rtsp20, <<SP, "2", "0", "0", SP, "K">>>>)

(* Valid texts, then texts that the decoders refuse, each in another part. *)
ValidTexts ==
    {<<CR, LF>> \o Start \o <<CR, LF, CR, LF>> \o OK200 \o <<CR, LF>>,
     Start \o <<"A", SP, ":", CR, LF, HT, "v", CR, LF, CR, LF>>,
     OK200 \o <<"L", ":", "1", CR, LF, CR, LF, "b">> \o Start \o <<CR, LF>>,
     Start \o <<"L", ":", "2", CR, LF, CR, LF, CR, LF>> \o OK200,
     Line(<<Rtsp20, <<SP, "1", ":", "0", SP, "x">>>>) \o <<CR, LF>>,
     Line(<<Rtsp20, <<SP, "2", "5", "0", SP, "x">>>>) \o <<CR, LF>>}

RefusedTexts ==
    {<<"M", "M", "M", "M", SP, "*", SP>>, <<"$", SP, "*", SP, "u">>,
     <<CR, "M", SP, "*", SP>>, <<"M", SP, "u", "u", "u", "u", SP>>,
     <<"M", SP, "?", SP, "u">>,
     Line(<<<<"M", SP, "u", SP>>, Rtsp10>>), Line(<<<<"M", SP, "u", SP>>, Rtsp20, <<"0">>>>),
     Start \o <<"A", "A", "A", "A", "A", ":">>,
     Start \o <<"A", ":", "v", "v", "v", "v", "v", "v", "v">>,
     Start \o <<"A", ":", CR, LF, "B", ":", CR, LF, "C", ":", CR, LF, CR, LF>>,
     Start \o <<"L", ":", "9", CR, LF, CR, LF>>, Start \o <<"L", ":", "x", CR, LF, CR, LF>>,
     Start \o <<"L", ":", "1", CR, LF, "L", ":", "1", CR, LF, CR, LF, "b">>,
     Start \o <<"A", ":", CTL, CR, LF, CR, LF>>, Start \o <<SP, ":", CR, LF, CR, LF>>,
     Line(<<Rtsp10, <<SP, "2", "0", "0", SP, "K">>>>),
     Line(<<Rtsp20, <<SP, "3", "0", "3", SP, "K">>>>),
     Line(<<Rtsp20, <<SP, "2", "0", "0", "0", SP, "K">>>>),
     Line(<<Rtsp20, <<SP, "2", "0", "0", SP>>>>),
     Line(<<Rtsp20, <<SP, "2", "0", "0", SP, "x", "x", "x", "x", "x", "x">>>>)}

(* A header value of exactly the greatest length, and a reason phrase that *)
(* is one longer.                                                          *)
LimitTexts ==
    {Start \o <<"A", ":", "v", "v", "v", "v", "v", "v", CR, LF, CR, LF>>,
     Line(<<Rtsp20, <<SP, "2", "5", "0", SP, "x", "x", "x", "x">>>>) \o <<CR, LF>>}

MCBytes == STRING
MCStreams == ValidTexts \cup RefusedTexts \cup LimitTexts

Request(headers, body) ==
    [kind |-> "request", method |-> <<"M">>, uri |-> <<"*">>, headers |-> headers, body |-> body]
Response(status, phrase, headers, body) ==
    [kind |-> "response", status |-> status, phrase |-> phrase, headers |-> headers, body |-> body]

MCSent ==
    {<<Request(<<<<<<"A">>, <<"v">>>>, <<<<"L">>, <<"7">>>>>>, <<"b", CR>>),
       Response(200, <<"K">>, <<>>, <<>>)>>,
     <<Response(250, <<"x">>, <<<<<<"A">>, <<>>>>>>, <<CR, LF>>), Request(<<>>, <<>>)>>,
     <<Request(<<<<<<"A">>, <<"v">>>>, <<<<"A">>, <<CR, LF, SP, "w">>>>>>, <<>>)>>}
=============================================================================
