--------------------------- MODULE MCHeaderRewrite ---------------------------
\* Headers of up to three lines: a value with a colon in it, a name given twice,
\* a line that is not UTF-8 with the same name, one without a colon, one that has
\* the method's name; URIs with a port, without one, with the scheme's own port, of
\* a scheme that has none, without a path, with themselves in the query, and one
\* that is not absolute; first lines too short, with two blanks in a row and not
\* in UTF-8.
EXTENDS HeaderRewrite

MCUris == {
    <<"http://", "h", "/x">>,
    <<"http://", "h", ":8080", "/x">>,
    <<"http://", "h", ":80", "/x">>,
    <<"https://", "h">>,
    <<"rtsp://", "h", ":80", "/x">>,
    <<"http://", "h", "/x?u=", "http://", "h", "/x">>,
    <<"/x">>}

MCFirstLines ==
    {<<"GET", uri, "HTTP/1.1">> : uri \in MCUris \cup {<<>>}}
        \cup {<<"CONNECT", <<"h", ":443">>, "HTTP/1.1">>, <<"GET", <<"/x">>>>,
            <<"GET", <<"http://", "h", "0xFF">>, "HTTP/1.1">>}

MCDeviceAddr == <<"aabbccddeeff.aaa.cn", "5677">>

MCLines == {
    <<"Host", "h", "8080">>,
    <<"Cookie", "a">>,
    <<"Cookie", "b">>,
    <<"Cookie", "0xFF">>,
    <<"Proxy-Connection", "keep-alive">>,
    <<"Connection", "keep-alive">>,
    <<"GET", "z">>,
    <<"junk">>}
==============================================================================
