-------------------------- MODULE MCByteArrayStream --------------------------
EXTENDS ByteArrayStream

Some == {<<1>>, <<0, 1>>, <<1, 1, 0>>}
Around == (-2)..2
=============================================================================
