SPECIFICATION Spec
CONSTANTS
  PRINTF_NTOA_BUFFER_SIZE = 7
  Bits <- MCBits
  Width = 6
  Height = 5
  Pitch = 6
  Glyph = 2
  Messages <- MCMessages
  Notices <- MCNotices
  Formats <- MCFormats
  Limits = {0, 3, 20}
  Values = {0, 9, 31, 40}
  MaxMessages = 2
  MaxInterrupts = 2
INVARIANTS CursorOnScreen ShowsText FormatsRight EndsInBuffer
