CONSTANTS
    Labels = {"image/png", "image/webp", "image/gif", "IMAGE/BMP", "image/tiff",
              "text/plain", "text/plain;charset=utf-8", "TEXT", "UTF8_STRING", "TEXT/HTML",
              "application/xhtml+xml", "text/uri-list", "text/rtf", "application/rtf",
              "text/x-gif", "application/vnd.oasis.opendocument.text",
              "application/xhtml", "application/octet-stream", "application/octet-stream;as=text",
              "application/x-keepassxc"}
    MaxLabels = 2
    MaxCopies = 2
    None = None
SPECIFICATION ContentSpec
INVARIANTS ContentTypeOK StoredFaithfully RowsSound OffersServed
CHECK_DEADLOCK FALSE
