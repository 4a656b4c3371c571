---------------------------- MODULE NativesJava ----------------------------
(****************************************************************************)
(* The native methods of java.* and javax.*: what each table registers.     *)
(* A table is a set of <<class, members>>: the members it registers for the   *)
(* class.  A member is its name, with its descriptor in simple class names    *)
(* where the tables use the name with more than one descriptor.  No two       *)
(* entries have one class, name and descriptor, so the order of registration  *)
(* cannot be seen and is left out, and so is the Rust function registered.    *)
(****************************************************************************)

(* java/io/buffered_reader.rs, 19 to 34 *)
buffered_reader_TABLE ==
    { <<"java/io/BufferedReader", {"<init>(Reader)V", "<init>(Reader,I)V"}>> }

(* java/io/byte_array_input_stream.rs, 111 to 192 *)
byte_array_input_stream_TABLE ==
    { <<"java/io/ByteArrayInputStream",
         {"<init>([B)V", "<init>([B,I,I)V", "read()I", "read([B,I,I)I", "available",
          "close", "read([B)I"}>>,
      <<"java/io/InputStream",
         {"read()I", "read([B)I", "read([B,I,I)I", "close", "available", "skip",
          "readNBytes"}>> }

(* java/io/byte_array_output_stream.rs, 34 to 70 *)
byte_array_output_stream_TABLE ==
    { <<"java/io/ByteArrayOutputStream",
         {"<init>()V", "write(I)V", "write([B,I,I)V", "toByteArray()[B",
          "toString(String)String"}>> }

(* java/io/file.rs, 7 to 154 *)
file_TABLE_1 ==
    { <<"java/io/File",
         {"<init>(String)V", "<init>(File,String)V", "<init>(String,String)V",
          "mkdirs", "exists", "lastModified", "length()J", "isDirectory", "isFile",
          "createNewFile", "delete()Z", "getAbsolutePath", "getCanonicalPath",
          "getPath", "getName", "getParent()String", "getParentFile",
          "createTempFile(String,String,File)File",
          "createTempFile(String,String)File", "renameTo"}>>,
      <<"kotlin/io/FilesKt", {"resolve(File,String)File"}>> }

(* java/io/file.rs, 155 to 204 *)
file_TABLE_2 ==
    { <<"java/io/File", {"listFiles"}>>,
      <<"java/io/FileOutputStream",
         {"<init>(File)V", "write([B)V", "write([B,I,I)V", "write(I)V", "flush",
          "close"}>> }

(* java/io/gzip.rs, 58 to 64 *)
gzip_TABLE ==
    { <<"java/util/zip/GZIPInputStream", {"<init>(InputStream)V"}>> }

(* java/io/input_stream_reader.rs, 23 to 38 *)
input_stream_reader_TABLE ==
    { <<"java/io/InputStreamReader",
         {"<init>(InputStream,String)V", "<init>(InputStream,Charset)V"}>> }

(* java/io/output_stream.rs, 46 to 70 *)
output_stream_TABLE ==
    { <<"java/io/OutputStream",
         {"write(I)V", "write([B)V", "write([B,I,I)V", "flush", "close"}>> }

(* java/io/print_stream.rs, 70 to 140 *)
print_stream_TABLE ==
    { <<"java/io/PrintStream",
         {"<init>(OutputStream)V", "println()V", "println(String)V", "println(I)V",
          "println(J)V", "println(Z)V", "println(F)V", "println(D)V",
          "println(Object)V", "println(C)V", "println([C)V", "print(String)V",
          "print(I)V", "print(J)V", "print(Z)V", "print(F)V", "print(D)V",
          "print(Object)V", "print(C)V", "flush", "close"}>> }

(* java/javax_crypto.rs, 418 to 531 *)
JAVAX_CRYPTO_TABLE ==
    { <<"javax/crypto/Cipher",
         {"getInstance(String)Cipher", "init(I,Key,AlgorithmParameterSpec)V",
          "init(I,Key)V", "updateAAD", "doFinal([B,I,I)[B", "doFinal([B)[B"}>>,
      <<"javax/crypto/spec/SecretKeySpec", {"<init>([B,String)V"}>>,
      <<"javax/crypto/spec/GCMParameterSpec", {"<init>(I,[B)V"}>>,
      <<"javax/crypto/spec/IvParameterSpec", {"<init>([B)V"}>>,
      <<"javax/crypto/spec/PBEKeySpec", {"<init>([C,[B,I,I)V"}>>,
      <<"javax/crypto/SecretKeyFactory",
         {"getInstance(String)SecretKeyFactory", "generateSecret"}>>,
      <<"javax/crypto/Mac",
         {"getInstance(String)Mac", "init(Key)V", "getAlgorithm", "doFinal([B)[B"}>> }

(* java/lang/boolean.rs, 69 to 140 *)
boolean_TABLE ==
    { <<"java/lang/Boolean",
         {"valueOf(Z)Boolean", "booleanValue", "equals(Object)Z", "hashCode()I",
          "hashCode(Z)I", "toString()String", "toString(Z)String", "parseBoolean",
          "compareTo(Boolean)I", "compareTo(Object)I"}>> }

(* java/lang/byte.rs, 34 to 119 *)
byte_TABLE ==
    { <<"java/lang/Byte",
         {"valueOf(B)Byte", "parseByte(String)B", "parseByte(String,I)B",
          "toString(B)String", "intValue", "shortValue", "byteValue",
          "equals(Object)Z", "hashCode()I", "toString()String", "compareTo(Byte)I",
          "compareTo(Object)I"}>> }

(* java/lang/character.rs, 132 to 267 *)
character_TABLE ==
    { <<"java/lang/Character",
         {"valueOf(C)Character", "charValue", "equals(Object)Z", "hashCode()I",
          "toString()String", "toString(C)String", "compareTo(Character)I",
          "compareTo(Object)I", "isDigit", "isLetter", "isLetterOrDigit",
          "isWhitespace", "isUpperCase", "isLowerCase", "toUpperCase(C)C",
          "toLowerCase(C)C", "isHighSurrogate", "isLowSurrogate", "getNumericValue",
          "digit"}>> }

(* java/lang/class.rs, 392 to 527 *)
class_TABLE ==
    { <<"java/lang/Class",
         {"getName", "getSimpleName", "getCanonicalName", "toString()String",
          "isInstance", "isArray", "isPrimitive", "isInterface", "getComponentType",
          "getSuperclass", "cast", "desiredAssertionStatus", "getClassLoader",
          "getModifiers", "isAssignableFrom", "getInterfaces", "forName(String)Class",
          "forName(String,Z,ClassLoader)Class", "getResource", "getResourceAsStream"}>> }

(* java/lang/classloader.rs, 18 to 24 *)
classloader_TABLE ==
    { <<"java/lang/ClassLoader", {"getResourceAsStream"}>> }

(* java/lang/double.rs, 106 to 255 *)
double_TABLE ==
    { <<"java/lang/Double",
         {"valueOf(D)Double", "valueOf(String)Double", "parseDouble", "intValue",
          "longValue", "floatValue", "doubleValue", "byteValue", "shortValue",
          "equals(Object)Z", "hashCode()I", "hashCode(D)I", "toString()String",
          "toString(D)String", "compareTo(Double)I", "compareTo(Object)I",
          "compare(D,D)I", "isNaN(D)Z", "isInfinite(D)Z", "doubleToLongBits",
          "doubleToRawLongBits", "longBitsToDouble"}>> }

(* java/lang/enum.rs, 79 to 123 *)
enum_TABLE ==
    { <<"java/lang/Enum",
         {"valueOf(Class,String)Enum", "<init>(String,I)V", "name()String", "ordinal",
          "toString()String", "compareTo(Enum)I", "compareTo(Object)I"}>> }

(* java/lang/float.rs, 105 to 254 *)
float_TABLE ==
    { <<"java/lang/Float",
         {"valueOf(F)Float", "valueOf(String)Float", "parseFloat", "intValue",
          "longValue", "floatValue", "doubleValue", "byteValue", "shortValue",
          "equals(Object)Z", "hashCode()I", "hashCode(F)I", "toString()String",
          "toString(F)String", "compareTo(Float)I", "compareTo(Object)I",
          "compare(F,F)I", "isNaN(F)Z", "isInfinite(F)Z", "floatToIntBits",
          "floatToRawIntBits", "intBitsToFloat"}>> }

(* java/lang/integer.rs, 173 to 320 *)
integer_TABLE_1 ==
    { <<"java/lang/Integer",
         {"hashCode(I)I", "valueOf(I)Integer", "valueOf(String)Integer",
          "parseInt(String)I", "parseInt(String,I)I", "toString(I)String",
          "toString(I,I)String", "toHexString(I)String", "toBinaryString",
          "toOctalString", "compare(I,I)I", "bitCount(I)I", "highestOneBit",
          "signum(I)I", "intValue", "longValue", "floatValue", "doubleValue",
          "byteValue", "shortValue", "equals(Object)Z"}>> }

(* java/lang/integer.rs, 321 to 398 *)
integer_TABLE_2 ==
    { <<"java/lang/Integer",
         {"hashCode()I", "toString()String", "compareTo(Integer)I",
          "compareTo(Object)I", "compareUnsigned", "remainderUnsigned",
          "divideUnsigned", "rotateLeft(I,I)I", "rotateRight(I,I)I",
          "toUnsignedString", "toUnsignedLong"}>> }

(* java/lang/long.rs, 115 to 260 *)
long_TABLE ==
    { <<"java/lang/Long",
         {"valueOf(J)Long", "valueOf(String)Long", "parseLong(String)J",
          "parseLong(String,I)J", "toString(J)String", "toString(J,I)String",
          "toHexString(J)String", "compare(J,J)I", "bitCount(J)I", "signum(J)I",
          "intValue", "longValue", "floatValue", "doubleValue", "byteValue",
          "shortValue", "equals(Object)Z", "hashCode()I", "hashCode(J)I",
          "rotateLeft(J,I)J", "rotateRight(J,I)J", "toString()String",
          "compareTo(Long)I", "compareTo(Object)I"}>> }

(* java/lang/math.rs, 226 to 335 *)
math_TABLE ==
    { <<"java/lang/Math",
         {"abs(I)I", "abs(J)J", "abs(F)F", "abs(D)D", "max(I,I)I", "max(J,J)J",
          "max(F,F)F", "max(D,D)D", "min(I,I)I", "min(J,J)J", "min(F,F)F", "min(D,D)D",
          "sqrt", "cbrt", "pow(D,D)D", "exp", "log", "log10", "log1p", "floor", "ceil",
          "rint", "floorDiv(I,I)I", "floorDiv(J,J)J", "floorMod(I,I)I",
          "floorMod(J,J)J", "round(F)I", "round(D)J", "signum(F)F", "signum(D)D",
          "random()D", "sin", "cos", "tan", "asin", "acos", "atan", "atan2",
          "toRadians", "toDegrees", "copySign(F,F)F", "copySign(D,D)D"}>> }

(* java/lang/number.rs, 29 to 72 *)
number_TABLE ==
    { <<"java/lang/Number",
         {"intValue", "longValue", "floatValue", "doubleValue", "byteValue",
          "shortValue"}>> }

(* java/lang/object.rs, 69 to 120 *)
object_TABLE ==
    { <<"java/lang/Object",
         {"<init>()V", "getClass", "hashCode()I", "equals(Object)Z",
          "toString()String", "clone()Object"}>>,
      <<"java/lang/ThreadLocal", {"get()Object", "set(Object)V"}>> }

(* java/lang/reflect.rs, 79 to 115 *)
reflect_TABLE ==
    { <<"java/lang/Class", {"getDeclaredField"}>>,
      <<"java/lang/reflect/AccessibleObject",
         {"setAccessible(Z)V", "setAccessible(Z)Z"}>>,
      <<"java/lang/reflect/Field", {"set(Object,Object)V", "get(Object)Object"}>> }

(* java/lang/short.rs, 34 to 126 *)
short_TABLE ==
    { <<"java/lang/Short",
         {"valueOf(S)Short", "parseShort(String)S", "parseShort(String,I)S",
          "toString(S)String", "intValue", "shortValue", "byteValue",
          "equals(Object)Z", "hashCode()I", "hashCode(S)I", "toString()String",
          "compareTo(Short)I", "compareTo(Object)I"}>> }

(* java/lang/soft_reference.rs, 22 to 37 *)
soft_reference_TABLE ==
    { <<"java/lang/ref/SoftReference", {"<init>(Object)V", "get()Object"}>> }

(* java/lang/string.rs, 611 to 754 *)
string_TABLE_1 ==
    { <<"java/lang/String",
         {"<init>()V", "<init>(String)V", "<init>([C)V", "<init>([B)V",
          "<init>([B,String)V", "<init>([B,Charset)V", "<init>([B,I,I,Charset)V",
          "<init>([C,I,I)V", "length()I", "isEmpty", "charAt", "equals(Object)Z",
          "equalsIgnoreCase", "hashCode()I", "toString()String", "substring(I)String",
          "substring(I,I)String", "subSequence", "concat(String)String",
          "contains(CharSequence)Z", "startsWith(String)Z", "startsWith(String,I)Z",
          "endsWith(String)Z"}>> }

(* java/lang/string.rs, 755 to 901 *)
string_TABLE_2 ==
    { <<"java/lang/String",
         {"indexOf(I)I", "indexOf(I,I)I", "indexOf(String)I", "indexOf(String,I)I",
          "lastIndexOf(I)I", "lastIndexOf(I,I)I", "lastIndexOf(String)I",
          "lastIndexOf(String,I)I", "toLowerCase()String", "toLowerCase(Locale)String",
          "toUpperCase()String", "toUpperCase(Locale)String", "trim()String",
          "getBytes()[B", "getBytes(String)[B", "getBytes(Charset)[B",
          "toCharArray()[C", "getChars", "split(String)[String",
          "split(String,I)[String", "matches(String)Z"}>> }

(* java/lang/string.rs, 902 to 1014 *)
string_TABLE_3 ==
    { <<"java/lang/String",
         {"replace(C,C)String", "replace(CharSequence,CharSequence)String",
          "compareTo(String)I", "compareTo(Object)I", "compareToIgnoreCase", "intern",
          "valueOf(I)String", "valueOf(J)String", "valueOf(Z)String",
          "valueOf(C)String", "valueOf(F)String", "valueOf(D)String",
          "valueOf(Object)String", "valueOf([C)String", "format(String,[Object)String",
          "format(Locale,String,[Object)String"}>> }

(* java/lang/stringbuilder.rs, 309 to 452 *)
stringbuilder_TABLE_1 ==
    { <<"java/lang/StringBuilder",
         {"<init>()V", "<init>(I)V", "<init>(String)V", "toString()String",
          "append(String)StringBuilder", "append(CharSequence)StringBuilder",
          "append(CharSequence,I,I)StringBuilder", "append(Object)StringBuilder",
          "append(I)StringBuilder", "append(J)StringBuilder", "append(Z)StringBuilder",
          "append(C)StringBuilder", "append(C)Appendable", "append(F)StringBuilder",
          "append(D)StringBuilder", "append([C)StringBuilder", "length()I", "charAt",
          "substring(I,I)String", "delete(I,I)StringBuilder", "setLength", "capacity"}>>,
      <<"java/lang/StringBuffer", {"length()I"}>> }

(* java/lang/stringbuilder.rs, 453 to 502 *)
stringbuilder_TABLE_2 ==
    { <<"java/lang/StringBuilder",
         {"indexOf(String)I", "indexOf(String,I)I", "appendCodePoint", "insert",
          "getChars", "append(CharSequence)Appendable"}>>,
      <<"java/lang/StringBuffer", {"getChars"}>> }

(* java/lang/system.rs, 249 to 329 *)
system_TABLE ==
    { <<"java/lang/System",
         {"currentTimeMillis", "nanoTime", "arraycopy", "exit", "gc",
          "identityHashCode", "getProperty(String)String",
          "getProperty(String,String)String", "getenv(String)String", "getenv()Map",
          "lineSeparator"}>>,
      <<"java/lang/Runtime", {"getRuntime", "availableProcessors"}>> }

(* java/lang/thread.rs, 185 to 285 *)
thread_TABLE ==
    { <<"java/lang/Thread",
         {"<init>()V", "<init>(Runnable)V", "<init>(String)V",
          "<init>(Runnable,String)V", "currentThread", "start()V", "run", "yield",
          "interrupt", "interrupted", "sleep(J)V", "sleep(J,I)V", "setName",
          "setDaemon", "join", "getName", "getId", "isAlive", "isDaemon",
          "isInterrupted", "getStackTrace"}>> }

(* java/lang/throwable.rs, 163 to 241 *)
throwable_TABLE ==
    { <<"java/lang/StringIndexOutOfBoundsException", {"<init>(I)V"}>>,
      <<"java/lang/Throwable",
         {"getMessage", "getLocalizedMessage", "getCause", "initCause",
          "toString()String", "printStackTrace", "fillInStackTrace",
          "addSuppressed(Throwable)V", "getSuppressed", "getStackTrace"}>> }

(* java/math/bigdecimal.rs, 258 to 385 *)
bigdecimal_TABLE ==
    { <<"java/math/BigDecimal",
         {"<init>(String)V", "<init>(I)V", "<init>(BigInteger,I)V",
          "add(BigDecimal)BigDecimal", "subtract(BigDecimal)BigDecimal",
          "multiply(BigDecimal)BigDecimal", "divide(BigDecimal)BigDecimal",
          "divide(BigDecimal,RoundingMode)BigDecimal", "signum()I", "scale",
          "setScale(I)BigDecimal", "setScale(I,RoundingMode)BigDecimal",
          "stripTrailingZeros", "intValue", "doubleValue", "compareTo(BigDecimal)I",
          "toPlainString", "toString()String"}>> }

(* java/math/biginteger.rs, 240 to 387 *)
biginteger_TABLE_1 ==
    { <<"java/math/BigInteger",
         {"<init>([B)V", "<init>(String)V", "<init>(String,I)V",
          "valueOf(J)BigInteger", "add(BigInteger)BigInteger",
          "subtract(BigInteger)BigInteger", "multiply(BigInteger)BigInteger",
          "divide(BigInteger)BigInteger", "mod", "remainder", "negate",
          "abs()BigInteger", "pow(I)BigInteger", "modPow", "modInverse", "gcd",
          "shiftLeft", "shiftRight", "signum()I", "testBit", "bitLength"}>> }

(* java/math/biginteger.rs, 388 to 465 *)
biginteger_TABLE_2 ==
    { <<"java/math/BigInteger",
         {"intValue", "intValueExact", "longValue", "longValueExact", "doubleValue",
          "compareTo(BigInteger)I", "equals(Object)Z", "toString()String",
          "toString(I)String", "toByteArray()[B", "hashCode()I"}>> }

(* java/net/inet_address.rs, 20 to 42 *)
inet_address_TABLE ==
    { <<"java/net/InetAddress", {"getByName", "getHostName", "getHostAddress"}>> }

(* java/net/uri.rs, 50 to 79 *)
uri_TABLE ==
    { <<"java/net/URI", {"<init>(String)V", "getHost", "getPath", "toASCIIString"}>> }

(* java/net/url.rs, 230 to 273 *)
url_TABLE ==
    { <<"java/net/URL", {"openStream", "<init>(String)V", "getHost", "getPath"}>>,
      <<"java/net/URLEncoder", {"encode(String,String)String"}>>,
      <<"java/net/URLDecoder", {"decode(String,String)String"}>> }

(* java/nio/bytebuffer.rs, 197 to 295 *)
bytebuffer_TABLE ==
    { <<"java/nio/ByteBuffer",
         {"allocate", "wrap([B)ByteBuffer", "wrap([B,I,I)ByteBuffer", "order",
          "get()B", "get([B)ByteBuffer", "getShort", "getInt()I", "getInt(I)I",
          "getLong()J", "put(B)ByteBuffer", "put([B)ByteBuffer", "putShort",
          "putInt(I)ByteBuffer", "array"}>>,
      <<"java/nio/Buffer",
         {"remaining", "position()I", "position(I)Buffer", "limit"}>> }

(* java/nio/charset.rs, 97 to 182 *)
charset_TABLE ==
    { <<"java/nio/charset/Charset",
         {"forName(String)Charset", "name()String", "toString()String",
          "displayName()String", "displayName(Locale)String", "canEncode",
          "defaultCharset", "isSupported", "newDecoder", "newEncoder"}>>,
      <<"java/nio/charset/CharsetDecoder", {"charset"}>>,
      <<"java/nio/charset/CharsetEncoder", {"charset"}>> }

(* java/security/message_digest.rs, 195 to 266 *)
message_digest_TABLE ==
    { <<"java/security/MessageDigest",
         {"getInstance(String)MessageDigest", "<init>(String)V", "update([B)V",
          "update([B,I,I)V", "digest()[B", "digest([B)[B", "reset()V", "getAlgorithm",
          "getDigestLength", "digest([B,I,I)I"}>> }

(* java/security/secure_random.rs, 63 to 89 *)
secure_random_TABLE ==
    { <<"java/security/SecureRandom", {"<init>()V", "nextBytes", "setSeed([B)V"}>> }

(* java/security/ssl_context.rs, 18 to 40 *)
ssl_context_TABLE ==
    { <<"javax/net/ssl/SSLContext",
         {"getInstance(String)SSLContext", "getSocketFactory",
          "init([KeyManager,[TrustManager,SecureRandom)V"}>> }

(* java/text/collator.rs, 15 to 44 *)
collator_TABLE ==
    { <<"java/text/Collator",
         {"getInstance(Locale)Collator", "getInstance()java/text/Collator",
          "compare(String,String)I", "compare(Object,Object)I"}>> }

(* java/text/dateformat.rs, 81 to 117 *)
dateformat_TABLE ==
    { <<"java/text/DateFormat",
         {"setTimeZone", "parse(String)Date", "format(Date)String", "setLenient"}>>,
      <<"java/text/Format", {"format(Object)String"}>> }

(* java/text/decimalformat.rs, 99 to 142 *)
decimalformat_TABLE ==
    { <<"java/text/DecimalFormat",
         {"<init>(String)V", "<init>(String,DecimalFormatSymbols)V", "format(D)String",
          "format(J)String"}>>,
      <<"java/text/DecimalFormatSymbols",
         {"<init>(Locale)V", "getInstance(Locale)DecimalFormatSymbols"}>> }

(* java/text/normalizer.rs, 44 to 50 *)
normalizer_TABLE ==
    { <<"java/text/Normalizer", {"normalize(CharSequence,Normalizer$Form)String"}>> }

(* java/text/parseposition.rs, 31 to 53 *)
parseposition_TABLE ==
    { <<"java/text/ParsePosition", {"<init>(I)V", "getIndex", "setIndex"}>> }

(* java/text/simpledateformat.rs, 197 to 233 *)
simpledateformat_TABLE ==
    { <<"java/text/SimpleDateFormat",
         {"<init>(String,Locale)V", "<init>(String)V",
          "parse(String,ParsePosition)Date", "parse(String)Date", "toString()String"}>> }

(* java/time/date_time_formatter.rs, 92 to 128 *)
date_time_formatter_TABLE ==
    { <<"java/time/format/DateTimeFormatter",
         {"ofPattern", "toString()String", "withLocale", "ofLocalizedDate",
          "format(TemporalAccessor)String"}>> }

(* java/time/date_time_formatter_builder.rs, 53 to 82 *)
date_time_formatter_builder_TABLE ==
    { <<"java/time/format/DateTimeFormatterBuilder",
         {"<init>()V", "appendPattern", "parseDefaulting", "toFormatter"}>> }

(* java/time/instant.rs, 37 to 66 *)
instant_TABLE ==
    { <<"java/time/Instant",
         {"toEpochMilli", "atZone", "ofEpochMilli",
          "parse(java/lang/CharSequence)java/time/Instant"}>> }

(* java/time/local_date.rs, 104 to 168 *)
local_date_TABLE ==
    { <<"java/time/LocalDate",
         {"parse(CharSequence,DateTimeFormatter)LocalDate",
          "atStartOfDay(ZoneId)ZonedDateTime", "atStartOfDay()LocalDateTime",
          "now()LocalDate", "now(ZoneId)LocalDate", "of(I,I,I)LocalDate",
          "parse(CharSequence)LocalDate", "minusDays(J)LocalDate", "getYear"}>> }

(* java/time/local_date_time.rs, 34 to 56 *)
local_date_time_TABLE ==
    { <<"java/time/LocalDateTime",
         {"parse(CharSequence)LocalDateTime",
          "parse(CharSequence,DateTimeFormatter)LocalDateTime", "atZone"}>> }

(* java/time/zone_id.rs, 15 to 30 *)
zone_id_TABLE ==
    { <<"java/time/ZoneId", {"of(String)ZoneId", "systemDefault"}>> }

(* java/time/zoned_date_time.rs, 260 to 407 *)
zoned_date_time_TABLE_1 ==
    { <<"java/time/chrono/ChronoZonedDateTime", {"toInstant", "toEpochSecond"}>>,
      <<"java/time/ZonedDateTime",
         {"toInstant", "toEpochSecond", "now()ZonedDateTime",
          "now(ZoneId)ZonedDateTime", "getYear", "plusDays",
          "minusDays(J)ZonedDateTime", "minusHours(J)ZonedDateTime",
          "minusMinutes(J)ZonedDateTime", "minusSeconds(J)ZonedDateTime", "minusWeeks",
          "minusMonths", "minusYears", "truncatedTo",
          "parse(CharSequence,DateTimeFormatter)ZonedDateTime"}>>,
      <<"java/time/OffsetDateTime",
         {"toInstant", "now(ZoneId)OffsetDateTime", "minusHours(J)OffsetDateTime",
          "minusMinutes(J)OffsetDateTime"}>> }

(* java/time/zoned_date_time.rs, 408 to 415 *)
zoned_date_time_TABLE_2 ==
    { <<"java/time/OffsetDateTime", {"minusSeconds(J)OffsetDateTime"}>> }

(* java/util/arraydeque.rs, 71 to 117 *)
arraydeque_TABLE ==
    { <<"java/util/ArrayDeque",
         {"<init>()V", "<init>(I)V", "addLast", "addFirst", "removeFirst",
          "removeLast", "size()I", "isEmpty", "peekFirst"}>> }

(* java/util/arraylist.rs, 437 to 581 *)
arraylist_TABLE_1 ==
    { <<"java/util/AbstractCollection",
         {"size()I", "isEmpty", "add(Object)Z", "remove(Object)Z", "clear()V",
          "contains(Object)Z", "containsAll", "addAll(Collection)Z"}>>,
      <<"java/util/AbstractList", {"get(I)Object", "remove(I)Object", "subList"}>>,
      <<"java/util/ArrayList",
         {"<init>()V", "<init>(I)V", "<init>(Collection)V", "size()I", "isEmpty",
          "get(I)Object", "set(I,Object)Object", "add(Object)Z", "add(I,Object)V",
          "remove(I)Object", "remove(Object)Z", "clear()V", "contains(Object)Z"}>> }

(* java/util/arraylist.rs, 582 to 687 *)
arraylist_TABLE_2 ==
    { <<"java/util/ArrayList",
         {"indexOf(Object)I", "lastIndexOf(Object)I", "iterator",
          "listIterator()ListIterator", "listIterator(I)ListIterator", "subList",
          "ensureCapacity", "toArray()[Object", "toArray([Object)[Object",
          "addAll(Collection)Z", "addAll(I,Collection)Z", "removeAll(Collection)Z",
          "retainAll(Collection)Z", "toString()String", "sort(Comparator)V"}>> }

(* java/util/arraylist.rs, 692 to 812 *)
arraylist_COW_TABLE ==
    { <<"java/util/concurrent/CopyOnWriteArrayList",
         {"<init>()V", "<init>(Collection)V", "size()I", "isEmpty", "get(I)Object",
          "set(I,Object)Object", "add(Object)Z", "add(I,Object)V", "remove(I)Object",
          "remove(Object)Z", "clear()V", "contains(Object)Z", "indexOf(Object)I",
          "iterator", "toArray()[Object", "addAll(Collection)Z", "toString()String"}>> }

(* java/util/arrays.rs, 287 to 434 *)
arrays_TABLE_1 ==
    { <<"java/util/Arrays",
         {"hashCode([Object)I", "hashCode([B)I", "hashCode([I)I", "fill([B,B)V",
          "asList([Object)List", "copyOf([B,I)[B", "copyOf([C,I)[C", "copyOf([S,I)[S",
          "copyOf([I,I)[I", "copyOf([J,I)[J", "copyOf([F,I)[F", "copyOf([D,I)[D",
          "copyOf([Z,I)[Z", "copyOf([Object,I)[Object", "copyOfRange([B,I,I)[B",
          "copyOfRange([C,I,I)[C", "copyOfRange([S,I,I)[S", "copyOfRange([I,I,I)[I",
          "copyOfRange([J,I,I)[J", "copyOfRange([F,I,I)[F", "copyOfRange([D,I,I)[D"}>> }

(* java/util/arrays.rs, 435 to 584 *)
arrays_TABLE_2 ==
    { <<"java/util/Arrays",
         {"copyOfRange([Z,I,I)[Z", "copyOfRange([Object,I,I)[Object", "sort([I)V",
          "sort([J)V", "sort([B)V", "sort([C)V", "sort([S)V", "sort([F)V", "sort([D)V",
          "sort([Z)V", "sort([Object)V", "sort([Object,Comparator)V",
          "toString([B)String", "toString([C)String", "toString([S)String",
          "toString([I)String", "toString([J)String", "toString([F)String",
          "toString([D)String", "toString([Z)String", "toString([Object)String",
          "fill([I,I)V", "fill([J,I)V", "fill([B,I)V"}>> }

(* java/util/arrays.rs, 585 to 660 *)
arrays_TABLE_3 ==
    { <<"java/util/Arrays",
         {"fill([C,I)V", "fill([S,I)V", "fill([F,I)V", "fill([D,I)V", "fill([Z,I)V",
          "fill([Object,Object)V", "equals([B,[B)Z", "equals([C,[C)Z",
          "equals([S,[S)Z", "equals([I,[I)Z", "equals([J,[J)Z", "equals([F,[F)Z",
          "equals([D,[D)Z", "equals([Z,[Z)Z", "equals([Object,[Object)Z"}>> }

(* java/util/atomic.rs, 231 to 378 *)
atomic_TABLE_1 ==
    { <<"java/util/concurrent/atomic/AtomicReference",
         {"<init>(Object)V", "<init>()V", "get()Object", "set(Object)V"}>>,
      <<"java/util/concurrent/atomic/AtomicReferenceArray",
         {"<init>(I)V", "get(I)Object", "set(I,Object)V", "getAndSet",
          "compareAndSet(I,Object,Object)Z"}>>,
      <<"java/util/concurrent/atomic/AtomicBoolean",
         {"<init>(Z)V", "<init>()V", "get()Z", "set(Z)V", "compareAndSet(Z,Z)Z",
          "toString()String"}>>,
      <<"java/util/concurrent/atomic/AtomicInteger",
         {"<init>(I)V", "<init>()V", "get()I", "set(I)V", "addAndGet", "getAndAdd"}>> }

(* java/util/atomic.rs, 379 to 414 *)
atomic_TABLE_2 ==
    { <<"java/util/concurrent/atomic/AtomicInteger",
         {"incrementAndGet", "decrementAndGet", "getAndIncrement",
          "compareAndSet(I,I)Z", "toString()String"}>> }

(* java/util/base64.rs, 69 to 119 *)
base64_TABLE ==
    { <<"java/util/Base64",
         {"getDecoder", "getEncoder", "getUrlDecoder", "getUrlEncoder"}>>,
      <<"java/util/Base64$Decoder", {"decode(String)[B"}>>,
      <<"java/util/Base64$Encoder", {"encodeToString([B)String", "withoutPadding"}>> }

(* java/util/calendar.rs, 230 to 325 *)
calendar_TABLE ==
    { <<"java/util/Calendar",
         {"getInstance()Calendar", "getInstance(TimeZone)Calendar",
          "getInstance(Locale)Calendar", "getInstance(TimeZone,Locale)Calendar",
          "getTimeInMillis", "setTimeInMillis", "getTime()Date", "setTime(Date)V",
          "get(I)I", "set(I,I)V", "set(I,I,I,I,I,I)V", "add(I,I)V",
          "getDisplayName(I,I,Locale)String"}>>,
      <<"java/util/GregorianCalendar",
         {"<init>()V", "<init>(TimeZone)V", "add(I,I)V"}>> }

(* java/util/collections.rs, 104 to 224 *)
collections_TABLE ==
    { <<"java/util/Collections",
         {"emptyList", "emptySet", "emptyMap", "singleton", "singletonList",
          "singletonMap", "unmodifiableCollection", "unmodifiableList",
          "unmodifiableSet", "unmodifiableMap", "synchronizedList", "synchronizedSet",
          "synchronizedMap", "sort(List)V", "sort(List,Comparator)V", "reverse",
          "addAll(Collection,[Object)Z"}>> }

(* java/util/condition.rs, 6 to 35 *)
condition_TABLE ==
    { <<"java/util/concurrent/locks/Condition",
         {"awaitNanos", "await()V", "signal", "signalAll"}>> }

(* java/util/count_down_latch.rs, 58 to 115 *)
count_down_latch_TABLE ==
    { <<"java/util/concurrent/CountDownLatch",
         {"<init>(I)V", "countDown", "getCount", "await(J,TimeUnit)Z"}>>,
      <<"java/util/concurrent/Semaphore",
         {"<init>(I)V", "release", "tryAcquire(J,TimeUnit)Z", "tryAcquire()Z"}>> }

(* java/util/date.rs, 91 to 138 *)
date_TABLE ==
    { <<"java/util/Date",
         {"<init>()V", "<init>(J)V", "getTime()J", "setTime(J)V", "toString()String",
          "after", "before", "equals(Object)Z", "compareTo(Date)I",
          "compareTo(Object)I"}>> }

(* java/util/hashmap.rs, 307 to 412 *)
hashmap_TABLE ==
    { <<"java/util/HashMap",
         {"<init>()V", "<init>(I)V", "<init>(I,F)V", "<init>(Map)V", "size()I",
          "isEmpty", "get(Object)Object", "getOrDefault", "put(Object,Object)Object",
          "putAll", "putIfAbsent", "containsKey(Object)Z", "containsValue",
          "remove(Object)Object", "remove(Object,Object)Z", "clear()V", "keySet",
          "values()Collection", "entrySet", "toString()String"}>> }

(* java/util/hashmap.rs, 417 to 454 *)
hashmap_ABSTRACT_MAP_TABLE ==
    { <<"java/util/AbstractMap",
         {"size()I", "isEmpty", "get(Object)Object", "put(Object,Object)Object",
          "containsKey(Object)Z", "remove(Object)Object"}>> }

(* java/util/hashmap.rs, 457 to 598 *)
hashmap_CHM_TABLE ==
    { <<"java/util/concurrent/ConcurrentHashMap",
         {"<init>()V", "<init>(I)V", "<init>(I,F)V", "<init>(Map)V", "size()I",
          "isEmpty", "get(Object)Object", "getOrDefault", "put(Object,Object)Object",
          "putAll", "putIfAbsent", "containsKey(Object)Z", "containsValue",
          "remove(Object)Object", "remove(Object,Object)Z", "clear()V", "keySet",
          "values()Collection", "entrySet", "toString()String"}>> }

(* java/util/hashset.rs, 169 to 224 *)
hashset_TABLE ==
    { <<"java/util/HashSet",
         {"<init>()V", "<init>(I)V", "<init>(Collection)V", "size()I", "isEmpty",
          "contains(Object)Z", "add(Object)Z", "remove(Object)Z", "clear()V",
          "iterator", "addAll(Collection)Z", "toString()String"}>> }

(* java/util/inflater.rs, 115 to 152 *)
inflater_TABLE ==
    { <<"java/util/zip/Inflater",
         {"<init>()V", "<init>(Z)V", "setInput", "inflate", "finished", "end()V"}>> }

(* java/util/iterator.rs, 142 to 166 *)
iterator_TABLE ==
    { <<"java/util/Iterator", {"hasNext", "next()Object", "remove()V"}>> }

(* java/util/iterator.rs, the entries that need feature jsoup *)
iterator_TABLE_jsoup ==
    { <<"java/util/AbstractCollection", {"iterator"}>> }

(* java/util/linkedhashmap.rs, 8 to 138 *)
linkedhashmap_TABLE ==
    { <<"java/util/LinkedHashMap",
         {"<init>()V", "<init>(I)V", "<init>(I,F)V", "<init>(I,F,Z)V", "<init>(Map)V",
          "size()I", "isEmpty", "get(Object)Object", "getOrDefault",
          "put(Object,Object)Object", "putAll", "putIfAbsent", "containsKey(Object)Z",
          "containsValue", "remove(Object)Object", "remove(Object,Object)Z",
          "clear()V", "keySet", "values()Collection", "entrySet", "toString()String"}>> }

(* java/util/linkedhashset.rs, 8 to 75 *)
linkedhashset_TABLE ==
    { <<"java/util/LinkedHashSet",
         {"<init>()V", "<init>(I)V", "<init>(Collection)V", "size()I", "isEmpty",
          "contains(Object)Z", "add(Object)Z", "remove(Object)Z", "clear()V",
          "iterator", "addAll(Collection)Z", "toString()String"}>> }

(* java/util/list_iterator.rs, 8 to 30 *)
list_iterator_TABLE ==
    { <<"java/util/ListIterator", {"hasNext", "next()Object", "remove()V"}>> }

(* java/util/locale.rs, 93 to 171 *)
locale_TABLE ==
    { <<"java/util/Locale",
         {"<init>(String)V", "<init>(String,String)V", "<init>(String,String,String)V",
          "getDefault()Locale", "toString()String", "getLanguage", "getCountry",
          "forLanguageTag", "getDisplayLanguage()String",
          "getDisplayLanguage(Locale)String", "getDisplayName(Locale)String"}>> }

(* java/util/map_entry.rs, 58 to 80 *)
map_entry_TABLE ==
    { <<"java/util/Map$Entry", {"getKey()Object", "getValue()Object", "setValue"}>> }

(* java/util/objects.rs, 77 to 148 *)
objects_TABLE ==
    { <<"java/util/Objects",
         {"equals(Object,Object)Z", "hashCode(Object)I", "hash",
          "requireNonNull(Object)Object", "requireNonNull(Object,String)Object",
          "requireNonNullElse", "toString(Object)String",
          "toString(Object,String)String", "isNull", "nonNull"}>> }

(* java/util/random.rs, 150 to 215 *)
random_TABLE ==
    { <<"java/util/Random",
         {"<init>()V", "<init>(J)V", "nextInt()I", "nextInt(I)I", "nextLong",
          "nextDouble", "nextFloat", "nextBoolean", "nextBytes", "setSeed(J)V"}>> }

(* java/util/reentrant_lock.rs, 52 to 88 *)
reentrant_lock_TABLE ==
    { <<"java/util/concurrent/locks/ReentrantLock",
         {"<init>()V", "<init>(Z)V", "lock()V", "unlock", "newCondition"}>> }

(* java/util/regex/matcher.rs, 288 to 409 *)
matcher_TABLE ==
    { <<"java/util/regex/Matcher",
         {"matches()Z", "find()Z", "find(I)Z", "lookingAt", "group()String",
          "group(I)String", "groupCount", "start()I", "start(I)I", "end()I", "end(I)I",
          "replaceAll", "replaceFirst(String)String", "reset()Matcher",
          "reset(CharSequence)Matcher", "region", "pattern()Pattern",
          "toString()String"}>> }

(* java/util/regex/pattern.rs, 113 to 198 *)
pattern_TABLE ==
    { <<"java/util/regex/Pattern",
         {"<init>(String)V", "<init>(String,I)V", "matcher",
          "matches(String,CharSequence)Z", "compile(String)Pattern",
          "compile(String,I)Pattern", "pattern()String", "toString()String", "flags",
          "split(CharSequence)[String", "split(CharSequence,I)[String", "quote"}>> }

(* java/util/resourcebundle.rs, 119 to 155 *)
resourcebundle_TABLE ==
    { <<"java/util/PropertyResourceBundle",
         {"<init>(Reader)V", "containsKey(String)Z", "getString(String)String"}>>,
      <<"java/util/ResourceBundle",
         {"containsKey(String)Z", "getString(String)String"}>> }

(* java/util/timezone.rs, 19 to 34 *)
timezone_TABLE ==
    { <<"java/util/TimeZone", {"getTimeZone", "getDefault()TimeZone"}>> }

(* java/util/uuid.rs, 56 to 71 *)
uuid_TABLE ==
    { <<"java/util/UUID", {"randomUUID", "toString()String"}>> }

(* java/util/zip_stream.rs, 68 to 104 *)
zip_stream_TABLE ==
    { <<"java/util/zip/ZipInputStream",
         {"<init>(InputStream)V", "getNextEntry", "closeEntry", "close"}>>,
      <<"java/util/zip/ZipEntry", {"getName"}>> }

(* The tables that every build has. *)
JavaTables ==
    buffered_reader_TABLE \cup byte_array_input_stream_TABLE \cup
    byte_array_output_stream_TABLE \cup gzip_TABLE \cup input_stream_reader_TABLE \cup
    output_stream_TABLE \cup print_stream_TABLE \cup JAVAX_CRYPTO_TABLE \cup
    boolean_TABLE \cup byte_TABLE \cup character_TABLE \cup class_TABLE \cup
    classloader_TABLE \cup double_TABLE \cup enum_TABLE \cup float_TABLE \cup
    integer_TABLE_1 \cup integer_TABLE_2 \cup long_TABLE \cup math_TABLE \cup
    number_TABLE \cup object_TABLE \cup reflect_TABLE \cup short_TABLE \cup
    soft_reference_TABLE \cup string_TABLE_1 \cup string_TABLE_2 \cup
    string_TABLE_3 \cup stringbuilder_TABLE_1 \cup stringbuilder_TABLE_2 \cup
    system_TABLE \cup thread_TABLE \cup throwable_TABLE \cup bigdecimal_TABLE \cup
    biginteger_TABLE_1 \cup biginteger_TABLE_2 \cup inet_address_TABLE \cup
    uri_TABLE \cup url_TABLE \cup bytebuffer_TABLE \cup charset_TABLE \cup
    message_digest_TABLE \cup secure_random_TABLE \cup ssl_context_TABLE \cup
    collator_TABLE \cup dateformat_TABLE \cup decimalformat_TABLE \cup
    normalizer_TABLE \cup parseposition_TABLE \cup simpledateformat_TABLE \cup
    date_time_formatter_TABLE \cup date_time_formatter_builder_TABLE \cup
    instant_TABLE \cup local_date_TABLE \cup local_date_time_TABLE \cup
    zone_id_TABLE \cup zoned_date_time_TABLE_1 \cup zoned_date_time_TABLE_2 \cup
    arraydeque_TABLE \cup arraylist_TABLE_1 \cup arraylist_TABLE_2 \cup
    arraylist_COW_TABLE \cup arrays_TABLE_1 \cup arrays_TABLE_2 \cup arrays_TABLE_3 \cup
    atomic_TABLE_1 \cup atomic_TABLE_2 \cup base64_TABLE \cup calendar_TABLE \cup
    collections_TABLE \cup condition_TABLE \cup count_down_latch_TABLE \cup
    date_TABLE \cup hashmap_TABLE \cup hashmap_ABSTRACT_MAP_TABLE \cup
    hashmap_CHM_TABLE \cup hashset_TABLE \cup inflater_TABLE \cup iterator_TABLE \cup
    linkedhashmap_TABLE \cup linkedhashset_TABLE \cup list_iterator_TABLE \cup
    locale_TABLE \cup map_entry_TABLE \cup objects_TABLE \cup random_TABLE \cup
    reentrant_lock_TABLE \cup matcher_TABLE \cup pattern_TABLE \cup
    resourcebundle_TABLE \cup timezone_TABLE \cup uuid_TABLE \cup zip_stream_TABLE

(* The tables that need android. *)
JavaTablesWithAndroid ==
    file_TABLE_1 \cup file_TABLE_2

(* The tables that need jsoup. *)
JavaTablesWithJsoup ==
    iterator_TABLE_jsoup

=============================================================================
